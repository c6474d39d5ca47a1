--------------------------- MODULE MpiChannel_proofs ---------------------------
(***************************************************************************)
(* The MPI channel, for any number of ranks, plans, transfers and starts.  *)
(* First: the two sides agree on the batches; and, when a plan is          *)
(* destroyed only after the daemons have let its operations go, nothing    *)
(* that was freed is touched. Then: MPI matches the two halves of one      *)
(* transfer with each other, although tags are used again, so that nothing *)
(* is left half way and the channel implements Transfer. Last: the channel *)
(* closes with nothing left to send.                                       *)
(***************************************************************************)
EXTENDS MpiTransfer, MpiClose, SequenceTheorems, FiniteSetTheorems, TLAPS

-----------------------------------------------------------------------------
(* The inductive invariant *)

\* What the operations on the tag pools, and on the arrays, rely on.
PlansTaken ==
    \A i \in Plans :
        /\ plan[i] # "none" => Len(tag[i]) = Len(Wrts[i])
        /\ plan[i] = "ready" => i \notin Once
        /\ plan[i] # "none" /\ i \notin Once => \A q \in Receivers(i) : batch[i][q] \in Ids
MessagesTaken ==
    \A q, r \in Ranks : \A n \in 1 .. Len(ctrl[q][r]) :
        /\ ctrl[q][r][n].type # "execute" => ctrl[q][r][n].batch \in Ids
        /\ plan[ctrl[q][r][n].plan] # "none"
SlotsTaken ==
    \A r, q \in Ranks, b \in Ids : slot[r][q][b] # None => plan[slot[r][q][b]] # "none"
ArraysTaken ==
    \A r \in Ranks :
        /\ \A op \in que[r] \cup dset[r] : op[3] = "loc" => plan[op[1]] # "none"
        /\ dpc[r] = "release" => dop[r] \in dset[r]
Taken == PlansTaken /\ MessagesTaken /\ SlotsTaken /\ ArraysTaken

TypeInv == TypeOK /\ Taken

\* The n-th message on its way to q is one of this type for plan i.
On(i, q, n, type) ==
    /\ n \in 1 .. Len(ctrl[Owner[i]][q])
    /\ ctrl[Owner[i]][q][n].plan = i /\ ctrl[Owner[i]][q][n].type = type
OnAny(i, q, n) == n \in 1 .. Len(ctrl[Owner[i]][q]) /\ ctrl[Owner[i]][q][n].plan = i

\* Two plans that use the same slot of receiver q
SameSlot(i, j, q) ==
    /\ i \notin Once /\ j \notin Once /\ i # j /\ Owner[i] = Owner[j]
    /\ q \in Receivers(i) /\ q \in Receivers(j) /\ batch[i][q] = batch[j][q]

HoldsSlot(i, q) == slot[q][Owner[i]][batch[i][q]] = i

MessagesRight ==
    \A q, r \in Ranks : \A n \in 1 .. Len(ctrl[q][r]) : LET m == ctrl[q][r][n] IN
        /\ Owner[m.plan] = q /\ r \in Receivers(m.plan) /\ plan[m.plan] # "none"
        /\ m.type = "execute" <=> m.plan \in Once
        /\ m.plan \notin Once => m.batch = batch[m.plan][r]
        /\ m.type = "destroy" => plan[m.plan] = "gone"

MessagesOrdered ==
    \A i \in Plans : \A q \in Receivers(i) : \A n, m \in Nat : OnAny(i, q, m) /\ n # m =>
        /\ On(i, q, n, "create") => n < m
        /\ On(i, q, n, "destroy") => m < n
        /\ ~On(i, q, n, "execute")

SlotsRight ==
    \A r, q \in Ranks, b \in Ids : LET i == slot[q][r][b] IN i # None =>
        /\ Owner[i] = r /\ i \notin Once /\ q \in Receivers(i) /\ batch[i][q] = b
        /\ plan[i] # "none"
        /\ ~OnItsWay(i, q, "create")
        /\ plan[i] = "gone" => OnItsWay(i, q, "destroy")

\* A message finds its plan in the slot when it arrives.
MessagesMeet ==
    \A i \in Plans \ Once : \A q \in Receivers(i) :
        /\ plan[i] = "ready" => HoldsSlot(i, q) \/ OnItsWay(i, q, "create")
        /\ plan[i] = "gone" /\ OnItsWay(i, q, "create") => OnItsWay(i, q, "destroy")
        /\ \A n \in Nat : On(i, q, n, "start") \/ On(i, q, n, "destroy") =>
              HoldsSlot(i, q) \/ \E m \in Nat : m < n /\ On(i, q, m, "create")

\* The slot is free when a create message arrives.
SlotsReused ==
    \A i, j \in Plans : \A q \in Ranks : SameSlot(i, j, q) => \A n \in Nat : On(j, q, n, "create") =>
        /\ HoldsSlot(i, q) => \E m \in Nat : m < n /\ On(i, q, m, "destroy")
        /\ \A k \in Nat : On(i, q, k, "create") /\ k < n =>
              \E m \in Nat : k < m /\ m < n /\ On(i, q, m, "destroy")

BatchesHeld ==
    /\ \A r, q \in Ranks : \A a, b \in 1 .. Len(batches[r][q]) :
          batches[r][q][a] = batches[r][q][b] => a = b
    /\ \A i \in Plans : \A q \in Receivers(i) : plan[i] = "ready" =>
          /\ \A a \in 1 .. Len(batches[Owner[i]][q]) : batches[Owner[i]][q][a] # batch[i][q]
          /\ \A j \in Plans : SameSlot(i, j, q) => plan[j] # "ready"

CtrlInv == /\ MessagesRight /\ MessagesOrdered /\ SlotsRight
           /\ MessagesMeet /\ SlotsReused /\ BatchesHeld

\* The remote half waits for a message that starts it.
Coming(op) ==
    op[3] = "rmt" /\ \/ OnItsWay(op[1], At(op), "start")
                     \/ OnItsWay(op[1], At(op), "execute")

\* The daemon still has to update the operation's signal.
Due(op) == op \in dset[At(op)] /\ ~(dpc[At(op)] = "release" /\ dop[At(op)] = op)

\* Nothing of a plan is behind the message that starts it.
StartLast ==
    \A i \in Plans : \A q \in Receivers(i) : \A n, m \in Nat :
        On(i, q, n, "start") /\ OnAny(i, q, m) => m <= n

EventRight(op) == IF Owed(op) THEN events[op] = starts[op[1]] - 1 ELSE events[op] = starts[op[1]]

\* An operation is owed its event for one reason at a time.
OwedOnce(op) ==
    /\ Coming(op) => ost[op] # "active" /\ ~Due(op)
    /\ Due(op) => ost[op] = "idle"
    /\ op \in dset[At(op)] => ost[op] = "idle" \/ (op[1] \notin Once /\ ost[op] = "active")

\* What an operation has been through, by its plan and its messages
LifeCycle(op) == LET i == op[1] IN
    /\ plan[i] = "none" => ost[op] = "none"
    /\ i \notin Once /\ op[3] = "loc" /\ plan[i] = "ready" => ost[op] \in {"idle", "active"}
    /\ i \notin Once /\ plan[i] = "gone" => ~Owed(op) /\ op \notin dset[At(op)]
    /\ i \notin Once /\ op[3] = "rmt" /\ plan[i] # "none" /\ HoldsSlot(i, At(op)) =>
          ost[op] \in {"idle", "active"}
    /\ op[3] = "rmt" /\ (\/ OnItsWay(i, At(op), "create")
                         \/ OnItsWay(i, At(op), "execute")) => ost[op] = "none"

OpRight(op) == EventRight(op) /\ OwedOnce(op) /\ LifeCycle(op)

\* Where the daemons are, and the operations they hold
DaemonsRight ==
    \A r \in Ranks :
        /\ \A op \in Ops : /\ op \in que[r] <=> At(op) = r /\ ost[op] = "active"
                           /\ op \in dset[r] => At(op) = r
        /\ dpc[r] = "probe" <=> dset[r] = {}

StartsRight == \A i \in Plans : plan[i] = "none" => starts[i] = 0

OpInv == /\ StartLast /\ StartsRight /\ DaemonsRight
         /\ \A op \in Ops : OpRight(op)

-----------------------------------------------------------------------------
(* Facts about operations *)

LEMMA OpsAre ==
    \A op : op \in Ops <=> /\ op = <<op[1], op[2], op[3]>> /\ op[1] \in Plans
                           /\ op[2] \in Indices(op[1]) /\ op[3] \in {"loc", "rmt"}
<1> SUFFICES ASSUME NEW op
             PROVE  op \in Ops <=> /\ op = <<op[1], op[2], op[3]>> /\ op[1] \in Plans
                                   /\ op[2] \in Indices(op[1]) /\ op[3] \in {"loc", "rmt"}
  OBVIOUS
<1>1. op \in Ops <=> \E i \in Plans, k \in Indices(op[1]), h \in {"loc", "rmt"} :
                         i = op[1] /\ op = <<i, k, h>>
  BY DEF Ops
<1> QED BY <1>1

LEMMA PlanFacts ==
    ASSUME NEW i \in Plans
    PROVE  /\ Owner[i] \in Ranks /\ Len(Wrts[i]) \in Nat /\ Len(Wrts[i]) > 0
           /\ Indices(i) = 1 .. Len(Wrts[i])
           /\ \A k \in Indices(i) : /\ Wrts[i][k].dst \in Ranks
                                    /\ Wrts[i][k].dma \in {"put", "get"}
                                    /\ Wrts[i][k].dst \in Receivers(i)
           /\ Receivers(i) \subseteq Ranks
<1>1. /\ Wrts[i] \in Seq([dst : Ranks, dma : {"put", "get"}]) /\ Wrts[i] # <<>>
      /\ Owner[i] \in Ranks
  BY ChannelAssumption
<1>2. Indices(i) = 1 .. Len(Wrts[i])
  BY DEF Indices
<1>3. \A k \in Indices(i) : Wrts[i][k] \in [dst : Ranks, dma : {"put", "get"}]
  BY <1>1, <1>2, ElementOfSeq
<1>4. \A k \in Indices(i) : Wrts[i][k].dst \in Ranks /\ Wrts[i][k].dma \in {"put", "get"}
  BY <1>3
<1>5. Len(Wrts[i]) \in Nat /\ Len(Wrts[i]) > 0
  BY <1>1
<1> QED BY <1>1, <1>2, <1>4, <1>5 DEF Receivers

LEMMA OpFacts ==
    ASSUME NEW op \in Ops
    PROVE  /\ op[1] \in Plans /\ op[2] \in Indices(op[1]) /\ op[3] \in {"loc", "rmt"}
           /\ At(op) \in Ranks /\ Peer(op) \in Ranks
           /\ op[3] = "loc" => At(op) = Owner[op[1]] /\ Peer(op) \in Receivers(op[1])
                               /\ Peer(op) = Wrts[op[1]][op[2]].dst
           /\ op[3] = "rmt" => Peer(op) = Owner[op[1]] /\ At(op) \in Receivers(op[1])
                               /\ At(op) = Wrts[op[1]][op[2]].dst
<1>1. op[1] \in Plans /\ op[2] \in Indices(op[1]) /\ op[3] \in {"loc", "rmt"}
  BY OpsAre
<1>2. Owner[op[1]] \in Ranks /\ Wrts[op[1]][op[2]].dst \in Receivers(op[1])
      /\ Wrts[op[1]][op[2]].dst \in Ranks
  BY <1>1, PlanFacts
<1> QED BY <1>1, <1>2 DEF At, Peer, Partner

LEMMA PartnerFacts ==
    ASSUME NEW op \in Ops
    PROVE  /\ Partner(op) \in Ops /\ Partner(op) # None
           /\ Partner(op)[1] = op[1] /\ Partner(op)[2] = op[2]
           /\ op[3] = "loc" <=> Partner(op)[3] = "rmt"
           /\ op[3] = "rmt" <=> Partner(op)[3] = "loc"
           /\ Partner(Partner(op)) = op
           /\ At(Partner(op)) = Peer(op) /\ Peer(Partner(op)) = At(op)
           /\ TagOf(Partner(op)) = TagOf(op)
           /\ IsSend(Partner(op)) <=> ~IsSend(op)
<1>1. op = <<op[1], op[2], op[3]>> /\ op[1] \in Plans
      /\ op[2] \in Indices(op[1]) /\ op[3] \in {"loc", "rmt"}
  BY OpsAre
<1>2. /\ Partner(op)[1] = op[1] /\ Partner(op)[2] = op[2]
      /\ Partner(op)[3] = IF op[3] = "loc" THEN "rmt" ELSE "loc"
  BY DEF Partner
<1>3. Partner(op) \in Ops
  BY <1>1, <1>2, OpsAre DEF Partner
<1>4. Partner(Partner(op)) = op
  BY <1>1, <1>2 DEF Partner
<1>5. At(Partner(op)) = Peer(op) /\ Peer(Partner(op)) = At(op)
  BY <1>4 DEF Peer
<1>6. IsSend(Partner(op)) <=> ~IsSend(op)
  BY <1>1, <1>2 DEF IsSend
<1>7. Partner(op) # None
  BY <1>3, NoneAssumption
<1> QED BY <1>1, <1>2, <1>3, <1>4, <1>5, <1>6, <1>7 DEF TagOf

LEMMA LocAre ==
    ASSUME NEW i \in Plans
    PROVE  /\ Loc(i) = {op \in Ops : op[1] = i /\ op[3] = "loc"}
           /\ \A q : Rmt(i, q) = {op \in Ops : op[1] = i /\ op[3] = "rmt" /\ At(op) = q}
           /\ OpsOf(i) = {op \in Ops : op[1] = i}
<1>1. ASSUME NEW op PROVE op \in Loc(i) <=> op \in Ops /\ op[1] = i /\ op[3] = "loc"
  BY OpsAre DEF Loc
<1>2. ASSUME NEW op, NEW q
      PROVE  op \in Rmt(i, q) <=> op \in Ops /\ op[1] = i /\ op[3] = "rmt" /\ At(op) = q
  BY OpsAre DEF Rmt, At
<1> QED BY <1>1, <1>2 DEF OpsOf

-----------------------------------------------------------------------------
(* The numbers a plan takes from the pools and puts back *)

RankOf(i, k) == Cardinality({j \in 1 .. k : Wrts[i][j].dst = Wrts[i][k].dst})
Used(i, q) == Cardinality({j \in Indices(i) : Wrts[i][j].dst = q})

\* The transfers to one destination take different numbers, the first ones.
LEMMA RankFacts ==
    ASSUME NEW i \in Plans
    PROVE  /\ \A q : Used(i, q) \in Nat /\ (q \notin Receivers(i) => Used(i, q) = 0)
           /\ \A k \in Indices(i) : RankOf(i, k) \in 1 .. Used(i, Wrts[i][k].dst)
           /\ \A j, k \in Indices(i) :
                 Wrts[i][j].dst = Wrts[i][k].dst /\ RankOf(i, j) = RankOf(i, k) => j = k
<1> DEFINE To(q) == {j \in Indices(i) : Wrts[i][j].dst = q}
           Upto(k) == {j \in 1 .. k : Wrts[i][j].dst = Wrts[i][k].dst}
<1>1. \A k \in Indices(i) : k \in Nat /\ k > 0
  BY PlanFacts
<1>2. IsFiniteSet(Indices(i))
  BY PlanFacts, FS_Interval
<1>3. \A q : IsFiniteSet(To(q)) /\ Cardinality(To(q)) \in Nat
  BY <1>2, FS_Subset, FS_CardinalityType
<1>4. \A q : q \notin Receivers(i) => Cardinality(To(q)) = 0
  <2> SUFFICES ASSUME NEW q, q \notin Receivers(i) PROVE To(q) = {}
    BY FS_EmptySet
  <2> QED BY PlanFacts
<1>5. \A k \in Indices(i) : Upto(k) \in SUBSET To(Wrts[i][k].dst) /\ k \in Upto(k)
  BY <1>1, PlanFacts
<1>6. \A k \in Indices(i) : /\ IsFiniteSet(Upto(k)) /\ Cardinality(Upto(k)) \in Nat
                            /\ Cardinality(Upto(k)) > 0
                            /\ Cardinality(Upto(k)) <= Cardinality(To(Wrts[i][k].dst))
  <2> SUFFICES ASSUME NEW k \in Indices(i)
               PROVE  /\ IsFiniteSet(Upto(k)) /\ Cardinality(Upto(k)) \in Nat
                      /\ Cardinality(Upto(k)) > 0
                      /\ Cardinality(Upto(k)) <= Cardinality(To(Wrts[i][k].dst))
    OBVIOUS
  <2> HIDE DEF Upto, To
  <2>1. IsFiniteSet(Upto(k)) /\ Cardinality(Upto(k)) <= Cardinality(To(Wrts[i][k].dst))
    BY <1>3, <1>5, FS_Subset
  <2>2. Cardinality(Upto(k)) \in Nat
    BY <2>1, FS_CardinalityType
  <2>3. Cardinality(Upto(k)) # 0
    BY <2>1, <1>5, FS_EmptySet
  <2> QED BY <2>1, <2>2, <2>3
<1>7. ASSUME NEW j \in Indices(i), NEW k \in Indices(i), j < k,
             Wrts[i][j].dst = Wrts[i][k].dst
      PROVE  Cardinality(Upto(j)) # Cardinality(Upto(k))
  <2>1. Upto(j) \in SUBSET Upto(k) /\ k \notin Upto(j)
    BY <1>1, <1>7
  <2> HIDE DEF Upto
  <2> QED BY <2>1, <1>5, <1>6, FS_Subset
<1>8. \A j, k \in Indices(i) :
         Wrts[i][j].dst = Wrts[i][k].dst /\ Cardinality(Upto(j)) = Cardinality(Upto(k)) => j = k
  <2> HIDE DEF Upto
  <2> QED BY <1>1, <1>7
<1>9. /\ \A q : Used(i, q) = Cardinality(To(q))
      /\ \A k : RankOf(i, k) = Cardinality(Upto(k))
  BY DEF RankOf, Used
<1> HIDE DEF To, Upto
<1> QED BY <1>3, <1>4, <1>6, <1>8, <1>9

LEMMA NthExists ==
    ASSUME NEW ks \in SUBSET Nat, IsFiniteSet(ks), NEW n \in 1 .. Cardinality(ks)
    PROVE  \E k \in ks : Cardinality({j \in ks : j > k}) = n - 1
<1> DEFINE Above(k) == {j \in ks : j > k}
           above == [k \in ks |-> Cardinality(Above(k))]
           c == Cardinality(ks)
<1>1. c \in Nat
  BY FS_CardinalityType
<1>2. ASSUME NEW S \in SUBSET ks, NEW T \in SUBSET S, T # S
      PROVE  Cardinality(T) < Cardinality(S) /\ Cardinality(T) \in Nat /\ Cardinality(S) \in Nat
  <2>1. IsFiniteSet(S) /\ IsFiniteSet(T)
    BY <1>2, FS_Subset
  <2>2. Cardinality(S) \in Nat /\ Cardinality(T) \in Nat
    BY <2>1, FS_CardinalityType
  <2>3. Cardinality(T) <= Cardinality(S) /\ Cardinality(T) # Cardinality(S)
    BY <2>1, <1>2, FS_Subset
  <2> QED BY <2>2, <2>3
<1>3. \A k \in ks : Above(k) \in SUBSET ks /\ Above(k) # ks
  OBVIOUS
<1>4. \A k \in ks : above[k] \in 0 .. c - 1
  <2> HIDE DEF Above
  <2> QED BY <1>1, <1>2, <1>3
<1>5. ASSUME NEW j \in ks, NEW k \in ks, j < k PROVE above[j] # above[k]
  <2>0. \A x \in ks : x \in Nat
    OBVIOUS
  <2>1. Above(k) \in SUBSET Above(j) /\ Above(j) \in SUBSET ks
    <3>1. \A x \in ks : x > k => x > j
      BY <2>0, <1>5
    <3> QED BY <3>1
  <2>2. k \in Above(j) /\ k \notin Above(k)
    BY <1>5
  <2>3. above[j] = Cardinality(Above(j)) /\ above[k] = Cardinality(Above(k))
    OBVIOUS
  <2>4. Above(k) # Above(j)
    BY <2>2
  <2> HIDE DEF Above, above
  <2>5. Cardinality(Above(k)) < Cardinality(Above(j)) /\ Cardinality(Above(j)) \in Nat
        /\ Cardinality(Above(k)) \in Nat
    BY <2>1, <2>4, <1>2
  <2> QED BY <2>3, <2>5
<1>6. \A j, k \in ks : above[j] = above[k] => j = k
  <2>1. \A j, k \in ks : j < k \/ k < j \/ j = k
    OBVIOUS
  <2> HIDE DEF above
  <2> QED BY <2>1, <1>5
<1>7. above \in Injection(ks, 0 .. c - 1)
  <2>1. above \in [ks -> 0 .. c - 1]
    BY <1>4
  <2> HIDE DEF above
  <2> QED BY <2>1, <1>6 DEF Injection, IsInjective
<1>8. IsFiniteSet(0 .. c - 1) /\ Cardinality(0 .. c - 1) = c
  <2> HIDE DEF c
  <2> QED BY <1>1, FS_Interval
<1>9. above \in Surjection(ks, 0 .. c - 1)
  <2> HIDE DEF above
  <2> QED BY <1>7, <1>8, FS_Injection
<1>10. n - 1 \in 0 .. c - 1
  BY <1>1
<1>11. \E k \in ks : above[k] = n - 1
  <2> HIDE DEF above, c
  <2> QED BY <1>9, <1>10 DEF Surjection
<1> QED BY <1>11

LEMMA FcnSeq ==
    ASSUME NEW S, NEW n \in Nat, NEW f \in [1 .. n -> S]
    PROVE  f \in Seq(S) /\ Len(f) = n
<1>1. f \in Seq(S)
  BY SeqDef
<1>2. Len(f) \in Nat /\ DOMAIN f = 1 .. Len(f)
  BY <1>1, LenProperties
<1>3. 1 .. n = 1 .. Len(f)
  BY <1>2
<1> QED BY <1>1, <1>2, <1>3

LEMMA TakeIs ==
    ASSUME TypeOK, NEW i \in Plans, Take(i)
    PROVE  /\ tag' \in [Plans -> Seq(Ids)] /\ tags' \in [Ranks -> [Ranks -> Seq(Ids)]]
           /\ \A j \in Plans : j # i => tag'[j] = tag[j]
           /\ Len(tag'[i]) = Len(Wrts[i])
           /\ \A k \in Indices(i) : LET q == Wrts[i][k].dst IN
                 /\ RankOf(i, k) \in 1 .. Len(tags[Owner[i]][q])
                 /\ tag'[i][k] = tags[Owner[i]][q][RankOf(i, k)]
           /\ \A r, q \in Ranks : r # Owner[i] => tags'[r][q] = tags[r][q]
           /\ \A q \in Ranks :
                 /\ Len(tags'[Owner[i]][q]) = Len(tags[Owner[i]][q]) - Used(i, q)
                 /\ \A a \in 1 .. Len(tags'[Owner[i]][q]) :
                       /\ a + Used(i, q) \in 1 .. Len(tags[Owner[i]][q])
                       /\ tags'[Owner[i]][q][a] = tags[Owner[i]][q][a + Used(i, q)]
<1> DEFINE r == Owner[i]
           t == [k \in Indices(i) |-> tags[r][Wrts[i][k].dst][RankOf(i, k)]]
           left == [q \in Ranks |-> SubSeq(tags[r][q], Used(i, q) + 1, Len(tags[r][q]))]
<1>1. /\ \A q \in Receivers(i) : Used(i, q) <= Len(tags[r][q])
      /\ tag' = [tag EXCEPT ![i] = t]
      /\ tags' = [tags EXCEPT ![r] = left]
  BY Zenon DEF Take, RankOf, Used
<1>2. /\ tag \in [Plans -> Seq(Ids)] /\ tags \in [Ranks -> [Ranks -> Seq(Ids)]]
      /\ r \in Ranks
  BY PlanFacts DEF TypeOK
<1>3. \A q \in Ranks : /\ tags[r][q] \in Seq(Ids) /\ Len(tags[r][q]) \in Nat
                       /\ Used(i, q) \in Nat /\ Used(i, q) <= Len(tags[r][q])
  BY <1>1, <1>2, RankFacts
<1>4. \A k \in Indices(i) : RankOf(i, k) \in 1 .. Len(tags[r][Wrts[i][k].dst])
  <2> SUFFICES ASSUME NEW k \in Indices(i)
               PROVE  RankOf(i, k) \in 1 .. Len(tags[r][Wrts[i][k].dst])
    OBVIOUS
  <2>1. RankOf(i, k) \in 1 .. Used(i, Wrts[i][k].dst) /\ Wrts[i][k].dst \in Ranks
    BY RankFacts, PlanFacts
  <2> QED BY <2>1, <1>3
<1>5. t \in Seq(Ids) /\ Len(t) = Len(Wrts[i])
  <2>1. \A k \in Indices(i) : tags[r][Wrts[i][k].dst][RankOf(i, k)] \in Ids
    BY <1>3, <1>4, PlanFacts, ElementOfSeq
  <2>2. t \in [1 .. Len(Wrts[i]) -> Ids]
    BY <2>1, PlanFacts
  <2> QED BY <2>2, PlanFacts, FcnSeq
<1>6. ASSUME NEW q \in Ranks
      PROVE  /\ left[q] \in Seq(Ids) /\ Len(left[q]) = Len(tags[r][q]) - Used(i, q)
             /\ \A a \in 1 .. Len(left[q]) :
                   /\ a + Used(i, q) \in 1 .. Len(tags[r][q])
                   /\ left[q][a] = tags[r][q][a + Used(i, q)]
  <2> DEFINE m == Used(i, q) + 1  n == Len(tags[r][q])
  <2>1. m \in Int /\ n \in Int /\ m > 0 /\ m <= n + 1
    BY <1>3
  <2>2. \A a \in m .. n : tags[r][q][a] \in Ids
    BY <1>3, <2>1, ElementOfSeq
  <2>3. left[q] = SubSeq(tags[r][q], m, n)
    OBVIOUS
  <2> HIDE DEF m, n, left
  <2>4. /\ left[q] \in Seq(Ids) /\ Len(left[q]) = IF m <= n THEN n - m + 1 ELSE 0
        /\ \A a \in 1 .. n - m + 1 : left[q][a] = tags[r][q][m + a - 1]
    BY ONLY <2>1, <2>2, <2>3, SubSeqProperties
  <2>5. Len(left[q]) = n - m + 1
    BY <2>1, <2>4
  <2>6. n - m + 1 = Len(tags[r][q]) - Used(i, q)
    BY <1>3 DEF m, n
  <2>7. ASSUME NEW a \in 1 .. Len(left[q])
        PROVE  m + a - 1 = a + Used(i, q) /\ a + Used(i, q) \in 1 .. n
    BY <2>5, <1>3 DEF m, n
  <2> QED BY <2>4, <2>5, <2>6, <2>7 DEF n
<1>7. tags'[r] = left /\ \A p \in Ranks : p # r => tags'[p] = tags[p]
  BY <1>1, <1>2
<1>8. tag'[i] = t /\ \A j \in Plans : j # i => tag'[j] = tag[j]
  BY <1>1, <1>2
<1>9. tag' \in [Plans -> Seq(Ids)]
  <2> HIDE DEF t
  <2> QED BY <1>1, <1>2, <1>5
<1>10. tags' \in [Ranks -> [Ranks -> Seq(Ids)]]
  <2>1. left \in [Ranks -> Seq(Ids)]
    BY <1>6
  <2> HIDE DEF left
  <2> QED BY <1>1, <1>2, <2>1
<1>11. \A k \in Indices(i) : tag'[i][k] = tags[r][Wrts[i][k].dst][RankOf(i, k)]
  BY <1>8
<1>12. Len(tag'[i]) = Len(Wrts[i])
  BY <1>5, <1>8
<1> HIDE DEF left, t
<1> QED BY <1>4, <1>6, <1>7, <1>8, <1>9, <1>10, <1>11, <1>12

\* Every tag is returned, and none twice.
LEMMA ReturnedIs ==
    ASSUME TypeOK, NEW i \in Plans, Len(tag[i]) = Len(Wrts[i]), NEW q \in Ranks
    PROVE  /\ Returned(i, q) \in Seq(Ids)
           /\ \E f : \A n \in 1 .. Len(Returned(i, q)) :
                 /\ f[n] \in Indices(i) /\ Wrts[i][f[n]].dst = q
                 /\ Returned(i, q)[n] = tag[i][f[n]]
                 /\ \A m \in 1 .. Len(Returned(i, q)) : f[n] = f[m] => n = m
<1> DEFINE ks == {k \in Indices(i) : Wrts[i][k].dst = q}
           above(k) == Cardinality({j \in ks : j > k})
           nth(n) == CHOOSE k \in ks : above(k) = n - 1
           c == Cardinality(ks)
           f == [n \in 1 .. c |-> nth(n)]
<1>1. ks \in SUBSET Nat /\ IsFiniteSet(ks)
  <2>1. IsFiniteSet(Indices(i)) /\ Indices(i) \in SUBSET Nat
    <3>1. Indices(i) = 1 .. Len(Wrts[i]) /\ Len(Wrts[i]) \in Nat
      BY PlanFacts
    <3> QED BY <3>1, FS_Interval
  <2> QED BY <2>1, FS_Subset
<1>2. c \in Nat
  BY <1>1, FS_CardinalityType
<1>3. ASSUME NEW n \in 1 .. c PROVE nth(n) \in ks /\ above(nth(n)) = n - 1
  <2>1. \E k \in ks : above(k) = n - 1
    <3> HIDE DEF ks
    <3> QED BY <1>1, <1>3, NthExists
  <2> HIDE DEF ks, above
  <2> QED BY <2>1, Zenon
<1>4. \A n, m \in 1 .. c : nth(n) = nth(m) => n = m
  <2> HIDE DEF ks, above, nth
  <2>1. \A n, m \in 1 .. c : nth(n) = nth(m) => n - 1 = m - 1
    BY <1>3
  <2> QED BY <2>1, <1>2
<1>5. Returned(i, q) = [n \in 1 .. c |-> tag[i][nth(n)]]
  BY DEF Returned
<1>6. \A k \in ks : k \in Indices(i) /\ Wrts[i][k].dst = q /\ tag[i][k] \in Ids
  <2>1. tag[i] \in Seq(Ids)
    BY DEF TypeOK
  <2> QED BY <2>1, PlanFacts, ElementOfSeq
<1> HIDE DEF ks, above, nth, c
<1>7. Returned(i, q) \in [1 .. c -> Ids]
  BY <1>3, <1>5, <1>6
<1>8. Returned(i, q) \in Seq(Ids) /\ Len(Returned(i, q)) = c
  BY <1>2, <1>7, FcnSeq
<1>9. \A n \in 1 .. c : /\ f[n] \in Indices(i) /\ Wrts[i][f[n]].dst = q
                        /\ Returned(i, q)[n] = tag[i][f[n]]
                        /\ \A m \in 1 .. c : f[n] = f[m] => n = m
  BY <1>3, <1>4, <1>5, <1>6
<1> QED BY <1>8, <1>9

-----------------------------------------------------------------------------
(* Control messages *)

Types == {"create", "start", "destroy", "execute"}

LEMMA CtrlFacts ==
    ASSUME TypeOK, NEW q \in Ranks, NEW r \in Ranks
    PROVE  /\ ctrl[q][r] \in Seq(Message) /\ Len(ctrl[q][r]) \in Nat
           /\ \A n \in 1 .. Len(ctrl[q][r]) :
                 /\ n \in Nat /\ ctrl[q][r][n].plan \in Plans /\ ctrl[q][r][n].type \in Types
                 /\ ctrl[q][r][n].batch \in 0 .. NumIds
<1>1. ctrl[q][r] \in Seq(Message)
  BY DEF TypeOK
<1>2. \A n \in 1 .. Len(ctrl[q][r]) : ctrl[q][r][n] \in Message
  BY <1>1, ElementOfSeq
<1> QED BY <1>1, <1>2 DEF Message, Types

LEMMA OnFacts ==
    ASSUME TypeOK
    PROVE  \A i \in Plans, q \in Ranks :
              /\ \A n, t : On(i, q, n, t) => n \in Nat /\ n > 0 /\ t \in Types /\ OnAny(i, q, n)
                                             /\ n <= Len(ctrl[Owner[i]][q])
              /\ \A n : OnAny(i, q, n) <=> \E t \in Types : On(i, q, n, t)
              /\ \A n, t, u : On(i, q, n, t) /\ On(i, q, n, u) => t = u
              /\ \A t : OnItsWay(i, q, t) <=> \E n \in Nat : On(i, q, n, t)
<1> SUFFICES ASSUME NEW i \in Plans, NEW q \in Ranks
             PROVE  /\ \A n, t : On(i, q, n, t) => n \in Nat /\ n > 0 /\ t \in Types /\ OnAny(i, q, n)
                                                   /\ n <= Len(ctrl[Owner[i]][q])
                    /\ \A n : OnAny(i, q, n) <=> \E t \in Types : On(i, q, n, t)
                    /\ \A n, t, u : On(i, q, n, t) /\ On(i, q, n, u) => t = u
                    /\ \A t : OnItsWay(i, q, t) <=> \E n \in Nat : On(i, q, n, t)
  OBVIOUS
<1>1. Owner[i] \in Ranks
  BY PlanFacts
<1> QED BY <1>1, CtrlFacts DEF On, OnAny, OnItsWay

\* One message more to every receiver of plan i
Pushed(i, type, b) ==
    /\ \A r \in Receivers(i) :
          /\ Len(ctrl'[Owner[i]][r]) = Len(ctrl[Owner[i]][r]) + 1
          /\ \A n \in 1 .. Len(ctrl[Owner[i]][r]) :
                ctrl'[Owner[i]][r][n] = ctrl[Owner[i]][r][n]
          /\ ctrl'[Owner[i]][r][Len(ctrl[Owner[i]][r]) + 1]
                = [type |-> type, batch |-> b[r], plan |-> i]
    /\ \A q, r \in Ranks : q # Owner[i] \/ r \notin Receivers(i) => ctrl'[q][r] = ctrl[q][r]

LEMMA PushIs ==
    ASSUME TypeOK, NEW i \in Plans, NEW type \in Types, NEW b,
           \A q \in Receivers(i) : b[q] \in 0 .. NumIds, Tell(i, type, b)
    PROVE  /\ ctrl' \in [Ranks -> [Ranks -> Seq(Message)]]
           /\ Pushed(i, type, b)
<1> DEFINE o == Owner[i]
           msg(q) == [type |-> type, batch |-> b[q], plan |-> i]
           new == [q \in Ranks |-> IF q \in Receivers(i) THEN Append(ctrl[o][q], msg(q))
                                                         ELSE ctrl[o][q]]
<1>1. ctrl' = [ctrl EXCEPT ![o] = new]
  BY DEF Tell
<1>2. o \in Ranks /\ Receivers(i) \subseteq Ranks /\ ctrl \in [Ranks -> [Ranks -> Seq(Message)]]
  BY PlanFacts DEF TypeOK
<1>3. \A q \in Receivers(i) : msg(q) \in Message
  BY DEF Message, Types
<1> HIDE DEF msg
<1>4. new \in [Ranks -> Seq(Message)]
  BY <1>2, <1>3
<1>5. \A q \in Receivers(i) :
         /\ Len(new[q]) = Len(ctrl[o][q]) + 1
         /\ \A n \in 1 .. Len(ctrl[o][q]) : new[q][n] = ctrl[o][q][n]
         /\ new[q][Len(ctrl[o][q]) + 1] = msg(q)
  BY <1>2, <1>3
<1>6. \A q \in Ranks \ Receivers(i) : new[q] = ctrl[o][q]
  OBVIOUS
<1> HIDE DEF new
<1>7. ctrl' \in [Ranks -> [Ranks -> Seq(Message)]]
  BY <1>1, <1>2, <1>4
<1>8. ctrl'[o] = new /\ \A q \in Ranks : q # o => ctrl'[q] = ctrl[q]
  BY <1>1, <1>2
<1>9. \A q, r \in Ranks : q # o \/ r \notin Receivers(i) => ctrl'[q][r] = ctrl[q][r]
  BY <1>6, <1>8
<1>10. \A r \in Receivers(i) :
          /\ Len(ctrl'[o][r]) = Len(ctrl[o][r]) + 1
          /\ \A n \in 1 .. Len(ctrl[o][r]) : ctrl'[o][r][n] = ctrl[o][r][n]
          /\ ctrl'[o][r][Len(ctrl[o][r]) + 1] = msg(r)
  BY <1>5, <1>8
<1> QED BY <1>7, <1>9, <1>10 DEF msg, Pushed

LEMMA PushOn ==
    ASSUME TypeOK, NEW i \in Plans, NEW type \in Types, NEW b,
           \A q \in Receivers(i) : b[q] \in 0 .. NumIds, Tell(i, type, b)
    PROVE  /\ \A j \in Plans, q \in Ranks : \A n, t :
                 On(j, q, n, t)' <=> \/ On(j, q, n, t)
                                     \/ /\ j = i /\ q \in Receivers(i) /\ t = type
                                        /\ n = Len(ctrl[Owner[i]][q]) + 1
           /\ \A j \in Plans, q \in Ranks : \A n :
                 OnAny(j, q, n)' <=> \/ OnAny(j, q, n)
                                     \/ /\ j = i /\ q \in Receivers(i)
                                        /\ n = Len(ctrl[Owner[i]][q]) + 1
           /\ \A j \in Plans, q \in Ranks : \A t :
                 OnItsWay(j, q, t)' <=> \/ OnItsWay(j, q, t)
                                        \/ j = i /\ q \in Receivers(i) /\ t = type
<1>0. /\ \A r \in Receivers(i) :
            /\ Len(ctrl'[Owner[i]][r]) = Len(ctrl[Owner[i]][r]) + 1
            /\ \A n \in 1 .. Len(ctrl[Owner[i]][r]) : ctrl'[Owner[i]][r][n] = ctrl[Owner[i]][r][n]
            /\ ctrl'[Owner[i]][r][Len(ctrl[Owner[i]][r]) + 1]
                  = [type |-> type, batch |-> b[r], plan |-> i]
      /\ \A q, r \in Ranks : q # Owner[i] \/ r \notin Receivers(i) => ctrl'[q][r] = ctrl[q][r]
  <2>1. Pushed(i, type, b)
    BY PushIs
  <2> QED BY <2>1 DEF Pushed
<1>1. Owner[i] \in Ranks /\ \A j \in Plans : Owner[j] \in Ranks
  BY PlanFacts
<1> SUFFICES ASSUME NEW j \in Plans, NEW q \in Ranks
             PROVE  /\ \A n, t : On(j, q, n, t)' <=>
                          \/ On(j, q, n, t)
                          \/ /\ j = i /\ q \in Receivers(i) /\ t = type
                             /\ n = Len(ctrl[Owner[i]][q]) + 1
                    /\ \A n : OnAny(j, q, n)' <=>
                          \/ OnAny(j, q, n)
                          \/ /\ j = i /\ q \in Receivers(i)
                             /\ n = Len(ctrl[Owner[i]][q]) + 1
                    /\ \A t : OnItsWay(j, q, t)' <=>
                          \/ OnItsWay(j, q, t)
                          \/ j = i /\ q \in Receivers(i) /\ t = type
  OBVIOUS
<1> DEFINE o == Owner[j]  len == Len(ctrl[o][q])
<1>2. o \in Ranks /\ len \in Nat
  BY <1>1, CtrlFacts
<1>3. IF o = Owner[i] /\ q \in Receivers(i)
      THEN /\ Len(ctrl'[o][q]) = len + 1
           /\ \A n \in 1 .. len : ctrl'[o][q][n] = ctrl[o][q][n]
           /\ ctrl'[o][q][len + 1].plan = i /\ ctrl'[o][q][len + 1].type = type
      ELSE ctrl'[o][q] = ctrl[o][q]
  <2>1. CASE o = Owner[i] /\ q \in Receivers(i)
    <3>1. /\ Len(ctrl'[o][q]) = len + 1
          /\ \A n \in 1 .. len : ctrl'[o][q][n] = ctrl[o][q][n]
          /\ ctrl'[o][q][len + 1] = [type |-> type, batch |-> b[q], plan |-> i]
      BY <2>1, <1>0
    <3> QED BY <2>1, <3>1
  <2>2. CASE ~(o = Owner[i] /\ q \in Receivers(i))
    BY <1>2, <2>2, <1>0
  <2> QED BY <2>1, <2>2
<1>4. \A n : n \in 1 .. len + 1 <=> n \in 1 .. len \/ n = len + 1
  BY <1>2
<1> QED BY <1>2, <1>3, <1>4 DEF On, OnAny, OnItsWay

\* The daemon of rank r takes the oldest message of rank q.
LEMMA PopOn ==
    ASSUME TypeOK, NEW q \in Ranks, NEW r \in Ranks, ctrl[q][r] # <<>>,
           ctrl' = [ctrl EXCEPT ![q][r] = Tail(@)]
    PROVE  /\ ctrl' \in [Ranks -> [Ranks -> Seq(Message)]]
           /\ \A o, p \in Ranks : o # q \/ p # r => ctrl'[o][p] = ctrl[o][p]
           /\ Len(ctrl[q][r]) > 0 /\ Len(ctrl'[q][r]) = Len(ctrl[q][r]) - 1
           /\ \A n \in 1 .. Len(ctrl'[q][r]) :
                 n + 1 \in 1 .. Len(ctrl[q][r]) /\ ctrl'[q][r][n] = ctrl[q][r][n + 1]
           /\ \A j \in Plans, p \in Ranks : \A n \in Nat :
                 /\ OnAny(j, p, n)' <=> n > 0 /\ OnAny(j, p, IF Owner[j] = q /\ p = r THEN n + 1 ELSE n)
                 /\ \A t : On(j, p, n, t)' <=>
                       n > 0 /\ On(j, p, IF Owner[j] = q /\ p = r THEN n + 1 ELSE n, t)
           /\ LET m == ctrl[q][r][1] IN
                 /\ Head(ctrl[q][r]) = m /\ m.plan \in Plans /\ m.type \in Types
                 /\ Owner[m.plan] = q => On(m.plan, r, 1, m.type)
                 /\ \A j \in Plans, p \in Ranks : \A t : j # m.plan =>
                       (OnItsWay(j, p, t)' <=> OnItsWay(j, p, t))
<1>1. ctrl \in [Ranks -> [Ranks -> Seq(Message)]] /\ ctrl[q][r] \in Seq(Message)
  BY DEF TypeOK
<1>2. /\ Len(ctrl[q][r]) \in Nat /\ Len(ctrl[q][r]) > 0 /\ Head(ctrl[q][r]) = ctrl[q][r][1]
      /\ Tail(ctrl[q][r]) \in Seq(Message) /\ Len(Tail(ctrl[q][r])) = Len(ctrl[q][r]) - 1
      /\ \A n \in 1 .. Len(Tail(ctrl[q][r])) : Tail(ctrl[q][r])[n] = ctrl[q][r][n + 1]
  BY <1>1, HeadTailProperties, EmptySeq
<1>3. ctrl'[q][r] = Tail(ctrl[q][r]) /\ \A o, p \in Ranks : o # q \/ p # r => ctrl'[o][p] = ctrl[o][p]
  BY <1>1
<1>4. ctrl' \in [Ranks -> [Ranks -> Seq(Message)]]
  BY <1>1, <1>2
<1>5. Len(ctrl'[q][r]) = Len(ctrl[q][r]) - 1
      /\ \A n \in 1 .. Len(ctrl'[q][r]) :
            n + 1 \in 1 .. Len(ctrl[q][r]) /\ ctrl'[q][r][n] = ctrl[q][r][n + 1]
  <2> DEFINE s == ctrl[q][r]  u == Tail(s)
  <2>1. /\ Len(s) \in Nat /\ Len(u) = Len(s) - 1 /\ ctrl'[q][r] = u
        /\ \A n \in 1 .. Len(u) : u[n] = s[n + 1]
    BY <1>2, <1>3
  <2> HIDE DEF s, u
  <2>2. \A n \in 1 .. Len(u) : n + 1 \in 1 .. Len(s)
    BY <2>1
  <2> QED BY <2>1, <2>2 DEF s
<1>6. \A n \in Nat : n \in 1 .. Len(ctrl'[q][r]) <=> n > 0 /\ n + 1 \in 1 .. Len(ctrl[q][r])
  BY <1>2, <1>5
<1>7. ASSUME NEW j \in Plans, NEW p \in Ranks, NEW n \in Nat
      PROVE  /\ OnAny(j, p, n)' <=> n > 0 /\ OnAny(j, p, IF Owner[j] = q /\ p = r THEN n + 1 ELSE n)
             /\ \A t : On(j, p, n, t)' <=>
                   n > 0 /\ On(j, p, IF Owner[j] = q /\ p = r THEN n + 1 ELSE n, t)
  <2>1. Owner[j] \in Ranks
    BY PlanFacts
  <2>2. CASE Owner[j] = q /\ p = r
    BY <2>2, <1>5, <1>6 DEF On, OnAny
  <2>3. CASE ~(Owner[j] = q /\ p = r)
    <3>1. ctrl'[Owner[j]][p] = ctrl[Owner[j]][p]
      BY <2>1, <2>3, <1>3
    <3>2. n \in 1 .. Len(ctrl[Owner[j]][p]) => n > 0
      BY <2>1, CtrlFacts
    <3> QED BY <2>3, <3>1, <3>2 DEF On, OnAny
  <2> QED BY <2>2, <2>3
<1>8. ctrl[q][r][1].plan \in Plans /\ ctrl[q][r][1].type \in Types
  BY <1>2, CtrlFacts
<1>9. Owner[ctrl[q][r][1].plan] = q => On(ctrl[q][r][1].plan, r, 1, ctrl[q][r][1].type)
  BY <1>2 DEF On
<1>10. ASSUME NEW j \in Plans, NEW p \in Ranks, NEW t, j # ctrl[q][r][1].plan
       PROVE  OnItsWay(j, p, t)' <=> OnItsWay(j, p, t)
  <2>1. Owner[j] \in Ranks
    BY PlanFacts
  <2>2. CASE Owner[j] = q /\ p = r
    <3>1. OnItsWay(j, p, t)' => OnItsWay(j, p, t)
      BY <2>2, <1>5 DEF OnItsWay
    <3>2. ASSUME NEW n \in 1 .. Len(ctrl[q][r]), ctrl[q][r][n].plan = j, ctrl[q][r][n].type = t
          PROVE  OnItsWay(j, p, t)'
      <4>1. n # 1
        BY <3>2, <1>10
      <4>2. n - 1 \in 1 .. Len(ctrl'[q][r]) /\ (n - 1) + 1 = n
        BY <4>1, <1>2, <1>5
      <4>3. ctrl'[q][r][n - 1] = ctrl[q][r][n]
        BY <4>2, <1>5
      <4> QED BY <2>2, <3>2, <4>2, <4>3 DEF OnItsWay
    <3> QED BY <2>2, <3>1, <3>2 DEF OnItsWay
  <2>3. CASE ~(Owner[j] = q /\ p = r)
    BY <2>1, <2>3, <1>3 DEF OnItsWay
  <2> QED BY <2>2, <2>3
<1> QED BY <1>2, <1>3, <1>4, <1>5, <1>7, <1>8, <1>9, <1>10

-----------------------------------------------------------------------------
(* MPI *)

LEMMA KeyFacts ==
    ASSUME NEW op \in Ops, NEW n \in Ids
    PROVE  Key(op, n) \in Keys /\ Key(Partner(op), n) = Key(op, n)
<1>1. At(op) \in Ranks /\ Peer(op) \in Ranks /\ Owner[op[1]] \in Ranks
  BY OpFacts, PlanFacts
<1>2. /\ At(Partner(op)) = Peer(op) /\ Peer(Partner(op)) = At(op)
      /\ IsSend(Partner(op)) <=> ~IsSend(op)
      /\ Partner(op)[1] = op[1]
  BY PartnerFacts
<1> QED BY <1>1, <1>2 DEF Key, Keys

LEMMA PostType ==
    ASSUME TypeOK, NEW r \in Ranks, NEW S \in SUBSET Ops, NEW t,
           \A op \in S : t[op] \in Ids, Post(r, S, t)
    PROVE  /\ ost' \in [Ops -> {"none", "idle", "active", "freed"}]
           /\ posted' \in [Keys -> Seq(Ops)]
           /\ got' \in [Ops -> Ops \cup {None}]
           /\ que' \in [Ranks -> SUBSET Ops]
<1> DEFINE key(op) == Key(op, t[op])
           matches(op) == Matches(op, key(op))
<1>1. /\ ost \in [Ops -> {"none", "idle", "active", "freed"}]
      /\ posted \in [Keys -> Seq(Ops)] /\ got \in [Ops -> Ops \cup {None}]
      /\ que \in [Ranks -> SUBSET Ops]
  BY DEF TypeOK
<1>2. /\ ost' = [op \in Ops |-> IF op \in S THEN "active" ELSE ost[op]]
      /\ que' = [que EXCEPT ![r] = que[r] \cup S]
  BY DEF Post
<1>3. posted' \in [Keys -> Seq(Ops)]
  <2> DEFINE chosen(k) == CHOOSE o \in S : key(o) = k
             next(k) == IF Matches(chosen(k), k) THEN Tail(posted[k]) ELSE Append(posted[k], chosen(k))
  <2>1. posted' = [k \in Keys |-> IF \E op \in S : key(op) = k THEN next(k) ELSE posted[k]]
    BY Zenon DEF Post
  <2>2. ASSUME NEW k \in Keys, \E op \in S : key(op) = k PROVE next(k) \in Seq(Ops)
    <3>1. chosen(k) \in S
      <4> HIDE DEF key
      <4> QED BY <2>2, Zenon
    <3>2. posted[k] \in Seq(Ops) /\ chosen(k) \in Ops
      BY <1>1, <3>1
    <3>3. Matches(chosen(k), k) => posted[k] # <<>>
      BY DEF Matches
    <3> HIDE DEF chosen
    <3>4. Append(posted[k], chosen(k)) \in Seq(Ops)
      BY <3>2
    <3>5. Matches(chosen(k), k) => Tail(posted[k]) \in Seq(Ops)
      BY <3>2, <3>3, HeadTailProperties
    <3> QED BY <3>4, <3>5
  <2> HIDE DEF next, key
  <2> QED BY <1>1, <2>1, <2>2
<1>4. got' \in [Ops -> Ops \cup {None}]
  <2> DEFINE head(op) == Head(posted[key(op)])
             taker(op) == CHOOSE o \in S : matches(o) /\ head(o) = op
  <2>1. got' = [op \in Ops |->
                   IF op \in S THEN IF matches(op) THEN head(op) ELSE None
                   ELSE IF \E o \in S : matches(o) /\ head(o) = op THEN taker(op) ELSE got[op]]
    BY Zenon DEF Post
  <2>2. ASSUME NEW op \in S, matches(op) PROVE head(op) \in Ops
    <3>1. key(op) \in Keys
      BY KeyFacts
    <3>2. posted[key(op)] \in Seq(Ops) /\ posted[key(op)] # <<>>
      BY <1>1, <2>2, <3>1 DEF Matches
    <3> QED BY <3>2, HeadTailProperties
  <2>3. ASSUME NEW op, \E o \in S : matches(o) /\ head(o) = op PROVE taker(op) \in Ops
    <3> HIDE DEF matches, head
    <3>1. taker(op) \in S
      BY <2>3, Zenon
    <3> QED BY <3>1
  <2> HIDE DEF taker, head, matches
  <2> QED BY <1>1, <2>1, <2>2, <2>3
<1>5. ost' \in [Ops -> {"none", "idle", "active", "freed"}]
  BY <1>1, <1>2
<1>6. que' \in [Ranks -> SUBSET Ops]
  BY <1>1, <1>2
<1> QED BY <1>3, <1>4, <1>5, <1>6

LEMMA PostActive ==
    ASSUME TypeOK, NEW r \in Ranks, NEW S \in SUBSET Ops, NEW t, Post(r, S, t)
    PROVE  \A op \in Ops : ost'[op] = IF op \in S THEN "active" ELSE ost[op]
BY DEF Post, TypeOK

LEMMA PostArrays ==
    ASSUME TypeOK, NEW r \in Ranks, NEW S \in SUBSET Ops, NEW t, Post(r, S, t)
    PROVE  \A q \in Ranks : \A op : op \in que'[q] <=> op \in que[q] \/ (q = r /\ op \in S)
BY DEF Post, TypeOK

-----------------------------------------------------------------------------
(* Type correctness *)

LEMMA PushTaken ==
    ASSUME TypeOK, MessagesTaken, NEW i \in Plans, NEW type \in Types, NEW b,
           \A q \in Receivers(i) : b[q] \in 0 .. NumIds, Tell(i, type, b),
           type # "execute" => \A q \in Receivers(i) : b[q] \in Ids,
           plan'[i] # "none", \A j \in Plans : plan[j] # "none" => plan'[j] # "none"
    PROVE  MessagesTaken'
<1>0. /\ \A r \in Receivers(i) :
            /\ Len(ctrl'[Owner[i]][r]) = Len(ctrl[Owner[i]][r]) + 1
            /\ \A n \in 1 .. Len(ctrl[Owner[i]][r]) : ctrl'[Owner[i]][r][n] = ctrl[Owner[i]][r][n]
            /\ ctrl'[Owner[i]][r][Len(ctrl[Owner[i]][r]) + 1]
                  = [type |-> type, batch |-> b[r], plan |-> i]
      /\ \A q, r \in Ranks : q # Owner[i] \/ r \notin Receivers(i) => ctrl'[q][r] = ctrl[q][r]
  <2>1. Pushed(i, type, b)
    BY PushIs
  <2> QED BY <2>1 DEF Pushed
<1> SUFFICES ASSUME NEW q \in Ranks, NEW r \in Ranks, NEW n \in 1 .. Len(ctrl'[q][r])
             PROVE  /\ ctrl'[q][r][n].type # "execute" => ctrl'[q][r][n].batch \in Ids
                    /\ plan'[ctrl'[q][r][n].plan] # "none"
  BY DEF MessagesTaken
<1> DEFINE len == Len(ctrl[q][r])
<1>1. /\ len \in Nat
      /\ \A m \in 1 .. len : /\ ctrl[q][r][m].type # "execute" => ctrl[q][r][m].batch \in Ids
                             /\ plan'[ctrl[q][r][m].plan] # "none"
  BY CtrlFacts DEF MessagesTaken
<1>2. CASE q = Owner[i] /\ r \in Receivers(i)
  <2>1. /\ Len(ctrl'[q][r]) = len + 1
        /\ \A m \in 1 .. len : ctrl'[q][r][m] = ctrl[q][r][m]
        /\ ctrl'[q][r][len + 1] = [type |-> type, batch |-> b[r], plan |-> i]
    BY <1>2, <1>0
  <2>2. n \in 1 .. len \/ n = len + 1
    BY <1>1, <2>1
  <2>3. CASE n \in 1 .. len
    BY <1>1, <2>1, <2>3
  <2>4. CASE n = len + 1
    BY <1>2, <2>1, <2>4
  <2> QED BY <2>2, <2>3, <2>4
<1>3. CASE ~(q = Owner[i] /\ r \in Receivers(i))
  <2>1. ctrl'[q][r] = ctrl[q][r]
    BY <1>3, <1>0
  <2> QED BY <1>1, <2>1
<1> QED BY <1>2, <1>3

LEMMA PopTaken ==
    ASSUME TypeOK, MessagesTaken, NEW q \in Ranks, NEW r \in Ranks, ctrl[q][r] # <<>>,
           ctrl' = [ctrl EXCEPT ![q][r] = Tail(@)], UNCHANGED plan
    PROVE  MessagesTaken'
<1> SUFFICES ASSUME NEW o \in Ranks, NEW p \in Ranks, NEW n \in 1 .. Len(ctrl'[o][p])
             PROVE  /\ ctrl'[o][p][n].type # "execute" => ctrl'[o][p][n].batch \in Ids
                    /\ plan[ctrl'[o][p][n].plan] # "none"
  BY DEF MessagesTaken
<1>1. CASE o = q /\ p = r
  <2>1. \A k \in 1 .. Len(ctrl'[q][r]) :
           k + 1 \in 1 .. Len(ctrl[q][r]) /\ ctrl'[q][r][k] = ctrl[q][r][k + 1]
    BY PopOn
  <2>2. n + 1 \in 1 .. Len(ctrl[q][r]) /\ ctrl'[q][r][n] = ctrl[q][r][n + 1]
    BY <1>1, <2>1
  <2> QED BY <1>1, <2>2 DEF MessagesTaken
<1>2. CASE o # q \/ p # r
  <2>1. ctrl'[o][p] = ctrl[o][p]
    BY <1>2, PopOn
  <2> QED BY <2>1 DEF MessagesTaken
<1> QED BY <1>1, <1>2

LEMMA TagFacts ==
    ASSUME TypeInv, NEW op \in Ops, plan[op[1]] # "none"
    PROVE  TagOf(op) \in Ids
<1>1. /\ op[1] \in Plans /\ op[2] \in 1 .. Len(Wrts[op[1]])
  BY OpFacts, PlanFacts
<1>2. tag[op[1]] \in Seq(Ids) /\ Len(tag[op[1]]) = Len(Wrts[op[1]])
  BY <1>1 DEF TypeInv, TypeOK, Taken, PlansTaken
<1> QED BY <1>1, <1>2, ElementOfSeq DEF TagOf

LEMMA InitType == Init => TypeInv
<1> SUFFICES ASSUME Init PROVE TypeInv
  OBVIOUS
<1>1. NumIds \in Nat /\ NewPool \in Seq(Ids) /\ Ids = 1 .. NumIds
  BY ChannelAssumption, FcnSeq DEF NewPool, Ids
<1>2. plan \in [Plans -> {"none", "ready", "gone"}] /\ starts \in [Plans -> Nat]
  BY DEF Init
<1>3. tag \in [Plans -> Seq(Ids)] /\ batch \in [Plans -> [Ranks -> 0 .. NumIds]]
  BY <1>1 DEF Init
<1>4. tags \in [Ranks -> [Ranks -> Seq(Ids)]] /\ batches \in [Ranks -> [Ranks -> Seq(Ids)]]
  BY <1>1 DEF Init
<1>5. ctrl \in [Ranks -> [Ranks -> Seq(Message)]] /\ posted \in [Keys -> Seq(Ops)]
  BY DEF Init
<1>6. slot \in [Ranks -> [Ranks -> [Ids -> Plans \cup {None}]]]
  BY DEF Init
<1>7. /\ ost \in [Ops -> {"none", "idle", "active", "freed"}]
      /\ got \in [Ops -> Ops \cup {None}] /\ events \in [Ops -> Nat] /\ err \in Errors
  BY DEF Init, Errors
<1>8. /\ que \in [Ranks -> SUBSET Ops] /\ dset \in [Ranks -> SUBSET Ops]
      /\ dpc \in [Ranks -> {"probe", "event", "release"}] /\ dop \in [Ranks -> Ops \cup {None}]
  BY DEF Init
<1>9. PlansTaken /\ SlotsTaken /\ ArraysTaken
  BY DEF Init, PlansTaken, SlotsTaken, ArraysTaken
<1>10. MessagesTaken
  <2>1. \A q, r \in Ranks : Len(ctrl[q][r]) = 0
    BY DEF Init
  <2> QED BY <2>1 DEF MessagesTaken
<1> QED BY <1>2, <1>3, <1>4, <1>5, <1>6, <1>7, <1>8, <1>9, <1>10 DEF TypeInv, TypeOK, Taken

LEMMA PlanCreateType ==
    ASSUME TypeInv, NEW i \in Plans, PlanCreate(i) PROVE TypeInv'
<1> DEFINE r == Owner[i]
           b == [q \in Ranks |-> IF q \in Receivers(i) THEN Head(batches[r][q]) ELSE 0]
           left == [q \in Ranks |-> IF q \in Receivers(i) THEN Tail(batches[r][q]) ELSE batches[r][q]]
<1> USE DEF TypeInv
<1>1. /\ Take(i) /\ i \notin Once /\ \A q \in Receivers(i) : batches[r][q] # <<>>
      /\ batch' = [batch EXCEPT ![i] = b] /\ batches' = [batches EXCEPT ![r] = left]
      /\ Tell(i, "create", batch'[i]) /\ plan' = [plan EXCEPT ![i] = "ready"]
      /\ ost' = [op \in Ops |-> IF op \in Loc(i) THEN "idle" ELSE ost[op]]
      /\ UNCHANGED <<starts, slot, posted, got, que, dpc, dset, dop, events, err>>
  BY DEF PlanCreate, dmnVars
<1>2. r \in Ranks /\ Receivers(i) \subseteq Ranks /\ "create" \in Types
      /\ batches \in [Ranks -> [Ranks -> Seq(Ids)]] /\ batch \in [Plans -> [Ranks -> 0 .. NumIds]]
      /\ plan \in [Plans -> {"none", "ready", "gone"}]
  BY PlanFacts DEF TypeOK, Types
<1>3. \A q \in Receivers(i) : Head(batches[r][q]) \in Ids /\ Tail(batches[r][q]) \in Seq(Ids)
  BY <1>1, <1>2, HeadTailProperties
<1>4. Ids \subseteq 0 .. NumIds
  BY ChannelAssumption DEF Ids
<1>5. b \in [Ranks -> 0 .. NumIds] /\ left \in [Ranks -> Seq(Ids)] /\ \A q \in Receivers(i) : b[q] \in Ids
  <2>1. \A q \in Receivers(i) : b[q] \in Ids
    BY <1>2, <1>3
  <2>2. \A q \in Ranks : b[q] \in 0 .. NumIds
    <3>1. 0 \in 0 .. NumIds
      BY ChannelAssumption
    <3> QED BY <1>3, <1>4, <3>1
  <2>3. left \in [Ranks -> Seq(Ids)]
    BY <1>2, <1>3
  <2> QED BY <2>1, <2>2, <2>3
<1> HIDE DEF b, left
<1>6. batch' \in [Plans -> [Ranks -> 0 .. NumIds]] /\ batches' \in [Ranks -> [Ranks -> Seq(Ids)]]
  BY <1>1, <1>2, <1>5
<1>7. /\ batch'[i] = b /\ \A j \in Plans : j # i => batch'[j] = batch[j]
      /\ plan'[i] = "ready" /\ \A j \in Plans : j # i => plan'[j] = plan[j]
      /\ plan' \in [Plans -> {"none", "ready", "gone"}]
  BY <1>1, <1>2
<1>8. \A q \in Receivers(i) : batch'[i][q] \in 0 .. NumIds /\ batch'[i][q] \in Ids
  BY <1>4, <1>5, <1>7
<1>9. /\ tag' \in [Plans -> Seq(Ids)] /\ tags' \in [Ranks -> [Ranks -> Seq(Ids)]]
      /\ Len(tag'[i]) = Len(Wrts[i]) /\ \A j \in Plans : j # i => tag'[j] = tag[j]
  BY <1>1, TakeIs
<1>10. ctrl' \in [Ranks -> [Ranks -> Seq(Message)]]
  BY <1>1, <1>2, <1>8, PushIs
<1>11. ost' \in [Ops -> {"none", "idle", "active", "freed"}]
  BY <1>1 DEF TypeOK
<1>12. TypeOK'
  BY <1>1, <1>6, <1>7, <1>9, <1>10, <1>11 DEF TypeOK
<1>13. MessagesTaken'
  BY <1>1, <1>2, <1>7, <1>8, PushTaken DEF Taken
<1>14. PlansTaken'
  BY <1>1, <1>7, <1>8, <1>9 DEF Taken, PlansTaken
<1>15. ArraysTaken' /\ SlotsTaken'
  <2>1. \A op \in Ops : op[1] \in Plans
    BY OpFacts
  <2>2. \A j \in Plans : plan[j] # "none" => plan'[j] # "none"
    BY <1>7
  <2>3. ArraysTaken'
    BY <1>1, <2>1, <2>2 DEF Taken, ArraysTaken, TypeOK
  <2>4. SlotsTaken'
    BY <1>1, <2>2 DEF Taken, SlotsTaken, TypeOK
  <2> QED BY <2>3, <2>4
<1> QED BY <1>12, <1>13, <1>14, <1>15 DEF Taken

LEMMA RdmaStartType ==
    ASSUME TypeInv, NEW i \in Plans, RdmaStart(i) PROVE TypeInv'
<1> DEFINE t == [op \in Loc(i) |-> tag'[i][op[2]]]
<1> USE DEF TypeInv
<1>1. /\ Take(i) /\ i \in Once /\ Post(Owner[i], Loc(i), t)
      /\ Tell(i, "execute", batch[i])
      /\ plan' = [plan EXCEPT ![i] = "gone"] /\ starts' = [starts EXCEPT ![i] = 1]
      /\ UNCHANGED <<batch, batches, slot, dpc, dset, dop, events, err>>
  BY DEF RdmaStart, dmnVars
<1>2. /\ Owner[i] \in Ranks /\ Receivers(i) \subseteq Ranks /\ "execute" \in Types
      /\ batch \in [Plans -> [Ranks -> 0 .. NumIds]]
      /\ plan \in [Plans -> {"none", "ready", "gone"}] /\ starts \in [Plans -> Nat]
  BY PlanFacts DEF TypeOK, Types
<1>3. \A q \in Receivers(i) : batch[i][q] \in 0 .. NumIds
  BY <1>2
<1>4. /\ tag' \in [Plans -> Seq(Ids)] /\ tags' \in [Ranks -> [Ranks -> Seq(Ids)]]
      /\ Len(tag'[i]) = Len(Wrts[i]) /\ \A j \in Plans : j # i => tag'[j] = tag[j]
  BY <1>1, TakeIs
<1>5. /\ plan'[i] = "gone" /\ \A j \in Plans : j # i => plan'[j] = plan[j]
      /\ plan' \in [Plans -> {"none", "ready", "gone"}] /\ starts' \in [Plans -> Nat]
  BY <1>1, <1>2
<1>6. ctrl' \in [Ranks -> [Ranks -> Seq(Message)]]
  BY <1>1, <1>2, <1>3, PushIs
<1>7. Loc(i) \in SUBSET Ops /\ \A op \in Loc(i) : t[op] \in Ids
  <2>1. Loc(i) \in SUBSET Ops /\ \A op \in Loc(i) : op[2] \in 1 .. Len(Wrts[i])
    BY LocAre, OpFacts, PlanFacts
  <2>2. \A k \in 1 .. Len(Wrts[i]) : tag'[i][k] \in Ids
    BY <1>4, ElementOfSeq
  <2> QED BY <2>1, <2>2
<1> HIDE DEF t
<1>8. /\ ost' \in [Ops -> {"none", "idle", "active", "freed"}]
      /\ posted' \in [Keys -> Seq(Ops)] /\ got' \in [Ops -> Ops \cup {None}]
      /\ que' \in [Ranks -> SUBSET Ops]
      /\ \A q \in Ranks : \A op : op \in que'[q] <=> op \in que[q] \/ (q = Owner[i] /\ op \in Loc(i))
  <2>1. Post(Owner[i], Loc(i), t) /\ Owner[i] \in Ranks /\ \A op \in Loc(i) : t[op] \in Ids
    BY <1>1, <1>2, <1>7
  <2>2. Loc(i) \in SUBSET Ops
    BY <1>7
  <2>3. \A q \in Ranks : \A op : op \in que'[q] <=> op \in que[q] \/ (q = Owner[i] /\ op \in Loc(i))
    BY ONLY <2>1, <2>2, TypeOK, PostArrays
  <2> QED BY ONLY <2>1, <2>2, <2>3, TypeOK, PostType
<1>9. TypeOK'
  BY <1>1, <1>4, <1>5, <1>6, <1>8 DEF TypeOK
<1>10. MessagesTaken'
  <2>1. plan'[i] # "none" /\ \A j \in Plans : plan[j] # "none" => plan'[j] # "none"
    BY <1>5
  <2> QED BY <1>1, <1>2, <1>3, <2>1, PushTaken DEF Taken
<1>11. PlansTaken'
  BY <1>1, <1>4, <1>5 DEF Taken, PlansTaken
<1>12. ArraysTaken' /\ SlotsTaken'
  <2>1. \A op \in Ops : op[1] \in Plans
    BY OpFacts
  <2>2. \A j \in Plans : plan[j] # "none" => plan'[j] # "none"
    BY <1>5
  <2>3. \A op \in Loc(i) : op[1] = i
    BY LocAre
  <2>4. ASSUME NEW r \in Ranks, NEW op \in que'[r] \cup dset[r], op[3] = "loc"
        PROVE  plan'[op[1]] # "none"
    <3>1. op \in Loc(i) \/ op \in que[r] \cup dset[r]
      BY <1>8
    <3>2. op \in que[r] \cup dset[r] => op[1] \in Plans /\ plan[op[1]] # "none"
      BY <2>1, <2>4 DEF Taken, ArraysTaken, TypeOK
    <3> QED BY <2>2, <2>3, <1>5, <3>1, <3>2
  <2>5. ArraysTaken'
    BY <1>1, <2>4 DEF Taken, ArraysTaken
  <2>6. SlotsTaken'
    BY <1>1, <2>2 DEF Taken, SlotsTaken, TypeOK
  <2> QED BY <2>5, <2>6
<1> QED BY <1>9, <1>10, <1>11, <1>12 DEF Taken

LEMMA PlanStartType ==
    ASSUME TypeInv, NEW i \in Plans, PlanStart(i) PROVE TypeInv'
<1> USE DEF TypeInv
<1>1. /\ plan[i] = "ready" /\ Post(Owner[i], Loc(i), Tags(Loc(i)))
      /\ Tell(i, "start", batch[i]) /\ starts' = [starts EXCEPT ![i] = @ + 1]
      /\ UNCHANGED <<plan, tag, batch, tags, batches, slot, dpc, dset, dop, events>>
  BY DEF PlanStart, dmnVars
<1>2. /\ Owner[i] \in Ranks /\ Receivers(i) \subseteq Ranks /\ "start" \in Types
      /\ batch \in [Plans -> [Ranks -> 0 .. NumIds]] /\ starts \in [Plans -> Nat]
  BY PlanFacts DEF TypeOK, Types
<1>3. \A q \in Receivers(i) : batch[i][q] \in 0 .. NumIds
  BY <1>2
<1>4. \A q \in Receivers(i) : batch[i][q] \in Ids
  BY <1>1 DEF Taken, PlansTaken
<1>5. ctrl' \in [Ranks -> [Ranks -> Seq(Message)]]
  BY <1>1, <1>2, <1>3, PushIs
<1>6. /\ Loc(i) \in SUBSET Ops /\ \A op \in Loc(i) : op[1] = i /\ Tags(Loc(i))[op] \in Ids
  <2>1. Loc(i) \in SUBSET Ops /\ \A op \in Loc(i) : op[1] = i
    BY LocAre
  <2>2. \A op \in Loc(i) : TagOf(op) \in Ids
    BY <1>1, <2>1, TagFacts
  <2> QED BY <2>1, <2>2 DEF Tags
<1>7. /\ ost' \in [Ops -> {"none", "idle", "active", "freed"}]
      /\ posted' \in [Keys -> Seq(Ops)] /\ got' \in [Ops -> Ops \cup {None}]
      /\ que' \in [Ranks -> SUBSET Ops]
      /\ \A q \in Ranks : \A op : op \in que'[q] <=> op \in que[q] \/ (q = Owner[i] /\ op \in Loc(i))
  <2>1. /\ Post(Owner[i], Loc(i), Tags(Loc(i))) /\ Owner[i] \in Ranks
        /\ \A op \in Loc(i) : Tags(Loc(i))[op] \in Ids
    BY <1>1, <1>2, <1>6
  <2>2. Loc(i) \in SUBSET Ops
    BY <1>6
  <2>3. \A q \in Ranks : \A op : op \in que'[q] <=> op \in que[q] \/ (q = Owner[i] /\ op \in Loc(i))
    BY ONLY <2>1, <2>2, TypeOK, PostArrays
  <2> QED BY ONLY <2>1, <2>2, <2>3, TypeOK, PostType
<1>8. err' \in Errors
  BY DEF PlanStart, Fail, Errors, TypeOK
<1>9. starts' \in [Plans -> Nat]
  BY <1>1, <1>2
<1>10. TypeOK'
  BY <1>1, <1>5, <1>7, <1>8, <1>9 DEF TypeOK
<1>11. MessagesTaken'
  BY <1>1, <1>2, <1>3, <1>4, PushTaken DEF Taken
<1>12. PlansTaken' /\ SlotsTaken'
  BY <1>1 DEF Taken, PlansTaken, SlotsTaken
<1>13. ArraysTaken'
  <2>1. ASSUME NEW r \in Ranks, NEW op \in que'[r] \cup dset[r], op[3] = "loc"
        PROVE  plan[op[1]] # "none"
    <3>1. op \in Loc(i) \/ op \in que[r] \cup dset[r]
      BY <1>7
    <3> QED BY <1>1, <1>6, <2>1, <3>1 DEF Taken, ArraysTaken
  <2> QED BY <1>1, <2>1 DEF Taken, ArraysTaken
<1> QED BY <1>10, <1>11, <1>12, <1>13 DEF Taken

LEMMA PlanDestroyType ==
    ASSUME TypeInv, NEW i \in Plans, PlanDestroy(i) PROVE TypeInv'
<1> DEFINE r == Owner[i]
           more == [q \in Ranks |-> Returned(i, q) \o tags[r][q]]
           left == [q \in Ranks |-> IF q \in Receivers(i) THEN <<batch[i][q]>> \o batches[r][q]
                                                          ELSE batches[r][q]]
<1> USE DEF TypeInv
<1>1. /\ plan[i] = "ready" /\ Tell(i, "destroy", batch[i])
      /\ tags' = [tags EXCEPT ![r] = more] /\ batches' = [batches EXCEPT ![r] = left]
      /\ ost' = [op \in Ops |-> IF op \in Loc(i) THEN "freed" ELSE ost[op]]
      /\ plan' = [plan EXCEPT ![i] = "gone"]
      /\ UNCHANGED <<starts, tag, batch, slot, posted, got, que, dpc, dset, dop, events>>
  BY DEF PlanDestroy, dmnVars
<1>2. /\ r \in Ranks /\ Receivers(i) \subseteq Ranks /\ "destroy" \in Types
      /\ batch \in [Plans -> [Ranks -> 0 .. NumIds]]
      /\ batches \in [Ranks -> [Ranks -> Seq(Ids)]] /\ tags \in [Ranks -> [Ranks -> Seq(Ids)]]
      /\ plan \in [Plans -> {"none", "ready", "gone"}]
  BY PlanFacts DEF TypeOK, Types
<1>3. \A q \in Receivers(i) : batch[i][q] \in 0 .. NumIds
  BY <1>2
<1>4. \A q \in Receivers(i) : batch[i][q] \in Ids
  BY <1>1 DEF Taken, PlansTaken
<1>5. ctrl' \in [Ranks -> [Ranks -> Seq(Message)]]
  BY <1>1, <1>2, <1>3, PushIs
<1>6. more \in [Ranks -> Seq(Ids)]
  <2>1. Len(tag[i]) = Len(Wrts[i])
    BY <1>1 DEF Taken, PlansTaken
  <2>2. \A q \in Ranks : Returned(i, q) \in Seq(Ids)
    BY <2>1, ReturnedIs
  <2> QED BY <1>2, <2>2, ConcatProperties
<1>7. left \in [Ranks -> Seq(Ids)]
  <2>1. \A q \in Receivers(i) : <<batch[i][q]>> \o batches[r][q] \in Seq(Ids)
    BY <1>2, <1>4, ConcatProperties
  <2> QED BY <1>2, <2>1
<1> HIDE DEF more, left
<1>8. tags' \in [Ranks -> [Ranks -> Seq(Ids)]] /\ batches' \in [Ranks -> [Ranks -> Seq(Ids)]]
  BY <1>1, <1>2, <1>6, <1>7
<1>9. /\ plan'[i] = "gone" /\ \A j \in Plans : j # i => plan'[j] = plan[j]
      /\ plan' \in [Plans -> {"none", "ready", "gone"}]
  BY <1>1, <1>2
<1>10. err' \in Errors
  BY DEF PlanDestroy, Fail, Errors, TypeOK
<1>11. ost' \in [Ops -> {"none", "idle", "active", "freed"}]
  BY <1>1 DEF TypeOK
<1>12. TypeOK'
  BY <1>1, <1>5, <1>8, <1>9, <1>10, <1>11 DEF TypeOK
<1>13. \A j \in Plans : plan[j] # "none" => plan'[j] # "none"
  BY <1>9
<1>14. MessagesTaken'
  BY <1>1, <1>2, <1>3, <1>4, <1>9, <1>13, PushTaken DEF Taken
<1>15. PlansTaken'
  BY <1>1, <1>9 DEF Taken, PlansTaken
<1>16. SlotsTaken'
  BY <1>1, <1>13 DEF Taken, SlotsTaken, TypeOK
<1>17. ArraysTaken'
  <2>1. \A op \in Ops : op[1] \in Plans
    BY OpFacts
  <2> QED BY <1>1, <1>13, <2>1 DEF Taken, ArraysTaken, TypeOK
<1> QED BY <1>12, <1>14, <1>15, <1>16, <1>17 DEF Taken

\* What a control message can do, when the message is the plan's.
LEMMA CtrlStepType ==
    ASSUME TypeInv, NEW r \in Ranks, NEW q \in Ranks, NEW m, m.plan \in Plans, plan[m.plan] # "none",
           m.type # "execute" => m.batch \in Ids, UNCHANGED <<plan, dset, dpc, dop>>,
           CtrlCreate(r, q, m) \/ CtrlStart(r, q, m) \/ CtrlDestroy(r, q, m) \/ CtrlExecute(r, q, m)
    PROVE  /\ slot' \in [Ranks -> [Ranks -> [Ids -> Plans \cup {None}]]] /\ SlotsTaken'
           /\ ost' \in [Ops -> {"none", "idle", "active", "freed"}]
           /\ posted' \in [Keys -> Seq(Ops)] /\ got' \in [Ops -> Ops \cup {None}]
           /\ que' \in [Ranks -> SUBSET Ops] /\ err' \in Errors /\ ArraysTaken'
<1> DEFINE i == slot[r][q][m.batch]
<1>1. /\ slot \in [Ranks -> [Ranks -> [Ids -> Plans \cup {None}]]] /\ err \in Errors
      /\ ost \in [Ops -> {"none", "idle", "active", "freed"}]
      /\ posted \in [Keys -> Seq(Ops)] /\ got \in [Ops -> Ops \cup {None}]
      /\ que \in [Ranks -> SUBSET Ops]
  BY DEF TypeInv, TypeOK
<1>2. SlotsTaken /\ ArraysTaken
  BY DEF TypeInv, Taken
<1>3. UNCHANGED slot => SlotsTaken'
  BY <1>2 DEF SlotsTaken
<1>4. UNCHANGED que => ArraysTaken'
  BY <1>2 DEF ArraysTaken
<1>5. ASSUME NEW j \in Plans, plan[j] # "none", Post(r, Rmt(j, r), Tags(Rmt(j, r)))
      PROVE  /\ ost' \in [Ops -> {"none", "idle", "active", "freed"}]
             /\ posted' \in [Keys -> Seq(Ops)] /\ got' \in [Ops -> Ops \cup {None}]
             /\ que' \in [Ranks -> SUBSET Ops] /\ ArraysTaken'
  <2>1. Rmt(j, r) \in SUBSET Ops /\ \A op \in Rmt(j, r) : op[1] = j /\ op[3] = "rmt"
    BY LocAre
  <2>2. \A op \in Rmt(j, r) : Tags(Rmt(j, r))[op] \in Ids
    BY <1>5, <2>1, TagFacts DEF Tags
  <2>3. /\ ost' \in [Ops -> {"none", "idle", "active", "freed"}]
        /\ posted' \in [Keys -> Seq(Ops)] /\ got' \in [Ops -> Ops \cup {None}]
        /\ que' \in [Ranks -> SUBSET Ops]
    BY <1>5, <2>1, <2>2, PostType DEF TypeInv
  <2>4. \A p \in Ranks : \A op : op \in que'[p] <=> op \in que[p] \/ (p = r /\ op \in Rmt(j, r))
    BY <1>5, <2>1, PostArrays DEF TypeInv
  <2>5. ArraysTaken'
    BY <1>2, <2>1, <2>4 DEF ArraysTaken
  <2> QED BY <2>3, <2>5
<1>6. CASE CtrlCreate(r, q, m)
  <2>1. /\ slot' = [slot EXCEPT ![r][q][m.batch] = m.plan] /\ UNCHANGED <<posted, got, que>>
        /\ ost' = [op \in Ops |-> IF op \in Rmt(m.plan, r) THEN "idle" ELSE ost[op]]
    BY <1>6 DEF CtrlCreate
  <2>2. slot' \in [Ranks -> [Ranks -> [Ids -> Plans \cup {None}]]]
    BY <1>1, <2>1
  <2>3. \A o, p \in Ranks, b \in Ids : slot'[o][p][b] = m.plan \/ slot'[o][p][b] = slot[o][p][b]
    BY <1>1, <2>1
  <2>4. SlotsTaken'
    BY <1>2, <2>3 DEF SlotsTaken
  <2>5. err' \in Errors
    BY <1>1, <1>6 DEF CtrlCreate, Fail, Errors
  <2>6. ost' \in [Ops -> {"none", "idle", "active", "freed"}]
    BY <1>1, <2>1
  <2> QED BY <1>1, <1>4, <2>1, <2>2, <2>4, <2>5, <2>6
<1>7. CASE CtrlStart(r, q, m)
  <2>1. UNCHANGED slot /\ m.batch \in Ids
    BY <1>7 DEF CtrlStart
  <2>2. i \in Plans \cup {None} /\ (i # None => plan[i] # "none")
    BY <1>1, <1>2, <2>1 DEF SlotsTaken
  <2>3. err' \in Errors
    BY <1>1, <1>7 DEF CtrlStart, Fail, Errors
  <2>4. CASE i = None
    <3>1. UNCHANGED <<ost, posted, got, que>>
      BY <1>7, <2>4 DEF CtrlStart, mpiVars
    <3> QED BY <1>1, <1>3, <1>4, <2>1, <2>3, <3>1
  <2>5. CASE i # None
    <3>1. Post(r, Rmt(i, r), Tags(Rmt(i, r)))
      BY <1>7, <2>5 DEF CtrlStart
    <3> HIDE DEF i
    <3>2. /\ ost' \in [Ops -> {"none", "idle", "active", "freed"}]
          /\ posted' \in [Keys -> Seq(Ops)] /\ got' \in [Ops -> Ops \cup {None}]
          /\ que' \in [Ranks -> SUBSET Ops] /\ ArraysTaken'
      BY <2>2, <2>5, <3>1, <1>5
    <3> QED BY <1>1, <1>3, <2>1, <2>3, <3>2
  <2> QED BY <2>4, <2>5
<1>8. CASE CtrlDestroy(r, q, m)
  <2>1. slot' = [slot EXCEPT ![r][q][m.batch] = None] /\ UNCHANGED <<posted, got, que>>
    BY <1>8 DEF CtrlDestroy
  <2>2. slot' \in [Ranks -> [Ranks -> [Ids -> Plans \cup {None}]]]
    BY <1>1, <2>1
  <2>3. \A o, p \in Ranks, b \in Ids : slot'[o][p][b] = None \/ slot'[o][p][b] = slot[o][p][b]
    BY <1>1, <2>1
  <2>4. SlotsTaken'
    BY <1>2, <2>3 DEF SlotsTaken
  <2>5. err' \in Errors
    BY <1>1, <1>8 DEF CtrlDestroy, Fail, Errors
  <2>6. ost' \in [Ops -> {"none", "idle", "active", "freed"}]
    BY <1>1, <1>8 DEF CtrlDestroy
  <2> QED BY <1>1, <1>4, <2>1, <2>2, <2>4, <2>5, <2>6
<1>9. CASE CtrlExecute(r, q, m)
  <2>1. Post(r, Rmt(m.plan, r), Tags(Rmt(m.plan, r))) /\ UNCHANGED <<slot, err>>
    BY <1>9 DEF CtrlExecute
  <2> DEFINE j == m.plan
  <2>2. j \in Plans /\ plan[j] # "none" /\ Post(r, Rmt(j, r), Tags(Rmt(j, r)))
    BY <2>1
  <2> HIDE DEF j
  <2>3. /\ ost' \in [Ops -> {"none", "idle", "active", "freed"}]
        /\ posted' \in [Keys -> Seq(Ops)] /\ got' \in [Ops -> Ops \cup {None}]
        /\ que' \in [Ranks -> SUBSET Ops] /\ ArraysTaken'
    BY <2>2, <1>5
  <2> QED BY <1>1, <1>3, <2>1, <2>3
<1> QED BY <1>6, <1>7, <1>8, <1>9

LEMMA DaemonCtrlType ==
    ASSUME TypeInv, NEW r \in Ranks, NEW q \in Ranks, DaemonCtrl(r, q) PROVE TypeInv'
<1> DEFINE m == Head(ctrl[q][r])
<1>1. /\ ctrl[q][r] # <<>> /\ ctrl' = [ctrl EXCEPT ![q][r] = Tail(@)]
      /\ CtrlCreate(r, q, m) \/ CtrlStart(r, q, m) \/ CtrlDestroy(r, q, m) \/ CtrlExecute(r, q, m)
      /\ UNCHANGED <<plan, starts, tag, batch, tags, batches, dpc, dset, dop, events>>
  BY DEF DaemonCtrl, planVars, dmnVars
<1>2. m = ctrl[q][r][1] /\ 1 \in 1 .. Len(ctrl[q][r]) /\ m.plan \in Plans
      /\ ctrl' \in [Ranks -> [Ranks -> Seq(Message)]]
  <2>1. Len(ctrl[q][r]) \in Nat
    BY CtrlFacts DEF TypeInv
  <2>2. /\ m = ctrl[q][r][1] /\ m.plan \in Plans /\ Len(ctrl[q][r]) > 0
        /\ ctrl' \in [Ranks -> [Ranks -> Seq(Message)]]
    BY <1>1, PopOn DEF TypeInv
  <2> QED BY <2>1, <2>2
<1>3. plan[m.plan] # "none" /\ (m.type # "execute" => m.batch \in Ids)
  BY <1>2 DEF TypeInv, Taken, MessagesTaken
<1>4. MessagesTaken'
  BY <1>1, PopTaken DEF TypeInv, Taken
<1> HIDE DEF m
<1>5. /\ slot' \in [Ranks -> [Ranks -> [Ids -> Plans \cup {None}]]] /\ SlotsTaken'
      /\ ost' \in [Ops -> {"none", "idle", "active", "freed"}]
      /\ posted' \in [Keys -> Seq(Ops)] /\ got' \in [Ops -> Ops \cup {None}]
      /\ que' \in [Ranks -> SUBSET Ops] /\ err' \in Errors /\ ArraysTaken'
  BY <1>1, <1>2, <1>3, CtrlStepType
<1>6. PlansTaken'
  BY <1>1 DEF TypeInv, Taken, PlansTaken
<1> QED BY <1>1, <1>2, <1>4, <1>5, <1>6 DEF TypeInv, TypeOK, Taken

LEMMA DaemonTestType ==
    ASSUME TypeInv, NEW r \in Ranks, NEW S \in SUBSET Completed(r), DaemonTest(r, S) PROVE TypeInv'
<1>1. /\ ost' = [op \in Ops |-> IF op \in S THEN "idle" ELSE ost[op]]
      /\ que' = [que EXCEPT ![r] = @ \ S] /\ dset' = [dset EXCEPT ![r] = S]
      /\ dpc' = [dpc EXCEPT ![r] = "event"]
      /\ UNCHANGED <<plan, starts, tag, batch, tags, batches, ctrl, slot, posted, got, dop, events, err>>
  BY DEF DaemonTest, planVars
<1>2. /\ que \in [Ranks -> SUBSET Ops] /\ dset \in [Ranks -> SUBSET Ops]
      /\ dpc \in [Ranks -> {"probe", "event", "release"}]
      /\ ost \in [Ops -> {"none", "idle", "active", "freed"}]
  BY DEF TypeInv, TypeOK
<1>3. S \subseteq que[r] /\ S \subseteq Ops
  BY <1>2 DEF Completed
<1>4. /\ que' \in [Ranks -> SUBSET Ops] /\ dset' \in [Ranks -> SUBSET Ops]
      /\ dpc' \in [Ranks -> {"probe", "event", "release"}]
      /\ ost' \in [Ops -> {"none", "idle", "active", "freed"}]
  BY <1>1, <1>2, <1>3
<1>5. TypeOK'
  BY <1>1, <1>4 DEF TypeInv, TypeOK
<1>6. PlansTaken' /\ MessagesTaken' /\ SlotsTaken'
  BY <1>1 DEF TypeInv, Taken, PlansTaken, MessagesTaken, SlotsTaken
<1>7. ArraysTaken'
  BY <1>1, <1>2, <1>3 DEF TypeInv, Taken, ArraysTaken
<1> QED BY <1>5, <1>6, <1>7 DEF TypeInv, Taken

LEMMA DaemonEventType ==
    ASSUME TypeInv, NEW r \in Ranks, DaemonEvent(r) PROVE TypeInv'
<1>1. PICK op \in dset[r] :
         /\ events' = [events EXCEPT ![op] = @ + 1] /\ dop' = [dop EXCEPT ![r] = op]
  BY DEF DaemonEvent
<1>2. /\ dpc' = [dpc EXCEPT ![r] = "release"]
      /\ UNCHANGED <<plan, starts, tag, batch, tags, batches, ctrl, slot, ost, posted, got, que, dset>>
  BY DEF DaemonEvent, planVars, mpiVars
<1>3. /\ dset \in [Ranks -> SUBSET Ops] /\ events \in [Ops -> Nat]
      /\ dop \in [Ranks -> Ops \cup {None}] /\ dpc \in [Ranks -> {"probe", "event", "release"}]
  BY DEF TypeInv, TypeOK
<1>4. err' \in Errors
  BY DEF DaemonEvent, Fail, Errors, TypeInv, TypeOK
<1>5. /\ events' \in [Ops -> Nat] /\ dop' \in [Ranks -> Ops \cup {None}]
      /\ dpc' \in [Ranks -> {"probe", "event", "release"}]
  BY <1>1, <1>2, <1>3
<1>6. TypeOK'
  BY <1>2, <1>4, <1>5 DEF TypeInv, TypeOK
<1>7. PlansTaken' /\ MessagesTaken' /\ SlotsTaken'
  BY <1>2 DEF TypeInv, Taken, PlansTaken, MessagesTaken, SlotsTaken
<1>8. ArraysTaken'
  BY <1>1, <1>2, <1>3 DEF TypeInv, Taken, ArraysTaken
<1> QED BY <1>6, <1>7, <1>8 DEF TypeInv, Taken

LEMMA DaemonReleaseType ==
    ASSUME TypeInv, NEW r \in Ranks, DaemonRelease(r) PROVE TypeInv'
<1> DEFINE op == dop[r]  q == Peer(op)
<1>1. /\ dpc[r] = "release"
      /\ tags' = IF FreesTag(op) THEN [tags EXCEPT ![r][q] = <<TagOf(op)>> \o @] ELSE tags
      /\ ost' = IF FreesOp(op) THEN [ost EXCEPT ![op] = "freed"] ELSE ost
      /\ dset' = [dset EXCEPT ![r] = @ \ {op}]
      /\ dpc' = [dpc EXCEPT ![r] = IF dset'[r] = {} THEN "probe" ELSE "event"]
      /\ UNCHANGED <<plan, starts, tag, batch, batches, ctrl, slot, posted, got, que, dop, events>>
  BY DEF DaemonRelease
<1>2. /\ dset \in [Ranks -> SUBSET Ops] /\ tags \in [Ranks -> [Ranks -> Seq(Ids)]]
      /\ ost \in [Ops -> {"none", "idle", "active", "freed"}]
      /\ dop \in [Ranks -> Ops \cup {None}] /\ dpc \in [Ranks -> {"probe", "event", "release"}]
  BY DEF TypeInv, TypeOK
<1>3. op \in dset[r] /\ op \in Ops
  BY <1>1, <1>2 DEF TypeInv, Taken, ArraysTaken
<1>4. err' \in Errors
  BY DEF DaemonRelease, Fail, Errors, TypeInv, TypeOK
<1>5. tags' \in [Ranks -> [Ranks -> Seq(Ids)]]
  <2>1. CASE FreesTag(op)
    <3>1. plan[op[1]] # "none"
      BY <1>3, <2>1 DEF FreesTag, TypeInv, Taken, ArraysTaken
    <3>2. TagOf(op) \in Ids /\ q \in Ranks
      BY <1>3, <3>1, TagFacts, OpFacts
    <3> DEFINE s == <<TagOf(op)>> \o tags[r][q]
    <3>3. s \in Seq(Ids)
      BY <1>2, <3>2, ConcatProperties
    <3>4. tags' = [tags EXCEPT ![r][q] = s]
      BY <1>1, <2>1
    <3> HIDE DEF s, q
    <3> QED BY <1>2, <3>2, <3>3, <3>4
  <2>2. CASE ~FreesTag(op)
    BY <1>1, <1>2, <2>2
  <2> QED BY <2>1, <2>2
<1>6. /\ dset' \in [Ranks -> SUBSET Ops] /\ dpc' \in [Ranks -> {"probe", "event", "release"}]
      /\ ost' \in [Ops -> {"none", "idle", "active", "freed"}]
  BY <1>1, <1>2
<1>7. TypeOK'
  BY <1>1, <1>4, <1>5, <1>6 DEF TypeInv, TypeOK
<1>8. PlansTaken' /\ MessagesTaken' /\ SlotsTaken'
  BY <1>1 DEF TypeInv, Taken, PlansTaken, MessagesTaken, SlotsTaken
<1>9. ArraysTaken'
  <2>1. \A p \in Ranks : dset'[p] \subseteq dset[p] /\ (dpc'[p] = "release" => p # r)
    BY <1>1, <1>2
  <2>2. \A p \in Ranks : p # r => dset'[p] = dset[p] /\ dpc'[p] = dpc[p]
    BY <1>1, <1>2
  <2> QED BY <1>1, <2>1, <2>2 DEF TypeInv, Taken, ArraysTaken
<1> QED BY <1>7, <1>8, <1>9 DEF TypeInv, Taken

LEMMA StepType == TypeInv /\ [Next]_vars => TypeInv'
<1> SUFFICES ASSUME TypeInv, [Next]_vars PROVE TypeInv'
  OBVIOUS
<1>1. ASSUME NEW i \in Plans, PlanCreate(i) \/ RdmaStart(i) \/ PlanStart(i) \/ PlanDestroy(i)
      PROVE  TypeInv'
  BY <1>1, PlanCreateType, RdmaStartType, PlanStartType, PlanDestroyType
<1>2. ASSUME NEW r \in Ranks, Daemon(r) PROVE TypeInv'
  BY <1>2, DaemonCtrlType, DaemonTestType, DaemonEventType, DaemonReleaseType DEF Daemon
<1>3. CASE UNCHANGED vars
  BY <1>3 DEF vars, planVars, dmnVars, mpiVars, TypeInv, TypeOK,
              Taken, PlansTaken, MessagesTaken, SlotsTaken, ArraysTaken
<1> QED BY <1>1, <1>2, <1>3 DEF Next

\* The types of the whole state, with tags, batch ids and operations defined
\* wherever a handler uses them.
THEOREM TypeCorrect == Spec => []TypeInv
<1>1. Init => TypeInv
  BY InitType
<1>2. TypeInv /\ [Next]_vars => TypeInv'
  BY StepType
<1> QED BY <1>1, <1>2, PTL DEF Spec

-----------------------------------------------------------------------------
(* The batches *)

LEMMA OnRight ==
    ASSUME TypeInv, MessagesRight
    PROVE  \A i \in Plans, q \in Ranks : \A n, t : On(i, q, n, t) =>
              /\ q \in Receivers(i) /\ plan[i] # "none"
              /\ t = "execute" <=> i \in Once
              /\ t = "destroy" => plan[i] = "gone"
BY PlanFacts DEF MessagesRight, On

LEMMA HoldsRight ==
    ASSUME TypeInv, SlotsRight
    PROVE  \A i \in Plans, q \in Ranks : batch[i][q] \in Ids /\ HoldsSlot(i, q) =>
              /\ i \notin Once /\ q \in Receivers(i) /\ plan[i] # "none"
              /\ ~OnItsWay(i, q, "create")
              /\ plan[i] = "gone" => OnItsWay(i, q, "destroy")
<1> SUFFICES ASSUME NEW i \in Plans, NEW q \in Ranks, batch[i][q] \in Ids, HoldsSlot(i, q)
             PROVE  /\ i \notin Once /\ q \in Receivers(i) /\ plan[i] # "none"
                    /\ ~OnItsWay(i, q, "create")
                    /\ plan[i] = "gone" => OnItsWay(i, q, "destroy")
  OBVIOUS
<1>1. Owner[i] \in Ranks /\ i # None
  BY PlanFacts, ChannelAssumption
<1> QED BY <1>1 DEF SlotsRight, HoldsSlot

LEMMA MessageRightPush ==
    ASSUME TypeOK, MessagesRight, NEW i \in Plans, NEW type \in Types, NEW b,
           \A q \in Receivers(i) : b[q] \in 0 .. NumIds, Tell(i, type, b),
           i \notin Once => \A q \in Receivers(i) : b[q] = batch'[i][q],
           type = "execute" <=> i \in Once,
           plan'[i] # "none", type = "destroy" => plan'[i] = "gone",
           \A j \in Plans : plan[j] # "none" =>
              plan'[j] # "none" /\ batch'[j] = batch[j] /\ (plan[j] = "gone" => plan'[j] = "gone")
    PROVE  MessagesRight'
<1>0. /\ \A r \in Receivers(i) :
            /\ Len(ctrl'[Owner[i]][r]) = Len(ctrl[Owner[i]][r]) + 1
            /\ \A n \in 1 .. Len(ctrl[Owner[i]][r]) : ctrl'[Owner[i]][r][n] = ctrl[Owner[i]][r][n]
            /\ ctrl'[Owner[i]][r][Len(ctrl[Owner[i]][r]) + 1]
                  = [type |-> type, batch |-> b[r], plan |-> i]
      /\ \A q, r \in Ranks : q # Owner[i] \/ r \notin Receivers(i) => ctrl'[q][r] = ctrl[q][r]
  <2>1. Pushed(i, type, b)
    BY PushIs
  <2> QED BY <2>1 DEF Pushed
<1> DEFINE Right(m, q, r) ==
              /\ Owner[m.plan] = q /\ r \in Receivers(m.plan) /\ plan'[m.plan] # "none"
              /\ m.type = "execute" <=> m.plan \in Once
              /\ m.plan \notin Once => m.batch = batch'[m.plan][r]
              /\ m.type = "destroy" => plan'[m.plan] = "gone"
<1> SUFFICES ASSUME NEW q \in Ranks, NEW r \in Ranks, NEW n \in 1 .. Len(ctrl'[q][r])
             PROVE  Right(ctrl'[q][r][n], q, r)
  BY DEF MessagesRight
<1> DEFINE len == Len(ctrl[q][r])
<1>1. /\ len \in Nat
      /\ \A m \in 1 .. len : ctrl[q][r][m].plan \in Plans /\ Right(ctrl[q][r][m], q, r)
  BY CtrlFacts DEF MessagesRight
<1>2. CASE q = Owner[i] /\ r \in Receivers(i)
  <2>1. /\ Len(ctrl'[q][r]) = len + 1
        /\ \A m \in 1 .. len : ctrl'[q][r][m] = ctrl[q][r][m]
        /\ ctrl'[q][r][len + 1] = [type |-> type, batch |-> b[r], plan |-> i]
    BY <1>2, <1>0
  <2>2. n \in 1 .. len \/ n = len + 1
    BY <1>1, <2>1
  <2>3. CASE n \in 1 .. len
    BY <1>1, <2>1, <2>3
  <2>4. CASE n = len + 1
    <3>1. /\ ctrl'[q][r][n].plan = i /\ ctrl'[q][r][n].type = type
          /\ ctrl'[q][r][n].batch = b[r]
      BY <2>1, <2>4
    <3> QED BY <1>2, <3>1
  <2> QED BY <2>2, <2>3, <2>4
<1>3. CASE ~(q = Owner[i] /\ r \in Receivers(i))
  <2>1. ctrl'[q][r] = ctrl[q][r]
    BY <1>3, <1>0
  <2> QED BY <1>1, <2>1
<1> QED BY <1>2, <1>3

LEMMA PlanCreateCtrl ==
    ASSUME TypeInv, CtrlInv, NEW i \in Plans, PlanCreate(i) PROVE CtrlInv'
<1> DEFINE r == Owner[i]
           b == [q \in Ranks |-> IF q \in Receivers(i) THEN Head(batches[r][q]) ELSE 0]
           left == [q \in Ranks |-> IF q \in Receivers(i) THEN Tail(batches[r][q]) ELSE batches[r][q]]
           len(q) == Len(ctrl[r][q])
<1>1. /\ i \notin Once /\ plan[i] = "none" /\ \A q \in Receivers(i) : batches[r][q] # <<>>
      /\ batch' = [batch EXCEPT ![i] = b] /\ batches' = [batches EXCEPT ![r] = left]
      /\ Tell(i, "create", batch'[i]) /\ plan' = [plan EXCEPT ![i] = "ready"]
      /\ UNCHANGED slot
  BY DEF PlanCreate
<1>2. TypeOK /\ TypeOK' /\ PlansTaken /\ PlansTaken'
  BY PlanCreateType DEF TypeInv, Taken
<1>3. /\ r \in Ranks /\ Receivers(i) \subseteq Ranks /\ "create" \in Types
      /\ batches \in [Ranks -> [Ranks -> Seq(Ids)]] /\ batch \in [Plans -> [Ranks -> 0 .. NumIds]]
      /\ plan \in [Plans -> {"none", "ready", "gone"}]
      /\ batch' \in [Plans -> [Ranks -> 0 .. NumIds]]
  BY <1>2, PlanFacts DEF TypeOK, Types
<1>4. \A q \in Receivers(i) :
         /\ batches[r][q] \in Seq(Ids) /\ Len(batches[r][q]) \in Nat /\ Len(batches[r][q]) > 0
         /\ Head(batches[r][q]) = batches[r][q][1] /\ batch'[i][q] = batches[r][q][1]
         /\ Len(Tail(batches[r][q])) = Len(batches[r][q]) - 1
         /\ \A a \in 1 .. Len(Tail(batches[r][q])) : Tail(batches[r][q])[a] = batches[r][q][a + 1]
  BY <1>1, <1>3, HeadTailProperties, EmptySeq
<1>5. /\ plan'[i] = "ready" /\ \A j \in Plans : j # i => plan'[j] = plan[j] /\ batch'[j] = batch[j]
      /\ batches'[r] = left /\ \A q \in Ranks : q # r => batches'[q] = batches[q]
  BY <1>1, <1>3
<1>6. \A q \in Receivers(i) : batch'[i][q] \in 0 .. NumIds
  BY <1>3
<1> HIDE DEF b
<1>7. /\ \A j \in Plans, q \in Ranks : \A n, t :
            On(j, q, n, t)' <=> \/ On(j, q, n, t)
                                \/ j = i /\ q \in Receivers(i) /\ t = "create" /\ n = len(q) + 1
      /\ \A j \in Plans, q \in Ranks : \A n :
            OnAny(j, q, n)' <=> \/ OnAny(j, q, n)
                                \/ j = i /\ q \in Receivers(i) /\ n = len(q) + 1
      /\ \A j \in Plans, q \in Ranks : \A t :
            OnItsWay(j, q, t)' <=> \/ OnItsWay(j, q, t)
                                   \/ j = i /\ q \in Receivers(i) /\ t = "create"
  BY <1>1, <1>2, <1>3, <1>6, PushOn
<1>8. /\ MessagesRight /\ MessagesOrdered /\ SlotsRight
      /\ MessagesMeet /\ SlotsReused /\ BatchesHeld
  BY DEF CtrlInv
<1>9. /\ \A q \in Ranks : \A n, t : ~On(i, q, n, t)
      /\ \A q \in Ranks : \A n : ~OnAny(i, q, n)
      /\ \A q \in Ranks : \A t : ~OnItsWay(i, q, t)
  BY <1>1, <1>2, <1>8, OnRight, OnFacts
<1>10. \A q \in Ranks : \A j \in Plans : j # i => (HoldsSlot(j, q)' <=> HoldsSlot(j, q))
  BY <1>1, <1>5 DEF HoldsSlot
<1>11. \A q \in Receivers(i) : ~HoldsSlot(i, q)'
  <2> SUFFICES ASSUME NEW q \in Receivers(i), slot[q][r][batch'[i][q]] = i PROVE FALSE
    BY <1>1 DEF HoldsSlot
  <2>1. batch'[i][q] \in Ids /\ q \in Ranks /\ i # None
    BY <1>1, <1>2, <1>3, <1>5, ChannelAssumption DEF PlansTaken
  <2> QED BY <1>1, <1>3, <1>8, <2>1 DEF SlotsRight
<1>12. MessagesRight'
  <2>1. \A j \in Plans : plan[j] # "none" =>
           plan'[j] # "none" /\ batch'[j] = batch[j] /\ (plan[j] = "gone" => plan'[j] = "gone")
    BY <1>1, <1>5
  <2> QED BY <1>1, <1>2, <1>3, <1>5, <1>6, <1>8, <2>1, MessageRightPush
<1>13. MessagesOrdered'
  <2> SUFFICES ASSUME NEW j \in Plans, NEW q \in Receivers(j), NEW n \in Nat, NEW m \in Nat,
                      OnAny(j, q, m)', n # m
               PROVE  /\ On(j, q, n, "create")' => n < m
                      /\ On(j, q, n, "destroy")' => m < n
                      /\ ~On(j, q, n, "execute")'
    BY DEF MessagesOrdered
  <2>1. q \in Ranks
    BY PlanFacts
  <2> QED BY <1>7, <1>8, <1>9, <2>1 DEF MessagesOrdered
<1>14. SlotsRight'
  <2>0. \A o, q \in Ranks, c \in Ids : slot[q][o][c] \in Plans \cup {None}
    BY <1>2 DEF TypeOK
  <2> SUFFICES ASSUME NEW o \in Ranks, NEW q \in Ranks, NEW c \in Ids,
                      NEW j \in Plans, j = slot[q][o][c], j # None
               PROVE  /\ Owner[j] = o /\ j \notin Once /\ q \in Receivers(j) /\ batch'[j][q] = c
                      /\ plan'[j] # "none"
                      /\ ~OnItsWay(j, q, "create")'
                      /\ plan'[j] = "gone" => OnItsWay(j, q, "destroy")'
    BY <1>1, <2>0 DEF SlotsRight
  <2>1. /\ Owner[j] = o /\ j \notin Once /\ q \in Receivers(j) /\ batch[j][q] = c
        /\ plan[j] # "none" /\ ~OnItsWay(j, q, "create")
        /\ plan[j] = "gone" => OnItsWay(j, q, "destroy")
    BY <1>8 DEF SlotsRight
  <2> QED BY <2>1, <1>1, <1>5, <1>7
<1>15. MessagesMeet'
  <2> SUFFICES ASSUME NEW j \in Plans \ Once, NEW q \in Receivers(j)
               PROVE  /\ plan'[j] = "ready" => HoldsSlot(j, q)' \/ OnItsWay(j, q, "create")'
                      /\ plan'[j] = "gone" /\ OnItsWay(j, q, "create")' => OnItsWay(j, q, "destroy")'
                      /\ \A n \in Nat : On(j, q, n, "start")' \/ On(j, q, n, "destroy")' =>
                            HoldsSlot(j, q)' \/ \E m \in Nat : m < n /\ On(j, q, m, "create")'
    BY DEF MessagesMeet
  <2>1. q \in Ranks /\ j \in Plans
    BY PlanFacts
  <2>2. CASE j = i
    BY <2>1, <2>2, <1>5, <1>7, <1>9
  <2>3. CASE j # i
    BY <2>1, <2>3, <1>5, <1>7, <1>8, <1>10 DEF MessagesMeet
  <2> QED BY <2>2, <2>3
<1>16. SlotsReused'
  <2> SUFFICES ASSUME NEW x \in Plans, NEW y \in Plans, NEW q \in Ranks, SameSlot(x, y, q)',
                      NEW n \in Nat, On(y, q, n, "create")'
               PROVE  /\ HoldsSlot(x, q)' => \E m \in Nat : m < n /\ On(x, q, m, "destroy")'
                      /\ \A k \in Nat : On(x, q, k, "create")' /\ k < n =>
                            \E m \in Nat : k < m /\ m < n /\ On(x, q, m, "destroy")'
    BY DEF SlotsReused
  <2>1. /\ x # y /\ Owner[x] = Owner[y] /\ x \notin Once /\ y \notin Once
        /\ q \in Receivers(x) /\ q \in Receivers(y) /\ batch'[x][q] = batch'[y][q]
    BY DEF SameSlot
  <2>2. CASE y = i
    <3>1. n = len(q) + 1 /\ \A k, t : On(x, q, k, t) => k \in Nat /\ k < n
      <4>1. len(q) \in Nat
        BY <1>2, <1>3, CtrlFacts
      <4>2. n = len(q) + 1
        BY <2>2, <1>7, <1>9
      <4>3. \A k, t : On(x, q, k, t) => k \in Nat /\ k <= len(q)
        BY <1>2, <2>1, <2>2, OnFacts
      <4> QED BY <4>1, <4>2, <4>3
    <3>2. plan[x] # "ready" /\ batch[x][q] \in Ids
      <4>1. batch[x][q] = batches[r][q][1] /\ 1 \in 1 .. Len(batches[r][q])
        BY <2>1, <2>2, <1>4, <1>5
      <4>2. batches[r][q][1] \in Ids
        BY <2>1, <2>2, <1>4, <4>1, ElementOfSeq
      <4> QED BY <2>1, <2>2, <1>8, <4>1, <4>2 DEF BatchesHeld
    <3>3. ASSUME plan[x] = "gone", OnItsWay(x, q, "destroy")
          PROVE  \E m \in Nat : m < n /\ On(x, q, m, "destroy")'
      BY <1>2, <1>7, <3>1, <3>3, OnFacts
    <3>4. HoldsSlot(x, q)' => \E m \in Nat : m < n /\ On(x, q, m, "destroy")'
      <4> SUFFICES ASSUME HoldsSlot(x, q)
                   PROVE  \E m \in Nat : m < n /\ On(x, q, m, "destroy")'
        BY <2>1, <2>2, <1>10
      <4>1. plan[x] # "none" /\ (plan[x] = "gone" => OnItsWay(x, q, "destroy"))
        BY <3>2, <1>8, HoldsRight
      <4> QED BY <4>1, <3>2, <3>3, <1>3
    <3>5. ASSUME NEW k \in Nat, On(x, q, k, "create")', k < n
          PROVE  \E m \in Nat : k < m /\ m < n /\ On(x, q, m, "destroy")'
      <4>1. On(x, q, k, "create")
        BY <3>5, <2>1, <2>2, <1>7
      <4>2. plan[x] = "gone" /\ OnItsWay(x, q, "create")
        BY <4>1, <3>2, <1>2, <1>3, <1>8, OnRight, OnFacts
      <4>3. PICK m \in Nat : On(x, q, m, "destroy")
        BY <4>2, <2>1, <1>2, <1>8, OnFacts DEF MessagesMeet
      <4>4. m # k /\ OnAny(x, q, m)
        BY <4>1, <4>3, <1>2, OnFacts
      <4>5. k < m
        BY <4>1, <4>4, <2>1, <1>8 DEF MessagesOrdered
      <4> QED BY <4>3, <4>5, <3>1, <1>7
    <3> QED BY <3>4, <3>5
  <2>3. CASE x = i
    <3>1. ~HoldsSlot(x, q)'
      BY <2>1, <2>3, <1>11
    <3>2. On(y, q, n, "create") /\ n <= len(q) /\ len(q) \in Nat
      BY <2>1, <2>3, <1>2, <1>3, <1>7, OnFacts, CtrlFacts
    <3>3. \A k \in Nat : On(x, q, k, "create")' => k = len(q) + 1
      BY <2>3, <1>7, <1>9
    <3> QED BY <3>1, <3>2, <3>3
  <2>4. CASE x # i /\ y # i
    <3>1. SameSlot(x, y, q)
      BY <2>1, <2>4, <1>5 DEF SameSlot
    <3> QED BY <3>1, <2>4, <1>7, <1>8, <1>10 DEF SlotsReused
  <2> QED BY <2>2, <2>3, <2>4
<1>17. BatchesHeld'
  <2>1. \A q \in Receivers(i) :
           /\ Len(batches'[r][q]) = Len(batches[r][q]) - 1
           /\ \A a \in 1 .. Len(batches'[r][q]) :
                 a + 1 \in 1 .. Len(batches[r][q]) /\ batches'[r][q][a] = batches[r][q][a + 1]
    <3> SUFFICES ASSUME NEW q \in Receivers(i)
                 PROVE  /\ Len(batches'[r][q]) = Len(batches[r][q]) - 1
                        /\ \A a \in 1 .. Len(batches'[r][q]) :
                              a + 1 \in 1 .. Len(batches[r][q]) /\ batches'[r][q][a] = batches[r][q][a + 1]
      OBVIOUS
    <3>1. batches'[r][q] = Tail(batches[r][q])
      BY <1>3, <1>5
    <3> QED BY <3>1, <1>4
  <2>2. \A o, q \in Ranks : o # r \/ q \notin Receivers(i) => batches'[o][q] = batches[o][q]
    BY <1>5
  <2>3. \A o, q \in Ranks : \A a, c \in 1 .. Len(batches'[o][q]) :
           batches'[o][q][a] = batches'[o][q][c] => a = c
    <3> SUFFICES ASSUME NEW o \in Ranks, NEW q \in Ranks,
                        NEW a \in 1 .. Len(batches'[o][q]), NEW c \in 1 .. Len(batches'[o][q]),
                        batches'[o][q][a] = batches'[o][q][c]
                 PROVE  a = c
      OBVIOUS
    <3>1. CASE o = r /\ q \in Receivers(i)
      <4>1. /\ a + 1 \in 1 .. Len(batches[o][q]) /\ c + 1 \in 1 .. Len(batches[o][q])
            /\ batches[o][q][a + 1] = batches[o][q][c + 1]
        BY <3>1, <2>1
      <4>2. a + 1 = c + 1
        BY <4>1, <1>8 DEF BatchesHeld
      <4> QED BY <4>2
    <3>2. CASE o # r \/ q \notin Receivers(i)
      BY <3>2, <2>2, <1>8 DEF BatchesHeld
    <3> QED BY <3>1, <3>2
  <2>4. ASSUME NEW j \in Plans, NEW q \in Receivers(j), plan'[j] = "ready",
               NEW a \in 1 .. Len(batches'[Owner[j]][q])
        PROVE  batches'[Owner[j]][q][a] # batch'[j][q]
    <3>0. q \in Ranks /\ Owner[j] \in Ranks
      BY PlanFacts
    <3>1. CASE j = i
      <4>1. /\ batches'[r][q][a] = batches[r][q][a + 1] /\ a + 1 \in 1 .. Len(batches[r][q])
            /\ batch'[i][q] = batches[r][q][1] /\ 1 \in 1 .. Len(batches[r][q]) /\ a + 1 # 1
        BY <3>1, <2>1, <2>4, <1>4
      <4> QED BY <3>0, <3>1, <4>1, <1>8 DEF BatchesHeld
    <3>2. CASE j # i /\ Owner[j] = r /\ q \in Receivers(i)
      <4>1. batches'[r][q][a] = batches[r][q][a + 1] /\ a + 1 \in 1 .. Len(batches[r][q])
        BY <3>2, <2>1
      <4> QED BY <2>4, <3>2, <4>1, <1>5, <1>8 DEF BatchesHeld
    <3>3. CASE j # i /\ (Owner[j] # r \/ q \notin Receivers(i))
      BY <2>4, <3>0, <3>3, <2>2, <1>5, <1>8 DEF BatchesHeld
    <3> QED BY <3>1, <3>2, <3>3
  <2>5. ASSUME NEW x \in Plans, NEW y \in Plans, NEW q \in Ranks, SameSlot(x, y, q)',
               plan'[x] = "ready", plan'[y] = "ready"
        PROVE  FALSE
    <3>1. /\ x # y /\ Owner[x] = Owner[y] /\ x \notin Once /\ y \notin Once
          /\ q \in Receivers(x) /\ q \in Receivers(y) /\ batch'[x][q] = batch'[y][q]
      BY <2>5 DEF SameSlot
    <3>2. ASSUME NEW z \in Plans, z # i, plan'[z] = "ready", Owner[z] = r, q \in Receivers(z),
                 q \in Receivers(i), batch'[z][q] = batch'[i][q]
          PROVE  FALSE
      <4>1. batch[z][q] = batches[r][q][1] /\ 1 \in 1 .. Len(batches[r][q]) /\ plan[z] = "ready"
        BY <3>2, <1>4, <1>5
      <4> QED BY <3>2, <4>1, <1>8 DEF BatchesHeld
    <3>3. CASE x # i /\ y # i
      <4>1. SameSlot(x, y, q)
        BY <3>1, <3>3, <1>5 DEF SameSlot
      <4> QED BY <2>5, <3>1, <3>3, <4>1, <1>5, <1>8 DEF BatchesHeld
    <3> QED BY <2>5, <3>1, <3>2, <3>3
  <2>6. \A x \in Plans : \A q \in Receivers(x) : q \in Ranks
    BY PlanFacts
  <2>7. \A x \in Plans : \A q \in Receivers(x) : plan'[x] = "ready" =>
           /\ \A a \in 1 .. Len(batches'[Owner[x]][q]) : batches'[Owner[x]][q][a] # batch'[x][q]
           /\ \A y \in Plans : SameSlot(x, y, q)' => plan'[y] # "ready"
    BY <2>4, <2>5, <2>6
  <2> QED BY <2>3, <2>7 DEF BatchesHeld
<1> QED BY <1>12, <1>13, <1>14, <1>15, <1>16, <1>17 DEF CtrlInv

\* A start message, of a plan that is there or of one that is executed at once
LEMMA PushStartCtrl ==
    ASSUME TypeInv, CtrlInv, NEW i \in Plans, NEW type, Tell(i, type, batch[i]),
           UNCHANGED <<batch, batches, slot>>, plan' \in [Plans -> {"none", "ready", "gone"}],
           \A j \in Plans : j # i => plan'[j] = plan[j],
           \/ type = "start" /\ i \notin Once /\ plan[i] = "ready" /\ plan'[i] = "ready"
           \/ type = "execute" /\ i \in Once /\ plan[i] = "none" /\ plan'[i] = "gone"
    PROVE  CtrlInv'
<1> DEFINE r == Owner[i]  len(q) == Len(ctrl[r][q])
<1>1. /\ r \in Ranks /\ Receivers(i) \subseteq Ranks /\ type \in Types
      /\ \A q \in Receivers(i) : batch[i][q] \in 0 .. NumIds
  BY PlanFacts DEF TypeInv, TypeOK, Types
<1>2. TypeOK /\ PlansTaken
  BY DEF TypeInv, Taken
<1>3. /\ \A j \in Plans, q \in Ranks : \A n, t :
            On(j, q, n, t)' <=> \/ On(j, q, n, t)
                                \/ j = i /\ q \in Receivers(i) /\ t = type /\ n = len(q) + 1
      /\ \A j \in Plans, q \in Ranks : \A n :
            OnAny(j, q, n)' <=> \/ OnAny(j, q, n)
                                \/ j = i /\ q \in Receivers(i) /\ n = len(q) + 1
      /\ \A j \in Plans, q \in Ranks : \A t :
            OnItsWay(j, q, t)' <=> \/ OnItsWay(j, q, t)
                                   \/ j = i /\ q \in Receivers(i) /\ t = type
  BY <1>1, <1>2, PushOn
<1>4. /\ MessagesRight /\ MessagesOrdered /\ SlotsRight
      /\ MessagesMeet /\ SlotsReused /\ BatchesHeld
  BY DEF CtrlInv
<1>5. \A q \in Receivers(i) : \A n, t : On(i, q, n, t) => t # "destroy" /\ t # "execute"
  BY <1>1, <1>2, <1>4, OnRight
<1>6. \A q \in Receivers(i) : len(q) \in Nat /\ \A n : OnAny(i, q, n) => n \in Nat /\ n < len(q) + 1
  BY <1>1, <1>2, CtrlFacts DEF OnAny
<1>7. \A j \in Plans, q \in Ranks : HoldsSlot(j, q)' <=> HoldsSlot(j, q)
  BY DEF HoldsSlot
<1>8. \A x, y \in Plans, q \in Ranks : SameSlot(x, y, q)' <=> SameSlot(x, y, q)
  BY DEF SameSlot
<1>9. \A j \in Plans, q \in Ranks : \A n :
         /\ On(j, q, n, "create")' <=> On(j, q, n, "create")
         /\ On(j, q, n, "destroy")' <=> On(j, q, n, "destroy")
         /\ OnItsWay(j, q, "create")' <=> OnItsWay(j, q, "create")
         /\ OnItsWay(j, q, "destroy")' <=> OnItsWay(j, q, "destroy")
  BY <1>3
<1>10. MessagesRight'
  <2>1. \A j \in Plans : plan[j] # "none" =>
           plan'[j] # "none" /\ batch'[j] = batch[j] /\ (plan[j] = "gone" => plan'[j] = "gone")
    OBVIOUS
  <2>2. i \notin Once => \A q \in Receivers(i) : batch[i][q] = batch'[i][q]
    OBVIOUS
  <2>3. (type = "execute" <=> i \in Once) /\ type # "destroy" /\ plan'[i] # "none"
    OBVIOUS
  <2> QED BY <1>1, <1>2, <1>4, <2>1, <2>2, <2>3, MessageRightPush
<1>11. MessagesOrdered'
  <2> SUFFICES ASSUME NEW j \in Plans, NEW q \in Receivers(j), NEW n \in Nat, NEW m \in Nat,
                      OnAny(j, q, m)', n # m
               PROVE  /\ On(j, q, n, "create")' => n < m
                      /\ On(j, q, n, "destroy")' => m < n
                      /\ ~On(j, q, n, "execute")'
    BY DEF MessagesOrdered
  <2>1. q \in Ranks
    BY PlanFacts
  <2>2. \A k, t : On(j, q, k, t) => OnAny(j, q, k)
    BY <1>2, <2>1, OnFacts
  <2>3. CASE j # i
    BY <1>3, <1>4, <2>1, <2>3 DEF MessagesOrdered
  <2>4. CASE j = i /\ OnAny(i, q, m)
    <3>1. /\ On(i, q, n, "create") => n < m
          /\ On(i, q, n, "destroy") => m < n
          /\ ~On(i, q, n, "execute")
      BY <1>4, <2>4 DEF MessagesOrdered
    <3>2. i \notin Once
      <4>1. plan[i] # "none"
        BY <1>1, <1>2, <1>4, <2>1, <2>4, OnRight, OnFacts
      <4> QED BY <4>1
    <3> QED BY <1>3, <2>1, <2>4, <3>1, <3>2
  <2>5. CASE j = i /\ ~OnAny(i, q, m)
    <3>1. m = len(q) + 1
      BY <1>3, <2>1, <2>5
    <3>2. On(i, q, n, "create") => n < m
      BY <1>6, <2>2, <2>5, <3>1
    <3> QED BY <1>3, <1>5, <2>1, <2>5, <3>1, <3>2
  <2> QED BY <2>3, <2>4, <2>5
<1>12. SlotsRight'
  <2>1. \A o, q \in Ranks, c \in Ids : slot[q][o][c] \in Plans \cup {None}
    BY <1>2 DEF TypeOK
  <2> SUFFICES ASSUME NEW o \in Ranks, NEW q \in Ranks, NEW c \in Ids,
                      NEW j \in Plans, j = slot[q][o][c], j # None
               PROVE  /\ Owner[j] = o /\ j \notin Once /\ q \in Receivers(j) /\ batch[j][q] = c
                      /\ plan'[j] # "none"
                      /\ ~OnItsWay(j, q, "create")'
                      /\ plan'[j] = "gone" => OnItsWay(j, q, "destroy")'
    BY <2>1 DEF SlotsRight
  <2>2. /\ Owner[j] = o /\ j \notin Once /\ q \in Receivers(j) /\ batch[j][q] = c
        /\ plan[j] # "none" /\ ~OnItsWay(j, q, "create")
        /\ plan[j] = "gone" => OnItsWay(j, q, "destroy")
    BY <1>4 DEF SlotsRight
  <2> QED BY <1>9, <2>2
<1>13. MessagesMeet'
  <2> SUFFICES ASSUME NEW j \in Plans \ Once, NEW q \in Receivers(j)
               PROVE  /\ plan'[j] = "ready" => HoldsSlot(j, q)' \/ OnItsWay(j, q, "create")'
                      /\ plan'[j] = "gone" /\ OnItsWay(j, q, "create")' => OnItsWay(j, q, "destroy")'
                      /\ \A n \in Nat : On(j, q, n, "start")' \/ On(j, q, n, "destroy")' =>
                            HoldsSlot(j, q)' \/ \E m \in Nat : m < n /\ On(j, q, m, "create")'
    BY DEF MessagesMeet
  <2>1. q \in Ranks /\ j \in Plans
    BY PlanFacts
  <2>2. plan'[j] = plan[j]
    OBVIOUS
  <2>3. ASSUME NEW n \in Nat, j = i, n = len(q) + 1
        PROVE  HoldsSlot(i, q) \/ \E m \in Nat : m < n /\ On(i, q, m, "create")
    <3>1. HoldsSlot(i, q) \/ OnItsWay(i, q, "create")
      BY <1>4, <2>3 DEF MessagesMeet
    <3>2. \A m \in Nat : On(i, q, m, "create") => m < n
      BY <1>2, <1>6, <2>1, <2>3, OnFacts
    <3> QED BY <1>2, <2>1, <3>1, <3>2, OnFacts
  <2>4. ASSUME NEW n \in Nat, On(j, q, n, "start")' \/ On(j, q, n, "destroy")'
        PROVE  HoldsSlot(j, q) \/ \E m \in Nat : m < n /\ On(j, q, m, "create")
    <3>1. CASE On(j, q, n, "start") \/ On(j, q, n, "destroy")
      BY <1>4, <3>1 DEF MessagesMeet
    <3>2. CASE j = i /\ n = len(q) + 1
      BY <2>3, <3>2
    <3> QED BY <1>3, <2>1, <2>4, <3>1, <3>2
  <2> QED BY <1>4, <1>7, <1>9, <2>1, <2>2, <2>4 DEF MessagesMeet
<1>14. SlotsReused'
  <2> SUFFICES ASSUME NEW x \in Plans, NEW y \in Plans, NEW q \in Ranks, SameSlot(x, y, q),
                      NEW n \in Nat, On(y, q, n, "create")
               PROVE  /\ HoldsSlot(x, q) => \E m \in Nat : m < n /\ On(x, q, m, "destroy")
                      /\ \A k \in Nat : On(x, q, k, "create") /\ k < n =>
                            \E m \in Nat : k < m /\ m < n /\ On(x, q, m, "destroy")
    BY <1>7, <1>8, <1>9 DEF SlotsReused
  <2> QED BY <1>4 DEF SlotsReused
<1>15. BatchesHeld'
  <2>1. \A j \in Plans : plan'[j] = "ready" => plan[j] = "ready"
    OBVIOUS
  <2> QED BY <1>4, <2>1, <1>8, PlanFacts DEF BatchesHeld
<1> QED BY <1>10, <1>11, <1>12, <1>13, <1>14, <1>15 DEF CtrlInv

LEMMA StartCtrl ==
    ASSUME TypeInv, CtrlInv, NEW i \in Plans, RdmaStart(i) \/ PlanStart(i) PROVE CtrlInv'
<1>1. plan \in [Plans -> {"none", "ready", "gone"}] /\ PlansTaken
  BY DEF TypeInv, TypeOK, Taken
<1>2. CASE RdmaStart(i)
  <2>1. /\ Tell(i, "execute", batch[i]) /\ plan' = [plan EXCEPT ![i] = "gone"]
        /\ i \in Once /\ plan[i] = "none" /\ UNCHANGED <<batch, batches, slot>>
    BY <1>2 DEF RdmaStart
  <2>2. /\ plan'[i] = "gone" /\ \A j \in Plans : j # i => plan'[j] = plan[j]
        /\ plan' \in [Plans -> {"none", "ready", "gone"}]
    BY <1>1, <2>1
  <2> QED BY <2>1, <2>2, PushStartCtrl
<1>3. CASE PlanStart(i)
  <2>1. /\ Tell(i, "start", batch[i]) /\ plan[i] = "ready" /\ i \notin Once
        /\ UNCHANGED <<plan, batch, batches, slot>>
    BY <1>1, <1>3 DEF PlanStart, PlansTaken
  <2> QED BY <1>1, <2>1, PushStartCtrl
<1> QED BY <1>2, <1>3

LEMMA PlanDestroyCtrl ==
    ASSUME TypeInv, CtrlInv, NEW i \in Plans, PlanDestroy(i) PROVE CtrlInv'
<1> DEFINE r == Owner[i]  len(q) == Len(ctrl[r][q])
           left == [q \in Ranks |-> IF q \in Receivers(i) THEN <<batch[i][q]>> \o batches[r][q]
                                                          ELSE batches[r][q]]
<1>1. /\ r \in Ranks /\ Receivers(i) \subseteq Ranks /\ "destroy" \in Types
      /\ \A q \in Receivers(i) : batch[i][q] \in 0 .. NumIds
      /\ plan \in [Plans -> {"none", "ready", "gone"}]
      /\ batches \in [Ranks -> [Ranks -> Seq(Ids)]]
  BY PlanFacts DEF TypeInv, TypeOK, Types
<1>2. TypeOK /\ PlansTaken
  BY DEF TypeInv, Taken
<1>3. /\ plan[i] = "ready" /\ i \notin Once /\ Tell(i, "destroy", batch[i])
      /\ batches' = [batches EXCEPT ![r] = left]
      /\ plan' = [plan EXCEPT ![i] = "gone"] /\ UNCHANGED <<batch, slot>>
  BY <1>2 DEF PlanDestroy, PlansTaken
<1>4. /\ plan'[i] = "gone" /\ \A j \in Plans : j # i => plan'[j] = plan[j]
      /\ batches'[r] = left /\ \A q \in Ranks : q # r => batches'[q] = batches[q]
  BY <1>1, <1>3
<1>5. /\ \A j \in Plans, q \in Ranks : \A n, t :
            On(j, q, n, t)' <=> \/ On(j, q, n, t)
                                \/ j = i /\ q \in Receivers(i) /\ t = "destroy" /\ n = len(q) + 1
      /\ \A j \in Plans, q \in Ranks : \A n :
            OnAny(j, q, n)' <=> \/ OnAny(j, q, n)
                                \/ j = i /\ q \in Receivers(i) /\ n = len(q) + 1
      /\ \A j \in Plans, q \in Ranks : \A t :
            OnItsWay(j, q, t)' <=> \/ OnItsWay(j, q, t)
                                   \/ j = i /\ q \in Receivers(i) /\ t = "destroy"
  BY <1>1, <1>2, <1>3, PushOn
<1>6. /\ MessagesRight /\ MessagesOrdered /\ SlotsRight
      /\ MessagesMeet /\ SlotsReused /\ BatchesHeld
  BY DEF CtrlInv
<1>7. \A q \in Receivers(i) : \A n, t : On(i, q, n, t) => t # "destroy" /\ t # "execute"
  BY <1>1, <1>2, <1>3, <1>6, OnRight
<1>8. \A q \in Receivers(i) : len(q) \in Nat /\ \A n : OnAny(i, q, n) => n \in Nat /\ n < len(q) + 1
  BY <1>1, <1>2, CtrlFacts DEF OnAny
<1>9. \A j \in Plans, q \in Ranks : HoldsSlot(j, q)' <=> HoldsSlot(j, q)
  BY <1>3 DEF HoldsSlot
<1>10. \A x, y \in Plans, q \in Ranks : SameSlot(x, y, q)' <=> SameSlot(x, y, q)
  BY <1>3 DEF SameSlot
<1>11. MessagesRight'
  <2>1. \A j \in Plans : plan[j] # "none" =>
           plan'[j] # "none" /\ batch'[j] = batch[j] /\ (plan[j] = "gone" => plan'[j] = "gone")
    BY <1>3, <1>4
  <2>2. i \notin Once => \A q \in Receivers(i) : batch[i][q] = batch'[i][q]
    BY <1>3
  <2>3. ("destroy" = "execute" <=> i \in Once) /\ plan'[i] # "none"
    BY <1>3, <1>4
  <2> QED BY <1>1, <1>2, <1>3, <1>4, <1>6, <2>1, <2>2, <2>3, MessageRightPush
<1>12. MessagesOrdered'
  <2> SUFFICES ASSUME NEW j \in Plans, NEW q \in Receivers(j), NEW n \in Nat, NEW m \in Nat,
                      OnAny(j, q, m)', n # m
               PROVE  /\ On(j, q, n, "create")' => n < m
                      /\ On(j, q, n, "destroy")' => m < n
                      /\ ~On(j, q, n, "execute")'
    BY DEF MessagesOrdered
  <2>1. q \in Ranks
    BY PlanFacts
  <2>2. \A k, t : On(j, q, k, t) => OnAny(j, q, k)
    BY <1>2, <2>1, OnFacts
  <2>3. CASE j # i
    BY <1>5, <1>6, <2>1, <2>3 DEF MessagesOrdered
  <2>4. CASE j = i /\ OnAny(i, q, m)
    <3>1. /\ On(i, q, n, "create") => n < m
          /\ On(i, q, n, "destroy") => m < n
          /\ ~On(i, q, n, "execute")
      BY <1>6, <2>4 DEF MessagesOrdered
    <3>2. n = len(q) + 1 => m < n
      BY <1>8, <2>4
    <3> QED BY <1>5, <2>1, <2>4, <3>1, <3>2
  <2>5. CASE j = i /\ ~OnAny(i, q, m)
    <3>1. m = len(q) + 1
      BY <1>5, <2>1, <2>5
    <3>2. On(i, q, n, "create") => n < m
      BY <1>8, <2>2, <2>5, <3>1
    <3> QED BY <1>5, <1>7, <2>1, <2>5, <3>1, <3>2
  <2> QED BY <2>3, <2>4, <2>5
<1>13. SlotsRight'
  <2>1. \A o, q \in Ranks, c \in Ids : slot[q][o][c] \in Plans \cup {None}
    BY <1>2 DEF TypeOK
  <2> SUFFICES ASSUME NEW o \in Ranks, NEW q \in Ranks, NEW c \in Ids,
                      NEW j \in Plans, j = slot[q][o][c], j # None
               PROVE  /\ Owner[j] = o /\ j \notin Once /\ q \in Receivers(j) /\ batch[j][q] = c
                      /\ plan'[j] # "none"
                      /\ ~OnItsWay(j, q, "create")'
                      /\ plan'[j] = "gone" => OnItsWay(j, q, "destroy")'
    BY <1>3, <2>1 DEF SlotsRight
  <2>2. /\ Owner[j] = o /\ j \notin Once /\ q \in Receivers(j) /\ batch[j][q] = c
        /\ plan[j] # "none" /\ ~OnItsWay(j, q, "create")
        /\ plan[j] = "gone" => OnItsWay(j, q, "destroy")
    BY <1>6 DEF SlotsRight
  <2> QED BY <1>4, <1>5, <2>2
<1>14. MessagesMeet'
  <2> SUFFICES ASSUME NEW j \in Plans \ Once, NEW q \in Receivers(j)
               PROVE  /\ plan'[j] = "ready" => HoldsSlot(j, q)' \/ OnItsWay(j, q, "create")'
                      /\ plan'[j] = "gone" /\ OnItsWay(j, q, "create")' => OnItsWay(j, q, "destroy")'
                      /\ \A n \in Nat : On(j, q, n, "start")' \/ On(j, q, n, "destroy")' =>
                            HoldsSlot(j, q)' \/ \E m \in Nat : m < n /\ On(j, q, m, "create")'
    BY DEF MessagesMeet
  <2>1. q \in Ranks /\ j \in Plans
    BY PlanFacts
  <2>2. ASSUME NEW n \in Nat, j = i, n = len(q) + 1
        PROVE  HoldsSlot(i, q) \/ \E m \in Nat : m < n /\ On(i, q, m, "create")
    <3>1. HoldsSlot(i, q) \/ OnItsWay(i, q, "create")
      BY <1>3, <1>6, <2>2 DEF MessagesMeet
    <3>2. \A m \in Nat : On(i, q, m, "create") => m < n
      BY <1>2, <1>8, <2>1, <2>2, OnFacts
    <3> QED BY <1>2, <2>1, <3>1, <3>2, OnFacts
  <2>3. ASSUME NEW n \in Nat, On(j, q, n, "start")' \/ On(j, q, n, "destroy")'
        PROVE  HoldsSlot(j, q) \/ \E m \in Nat : m < n /\ On(j, q, m, "create")
    <3>1. CASE On(j, q, n, "start") \/ On(j, q, n, "destroy")
      BY <1>6, <3>1 DEF MessagesMeet
    <3>2. CASE j = i /\ n = len(q) + 1
      BY <2>2, <3>2
    <3> QED BY <1>5, <2>1, <2>3, <3>1, <3>2
  <2>4. plan'[j] = "ready" => HoldsSlot(j, q)' \/ OnItsWay(j, q, "create")'
    BY <1>4, <1>5, <1>6, <1>9, <2>1 DEF MessagesMeet
  <2>5. plan'[j] = "gone" /\ OnItsWay(j, q, "create")' => OnItsWay(j, q, "destroy")'
    BY <1>4, <1>5, <1>6, <2>1 DEF MessagesMeet
  <2> QED BY <1>5, <1>9, <2>1, <2>3, <2>4, <2>5
<1>15. SlotsReused'
  <2> SUFFICES ASSUME NEW x \in Plans, NEW y \in Plans, NEW q \in Ranks, SameSlot(x, y, q),
                      NEW n \in Nat, On(y, q, n, "create")
               PROVE  /\ HoldsSlot(x, q) => \E m \in Nat : m < n /\ On(x, q, m, "destroy")
                      /\ \A k \in Nat : On(x, q, k, "create") /\ k < n =>
                            \E m \in Nat : k < m /\ m < n /\ On(x, q, m, "destroy")
    BY <1>5, <1>9, <1>10 DEF SlotsReused
  <2> QED BY <1>6 DEF SlotsReused
<1>16. BatchesHeld'
  <2>1. \A o, q \in Ranks : o # r \/ q \notin Receivers(i) => batches'[o][q] = batches[o][q]
    BY <1>4
  <2>2. ASSUME NEW q \in Receivers(i), NEW a \in 1 .. Len(batches'[r][q])
        PROVE  /\ a = 1 => batches'[r][q][a] = batch[i][q]
               /\ a # 1 => a - 1 \in 1 .. Len(batches[r][q]) /\ batches'[r][q][a] = batches[r][q][a - 1]
    <3>1. batches'[r][q] = <<batch[i][q]>> \o batches[r][q]
      BY <1>1, <1>4
    <3>2. /\ <<batch[i][q]>> \in Seq(Ids) /\ Len(<<batch[i][q]>>) = 1 /\ <<batch[i][q]>>[1] = batch[i][q]
          /\ batches[r][q] \in Seq(Ids) /\ Len(batches[r][q]) \in Nat
      <4>1. batch[i][q] \in Ids /\ q \in Ranks
        BY <1>1, <1>2, <1>3 DEF PlansTaken
      <4>2. batches[r][q] \in Seq(Ids) /\ Len(batches[r][q]) \in Nat
        BY <1>1, <4>1
      <4> QED BY <4>1, <4>2
    <3> DEFINE s == <<batch[i][q]>>  u == batches[r][q]
    <3>3. s \in Seq(Ids) /\ Len(s) = 1 /\ s[1] = batch[i][q] /\ u \in Seq(Ids) /\ Len(u) \in Nat
      BY <3>2
    <3>4. batches'[r][q] = s \o u
      BY <3>1
    <3> HIDE DEF s, u
    <3>5. /\ Len(s \o u) = 1 + Len(u)
          /\ \A k \in 1 .. 1 + Len(u) : (s \o u)[k] = IF k <= 1 THEN s[k] ELSE u[k - 1]
      <4>1. Len(s \o u) = 1 + Len(u)
        BY <3>3, ConcatProperties
      <4>2. \A k \in 1 .. Len(s) + Len(u) : (s \o u)[k] = IF k <= Len(s) THEN s[k] ELSE u[k - Len(s)]
        BY ONLY <3>3, ConcatProperties
      <4> QED BY <3>3, <4>1, <4>2
    <3>6. a \in 1 .. 1 + Len(u) /\ batches'[r][q][a] = IF a <= 1 THEN s[a] ELSE u[a - 1]
      BY <3>4, <3>5, <2>2
    <3>7. /\ a = 1 => batches'[r][q][a] = s[1]
          /\ a # 1 => a - 1 \in 1 .. Len(u) /\ batches'[r][q][a] = u[a - 1]
      BY <3>3, <3>6
    <3> QED BY <3>3, <3>7 DEF u
  <2>3. \A q \in Receivers(i) : \A a \in 1 .. Len(batches[r][q]) : batches[r][q][a] # batch[i][q]
    BY <1>3, <1>6 DEF BatchesHeld
  <2>4. ASSUME NEW o \in Ranks, NEW q \in Ranks,
               NEW a \in 1 .. Len(batches'[o][q]), NEW c \in 1 .. Len(batches'[o][q]),
               batches'[o][q][a] = batches'[o][q][c]
        PROVE  a = c
    <3>1. CASE o = r /\ q \in Receivers(i)
      <4>1. /\ a = 1 => batches'[r][q][a] = batch[i][q]
            /\ a # 1 => a - 1 \in 1 .. Len(batches[r][q]) /\ batches'[r][q][a] = batches[r][q][a - 1]
            /\ c = 1 => batches'[r][q][c] = batch[i][q]
            /\ c # 1 => c - 1 \in 1 .. Len(batches[r][q]) /\ batches'[r][q][c] = batches[r][q][c - 1]
        BY <2>2, <3>1
      <4>2. CASE a # 1 /\ c # 1
        <5>1. a - 1 = c - 1
          BY <2>4, <3>1, <4>1, <4>2, <1>1, <1>6 DEF BatchesHeld
        <5> QED BY <5>1
      <4>3. CASE a = 1 \/ c = 1
        BY <2>3, <2>4, <3>1, <4>1, <4>3
      <4> QED BY <4>2, <4>3
    <3>2. CASE o # r \/ q \notin Receivers(i)
      BY <2>1, <2>4, <3>2, <1>6 DEF BatchesHeld
    <3> QED BY <3>1, <3>2
  <2>5. ASSUME NEW j \in Plans, NEW q \in Receivers(j), plan'[j] = "ready"
        PROVE  /\ \A a \in 1 .. Len(batches'[Owner[j]][q]) : batches'[Owner[j]][q][a] # batch[j][q]
               /\ \A k \in Plans : SameSlot(j, k, q) => plan'[k] # "ready"
    <3>1. q \in Ranks /\ Owner[j] \in Ranks /\ j # i /\ plan[j] = "ready"
      BY <1>4, <2>5, PlanFacts
    <3>2. \A k \in Plans : SameSlot(j, k, q) => plan'[k] # "ready"
      BY <1>4, <1>6, <3>1 DEF BatchesHeld
    <3>3. ASSUME NEW a \in 1 .. Len(batches'[Owner[j]][q]) PROVE batches'[Owner[j]][q][a] # batch[j][q]
      <4>1. CASE Owner[j] = r /\ q \in Receivers(i)
        <5>1. /\ a = 1 => batches'[r][q][a] = batch[i][q]
              /\ a # 1 => a - 1 \in 1 .. Len(batches[r][q]) /\ batches'[r][q][a] = batches[r][q][a - 1]
          BY <2>2, <3>3, <4>1
        <5>2. batch[i][q] # batch[j][q]
          <6>1. j \notin Once
            BY <1>2, <3>1 DEF PlansTaken
          <6>2. batch[i][q] = batch[j][q] => SameSlot(j, i, q)
            BY <1>3, <2>5, <3>1, <4>1, <6>1 DEF SameSlot
          <6> QED BY <1>3, <1>6, <3>1, <6>2 DEF BatchesHeld
        <5>3. \A c \in 1 .. Len(batches[r][q]) : batches[r][q][c] # batch[j][q]
          BY <1>6, <3>1, <4>1 DEF BatchesHeld
        <5> QED BY <4>1, <5>1, <5>2, <5>3
      <4>2. CASE Owner[j] # r \/ q \notin Receivers(i)
        BY <1>6, <2>1, <3>1, <3>3, <4>2 DEF BatchesHeld
      <4> QED BY <4>1, <4>2
    <3> QED BY <3>2, <3>3
  <2>6. \A o, q \in Ranks : \A a, c \in 1 .. Len(batches'[o][q]) :
           batches'[o][q][a] = batches'[o][q][c] => a = c
    BY <2>4
  <2>7. \A j \in Plans : \A q \in Receivers(j) : plan'[j] = "ready" =>
           /\ \A a \in 1 .. Len(batches'[Owner[j]][q]) : batches'[Owner[j]][q][a] # batch'[j][q]
           /\ \A k \in Plans : SameSlot(j, k, q)' => plan'[k] # "ready"
    <3>1. \A j \in Plans : \A q \in Receivers(j) : q \in Ranks
      BY PlanFacts
    <3> QED BY <1>3, <1>10, <2>5, <3>1
  <2> QED BY <2>6, <2>7 DEF BatchesHeld
<1> QED BY <1>11, <1>12, <1>13, <1>14, <1>15, <1>16 DEF CtrlInv

\* The oldest message from q to r is one of this type for plan i.
Front(q, r, i, type) ==
    /\ i \in Plans /\ Owner[i] = q /\ r \in Receivers(i) /\ plan[i] # "none"
    /\ On(i, r, 1, type) /\ OnAny(i, r, 1) /\ type \in Types
    /\ type = "execute" <=> i \in Once
    /\ type = "destroy" => plan[i] = "gone"
    /\ i \notin Once => ctrl[q][r][1].batch = batch[i][r] /\ batch[i][r] \in Ids

\* What is on its way once the daemon of r has taken it
Shifts(q, r, i, type) ==
    /\ \A j \in Plans, p \in Ranks : ~(Owner[j] = q /\ p = r) => \A n \in Nat : \A t :
          On(j, p, n, t)' <=> On(j, p, n, t)
    /\ \A j \in Plans : Owner[j] = q => \A n \in Nat : \A t :
          On(j, r, n, t)' <=> n > 0 /\ On(j, r, n + 1, t)
    /\ \A j \in Plans : Owner[j] = q => \A n \in Nat : \A t : On(j, r, n, t) =>
          \/ n = 1 /\ j = i /\ t = type
          \/ n - 1 \in Nat /\ n - 1 > 0 /\ On(j, r, n - 1, t)'
    /\ \A j \in Plans, p \in Ranks : \A t :
          /\ OnItsWay(j, p, t)' => OnItsWay(j, p, t) /\ \E n \in Nat : On(j, p, n, t)'
          /\ OnItsWay(j, p, t) /\ ~(j = i /\ p = r /\ t = type) => OnItsWay(j, p, t)'

LEMMA PopShift ==
    ASSUME TypeInv, CtrlInv, NEW q \in Ranks, NEW r \in Ranks, ctrl[q][r] # <<>>,
           ctrl' = [ctrl EXCEPT ![q][r] = Tail(@)], NEW i, NEW type,
           i = ctrl[q][r][1].plan, type = ctrl[q][r][1].type
    PROVE  Front(q, r, i, type) /\ Shifts(q, r, i, type)
<1> USE DEF TypeInv
<1>1. MessagesRight /\ PlansTaken
  BY DEF CtrlInv, Taken
<1>2. Len(ctrl[q][r]) \in Nat /\ Len(ctrl[q][r]) > 0 /\ i \in Plans /\ type \in Types
  BY PopOn, CtrlFacts
<1>3. /\ Owner[i] = q /\ r \in Receivers(i) /\ plan[i] # "none"
      /\ type = "execute" <=> i \in Once
      /\ i \notin Once => ctrl[q][r][1].batch = batch[i][r]
      /\ type = "destroy" => plan[i] = "gone"
  BY <1>1, <1>2 DEF MessagesRight
<1>4. i \notin Once => batch[i][r] \in Ids
  BY <1>1, <1>2, <1>3 DEF PlansTaken
<1>5. On(i, r, 1, type) /\ OnAny(i, r, 1)
  BY <1>2, <1>3 DEF On, OnAny
<1>6. \A j \in Plans, p \in Ranks : \A n \in Nat : \A t :
         On(j, p, n, t)' <=> n > 0 /\ On(j, p, IF Owner[j] = q /\ p = r THEN n + 1 ELSE n, t)
  BY PopOn
<1>7. \A j \in Plans, p \in Ranks : \A n, t : On(j, p, n, t) => n \in Nat /\ n > 0
  BY OnFacts
<1>8. \A j \in Plans, p \in Ranks : ~(Owner[j] = q /\ p = r) => \A n \in Nat : \A t :
         On(j, p, n, t)' <=> On(j, p, n, t)
  BY <1>6, <1>7
<1>9. \A j \in Plans : Owner[j] = q => \A n \in Nat : \A t :
         On(j, r, n, t)' <=> n > 0 /\ On(j, r, n + 1, t)
  BY <1>6
<1>10. ASSUME NEW j \in Plans, Owner[j] = q, NEW n \in Nat, NEW t, On(j, r, n, t)
       PROVE  \/ n = 1 /\ j = i /\ t = type
              \/ n - 1 \in Nat /\ n - 1 > 0 /\ On(j, r, n - 1, t)'
  <2>1. CASE n = 1
    BY <1>10, <2>1 DEF On
  <2>2. CASE n # 1
    <3>1. n - 1 \in Nat /\ n - 1 > 0 /\ (n - 1) + 1 = n
      BY <1>7, <1>10, <2>2
    <3>2. On(j, r, n - 1, t)' <=> n - 1 > 0 /\ On(j, r, (n - 1) + 1, t)
      BY <1>9, <1>10, <3>1
    <3> QED BY <1>10, <3>1, <3>2
  <2> QED BY <2>1, <2>2
<1>11. ASSUME NEW j \in Plans, NEW p \in Ranks, NEW t
       PROVE  /\ OnItsWay(j, p, t)' => OnItsWay(j, p, t) /\ \E n \in Nat : On(j, p, n, t)'
              /\ OnItsWay(j, p, t) /\ ~(j = i /\ p = r /\ t = type) => OnItsWay(j, p, t)'
  <2>2. OnItsWay(j, p, t) <=> \E n \in Nat : On(j, p, n, t)
    BY OnFacts
  <2>3. OnItsWay(j, p, t)' <=> \E n \in Nat : On(j, p, n, t)'
    <3>1. ctrl' \in [Ranks -> [Ranks -> Seq(Message)]] /\ Owner[j] \in Ranks
      BY PopOn, PlanFacts
    <3>2. Len(ctrl'[Owner[j]][p]) \in Nat
      BY <3>1
    <3> QED BY <3>2 DEF OnItsWay, On
  <2>4. CASE Owner[j] = q /\ p = r
    <3>1. (\E n \in Nat : On(j, p, n, t)') => \E n \in Nat : On(j, p, n, t)
      <4> SUFFICES ASSUME NEW n \in Nat, On(j, p, n, t)' PROVE \E k \in Nat : On(j, p, k, t)
        OBVIOUS
      <4>1. n + 1 \in Nat /\ On(j, p, n + 1, t)
        BY <2>4, <1>9
      <4> QED BY <4>1
    <3>2. ASSUME NEW n \in Nat, On(j, p, n, t), ~(j = i /\ p = r /\ t = type)
          PROVE  \E k \in Nat : On(j, p, k, t)'
      <4>1. n - 1 \in Nat /\ On(j, p, n - 1, t)'
        BY <2>4, <1>10, <3>2
      <4> QED BY <4>1
    <3> QED BY <2>2, <2>3, <3>1, <3>2
  <2>5. CASE ~(Owner[j] = q /\ p = r)
    BY <1>8, <2>2, <2>3, <2>5
  <2> QED BY <2>4, <2>5
<1> QED BY <1>2, <1>3, <1>4, <1>5, <1>8, <1>9, <1>10, <1>11 DEF Front, Shifts

LEMMA PopMessages ==
    ASSUME TypeInv, CtrlInv, NEW q \in Ranks, NEW r \in Ranks, ctrl[q][r] # <<>>,
           ctrl' = [ctrl EXCEPT ![q][r] = Tail(@)], UNCHANGED <<plan, batch, batches>>
    PROVE  MessagesRight' /\ MessagesOrdered' /\ BatchesHeld'
<1>1. MessagesRight /\ MessagesOrdered /\ BatchesHeld /\ TypeOK
  BY DEF CtrlInv, TypeInv
<1>2. MessagesRight'
  <2> SUFFICES ASSUME NEW o \in Ranks, NEW p \in Ranks, NEW n \in 1 .. Len(ctrl'[o][p])
               PROVE  LET m == ctrl'[o][p][n] IN
                      /\ Owner[m.plan] = o /\ p \in Receivers(m.plan) /\ plan[m.plan] # "none"
                      /\ m.type = "execute" <=> m.plan \in Once
                      /\ m.plan \notin Once => m.batch = batch[m.plan][p]
                      /\ m.type = "destroy" => plan[m.plan] = "gone"
    BY DEF MessagesRight
  <2>1. \E k \in 1 .. Len(ctrl[o][p]) : ctrl'[o][p][n] = ctrl[o][p][k]
    <3>1. CASE o = q /\ p = r
      BY <1>1, <3>1, PopOn
    <3>2. CASE o # q \/ p # r
      BY <1>1, <3>2, PopOn
    <3> QED BY <3>1, <3>2
  <2> QED BY <1>1, <2>1 DEF MessagesRight
<1>3. \A j \in Plans, p \in Ranks : \A n \in Nat :
         OnAny(j, p, n)' <=> n > 0 /\ OnAny(j, p, IF Owner[j] = q /\ p = r THEN n + 1 ELSE n)
  BY <1>1, PopOn
<1>4. \A j \in Plans, p \in Ranks : \A n \in Nat : \A t :
         On(j, p, n, t)' <=> n > 0 /\ On(j, p, IF Owner[j] = q /\ p = r THEN n + 1 ELSE n, t)
  BY <1>1, PopOn
<1>5. MessagesOrdered'
  <2> SUFFICES ASSUME NEW j \in Plans, NEW p \in Receivers(j), NEW n \in Nat, NEW m \in Nat,
                      OnAny(j, p, m)', n # m
               PROVE  /\ On(j, p, n, "create")' => n < m
                      /\ On(j, p, n, "destroy")' => m < n
                      /\ ~On(j, p, n, "execute")'
    BY DEF MessagesOrdered
  <2>1. p \in Ranks
    BY PlanFacts
  <2> DEFINE sh(k) == IF Owner[j] = q /\ p = r THEN k + 1 ELSE k
  <2>2. /\ OnAny(j, p, sh(m)) /\ sh(n) \in Nat /\ sh(m) \in Nat /\ sh(n) # sh(m)
        /\ \A t : On(j, p, n, t)' => On(j, p, sh(n), t)
        /\ sh(n) < sh(m) => n < m
        /\ sh(m) < sh(n) => m < n
    <3>1. /\ OnAny(j, p, n)' <=> n > 0 /\ OnAny(j, p, sh(n))
          /\ OnAny(j, p, m)' <=> m > 0 /\ OnAny(j, p, sh(m))
          /\ \A t : On(j, p, n, t)' <=> n > 0 /\ On(j, p, sh(n), t)
      BY <1>3, <1>4, <2>1
    <3>2. /\ sh(n) \in Nat /\ sh(m) \in Nat /\ sh(n) # sh(m)
          /\ sh(n) < sh(m) => n < m
          /\ sh(m) < sh(n) => m < n
      OBVIOUS
    <3> HIDE DEF sh
    <3> QED BY <3>1, <3>2
  <2> HIDE DEF sh
  <2> QED BY <1>1, <2>2 DEF MessagesOrdered
<1>6. BatchesHeld'
  BY <1>1 DEF BatchesHeld, SameSlot
<1> QED BY <1>2, <1>5, <1>6

\* The daemon has read a start or an execute message: no slot changes.
LEMMA PopOther ==
    ASSUME TypeInv, CtrlInv, NEW q \in Ranks, NEW r \in Ranks, NEW i, NEW type,
           ctrl[q][r] # <<>>, ctrl' = [ctrl EXCEPT ![q][r] = Tail(@)],
           Front(q, r, i, type), Shifts(q, r, i, type),
           type \in {"start", "execute"}, UNCHANGED <<plan, batch, batches, slot>>
    PROVE  CtrlInv'
<1>1. /\ \A j \in Plans, p \in Ranks : ~(Owner[j] = q /\ p = r) => \A n \in Nat : \A t :
            On(j, p, n, t)' <=> On(j, p, n, t)
      /\ \A j \in Plans : Owner[j] = q => \A n \in Nat : \A t :
            On(j, r, n, t)' <=> n > 0 /\ On(j, r, n + 1, t)
      /\ \A j \in Plans : Owner[j] = q => \A n \in Nat : \A t : On(j, r, n, t) =>
            \/ n = 1 /\ j = i /\ t = type
            \/ n - 1 \in Nat /\ n - 1 > 0 /\ On(j, r, n - 1, t)'
      /\ \A j \in Plans, p \in Ranks : \A t :
            /\ OnItsWay(j, p, t)' => OnItsWay(j, p, t)
            /\ OnItsWay(j, p, t) /\ ~(j = i /\ p = r /\ t = type) => OnItsWay(j, p, t)'
  BY DEF Shifts
<1>2. type # "create" /\ type # "destroy"
  OBVIOUS
<1>3. /\ SlotsRight /\ MessagesMeet /\ SlotsReused /\ TypeOK
  BY DEF CtrlInv, TypeInv
<1>4. \A j \in Plans, p \in Ranks : /\ OnItsWay(j, p, "create")' <=> OnItsWay(j, p, "create")
                                    /\ OnItsWay(j, p, "destroy")' <=> OnItsWay(j, p, "destroy")
  BY <1>1, <1>2
<1>5. \A j \in Plans, p \in Ranks : HoldsSlot(j, p)' <=> HoldsSlot(j, p)
  BY DEF HoldsSlot
<1>6. SlotsRight'
  <2>1. \A o, p \in Ranks, c \in Ids : slot[p][o][c] \in Plans \cup {None}
    BY <1>3 DEF TypeOK
  <2> SUFFICES ASSUME NEW o \in Ranks, NEW p \in Ranks, NEW c \in Ids,
                      NEW j \in Plans, j = slot[p][o][c], j # None
               PROVE  /\ Owner[j] = o /\ j \notin Once /\ p \in Receivers(j) /\ batch[j][p] = c
                      /\ plan[j] # "none"
                      /\ ~OnItsWay(j, p, "create")'
                      /\ plan[j] = "gone" => OnItsWay(j, p, "destroy")'
    BY <2>1 DEF SlotsRight
  <2>2. /\ Owner[j] = o /\ j \notin Once /\ p \in Receivers(j) /\ batch[j][p] = c
        /\ plan[j] # "none" /\ ~OnItsWay(j, p, "create")
        /\ plan[j] = "gone" => OnItsWay(j, p, "destroy")
    BY <1>3 DEF SlotsRight
  <2> QED BY <1>4, <2>2
<1>7. MessagesMeet'
  <2> SUFFICES ASSUME NEW j \in Plans \ Once, NEW p \in Receivers(j)
               PROVE  /\ plan[j] = "ready" => HoldsSlot(j, p)' \/ OnItsWay(j, p, "create")'
                      /\ plan[j] = "gone" /\ OnItsWay(j, p, "create")' => OnItsWay(j, p, "destroy")'
                      /\ \A n \in Nat : On(j, p, n, "start")' \/ On(j, p, n, "destroy")' =>
                            HoldsSlot(j, p)' \/ \E m \in Nat : m < n /\ On(j, p, m, "create")'
    BY DEF MessagesMeet
  <2>1. p \in Ranks /\ j \in Plans
    BY PlanFacts
  <2>2. ASSUME NEW n \in Nat, On(j, p, n, "start")' \/ On(j, p, n, "destroy")', ~HoldsSlot(j, p)
        PROVE  \E m \in Nat : m < n /\ On(j, p, m, "create")'
    <3>1. CASE Owner[j] = q /\ p = r
      <4>1. n + 1 \in Nat /\ (On(j, p, n + 1, "start") \/ On(j, p, n + 1, "destroy"))
        BY <1>1, <2>2, <3>1
      <4>2. PICK m \in Nat : m < n + 1 /\ On(j, p, m, "create")
        BY <1>3, <2>2, <4>1 DEF MessagesMeet
      <4>3. m - 1 \in Nat /\ On(j, p, m - 1, "create")'
        BY <1>1, <1>2, <3>1, <4>2
      <4> QED BY <4>2, <4>3
    <3>2. CASE ~(Owner[j] = q /\ p = r)
      BY <1>1, <1>3, <2>1, <2>2, <3>2 DEF MessagesMeet
    <3> QED BY <3>1, <3>2
  <2> QED BY <1>3, <1>4, <1>5, <2>1, <2>2 DEF MessagesMeet
<1>8. SlotsReused'
  <2> SUFFICES ASSUME NEW x \in Plans, NEW y \in Plans, NEW p \in Ranks, SameSlot(x, y, p),
                      NEW n \in Nat, On(y, p, n, "create")'
               PROVE  /\ HoldsSlot(x, p) => \E m \in Nat : m < n /\ On(x, p, m, "destroy")'
                      /\ \A k \in Nat : On(x, p, k, "create")' /\ k < n =>
                            \E m \in Nat : k < m /\ m < n /\ On(x, p, m, "destroy")'
    BY <1>5 DEF SlotsReused, SameSlot
  <2>1. Owner[x] = Owner[y]
    BY DEF SameSlot
  <2>2. CASE Owner[x] = q /\ p = r
    <3>1. n + 1 \in Nat /\ On(y, p, n + 1, "create")
      <4>1. Owner[y] = q /\ On(y, r, n, "create")'
        BY <2>1, <2>2
      <4> QED BY <1>1, <2>2, <4>1
    <3>2. ASSUME HoldsSlot(x, p) PROVE \E m \in Nat : m < n /\ On(x, p, m, "destroy")'
      <4>1. PICK m \in Nat : m < n + 1 /\ On(x, p, m, "destroy")
        BY <1>3, <3>1, <3>2 DEF SlotsReused
      <4>2. m - 1 \in Nat /\ On(x, p, m - 1, "destroy")'
        BY <1>1, <1>2, <2>2, <4>1
      <4> QED BY <4>1, <4>2
    <3>3. ASSUME NEW k \in Nat, On(x, p, k, "create")', k < n
          PROVE  \E m \in Nat : k < m /\ m < n /\ On(x, p, m, "destroy")'
      <4>1. k + 1 \in Nat /\ k + 1 < n + 1 /\ On(x, p, k + 1, "create")
        BY <1>1, <2>2, <3>3
      <4>2. PICK m \in Nat : k + 1 < m /\ m < n + 1 /\ On(x, p, m, "destroy")
        BY <1>3, <3>1, <4>1 DEF SlotsReused
      <4>3. m - 1 \in Nat /\ On(x, p, m - 1, "destroy")'
        BY <1>1, <1>2, <2>2, <4>2
      <4> QED BY <4>2, <4>3
    <3> QED BY <3>2, <3>3
  <2>3. CASE ~(Owner[x] = q /\ p = r)
    BY <1>1, <1>3, <2>1, <2>3 DEF SlotsReused
  <2> QED BY <2>2, <2>3
<1> QED BY <1>6, <1>7, <1>8, PopMessages DEF CtrlInv

\* The daemon has read a create message: the slot was free.
LEMMA PopCreate ==
    ASSUME TypeInv, CtrlInv, NEW q \in Ranks, NEW r \in Ranks, NEW i,
           ctrl[q][r] # <<>>, ctrl' = [ctrl EXCEPT ![q][r] = Tail(@)],
           Front(q, r, i, "create"), Shifts(q, r, i, "create"),
           slot' = [slot EXCEPT ![r][q][batch[i][r]] = i], UNCHANGED <<plan, batch, batches>>
    PROVE  CtrlInv' /\ slot[r][q][batch[i][r]] = None
<1> DEFINE b == batch[i][r]
<1>1. /\ \A j \in Plans, p \in Ranks : ~(Owner[j] = q /\ p = r) => \A n \in Nat : \A t :
            On(j, p, n, t)' <=> On(j, p, n, t)
      /\ \A j \in Plans : Owner[j] = q => \A n \in Nat : \A t :
            On(j, r, n, t)' <=> n > 0 /\ On(j, r, n + 1, t)
      /\ \A j \in Plans : Owner[j] = q => \A n \in Nat : \A t : On(j, r, n, t) =>
            \/ n = 1 /\ j = i /\ t = "create"
            \/ n - 1 \in Nat /\ n - 1 > 0 /\ On(j, r, n - 1, t)'
      /\ \A j \in Plans, p \in Ranks : \A t :
            /\ OnItsWay(j, p, t)' => OnItsWay(j, p, t)
            /\ OnItsWay(j, p, t) /\ ~(j = i /\ p = r /\ t = "create") => OnItsWay(j, p, t)'
  BY DEF Shifts
<1>2. /\ i \in Plans /\ i \notin Once /\ Owner[i] = q /\ r \in Receivers(i) /\ plan[i] # "none"
      /\ On(i, r, 1, "create") /\ OnAny(i, r, 1) /\ b \in Ids /\ i # None
  BY ChannelAssumption DEF Front
<1>3. /\ MessagesRight /\ MessagesOrdered /\ SlotsRight
      /\ MessagesMeet /\ SlotsReused /\ TypeOK /\ PlansTaken
  BY DEF CtrlInv, TypeInv, Taken
<1>4. /\ slot \in [Ranks -> [Ranks -> [Ids -> Plans \cup {None}]]]
      /\ slot'[r][q][b] = i
      /\ \A o, p \in Ranks, c \in Ids : ~(p = r /\ o = q /\ c = b) => slot'[p][o][c] = slot[p][o][c]
  <2>1. slot \in [Ranks -> [Ranks -> [Ids -> Plans \cup {None}]]] /\ b \in Ids
    BY <1>2, <1>3 DEF TypeOK
  <2>2. slot' = [slot EXCEPT ![r][q][b] = i]
    OBVIOUS
  <2> HIDE DEF b
  <2> QED BY <2>1, <2>2
<1> HIDE DEF b
<1>5. slot[r][q][b] = None
  <2> SUFFICES ASSUME NEW j \in Plans, slot[r][q][b] = j PROVE FALSE
    BY <1>2, <1>4
  <2>1. /\ j # None /\ Owner[j] = q /\ j \notin Once /\ r \in Receivers(j) /\ batch[j][r] = b
        /\ ~OnItsWay(j, r, "create")
    BY <1>2, <1>3, ChannelAssumption DEF SlotsRight
  <2>2. OnItsWay(i, r, "create")
    BY <1>2, <1>3, OnFacts
  <2>3. SameSlot(j, i, r) /\ HoldsSlot(j, r)
    BY <1>2, <2>1, <2>2 DEF SameSlot, HoldsSlot, b
  <2>4. PICK m \in Nat : m < 1 /\ On(j, r, m, "destroy")
    BY <1>2, <1>3, <2>3 DEF SlotsReused
  <2> QED BY <1>3, <2>4, OnFacts
<1>6. \A j \in Plans, p \in Ranks : batch[j][p] \in Ids =>
         (HoldsSlot(j, p)' <=> HoldsSlot(j, p) \/ (j = i /\ p = r))
  <2> SUFFICES ASSUME NEW j \in Plans, NEW p \in Ranks, batch[j][p] \in Ids
               PROVE  slot'[p][Owner[j]][batch[j][p]] = j <=>
                         slot[p][Owner[j]][batch[j][p]] = j \/ (j = i /\ p = r)
    BY DEF HoldsSlot
  <2>1. Owner[j] \in Ranks /\ j # None
    BY PlanFacts, ChannelAssumption
  <2> QED BY <1>2, <1>4, <1>5, <2>1 DEF b
<1>7. \A j \in Plans, p \in Ranks : /\ OnItsWay(j, p, "destroy")' <=> OnItsWay(j, p, "destroy")
                                    /\ ~OnItsWay(j, p, "create") => ~OnItsWay(j, p, "create")'
  BY <1>1
<1>8. ~OnItsWay(i, r, "create")'
  <2> SUFFICES ASSUME NEW n \in Nat, On(i, r, n, "create")' PROVE FALSE
    <3>1. ctrl' \in [Ranks -> [Ranks -> Seq(Message)]]
      BY <1>3, PopOn
    <3>2. Len(ctrl'[q][r]) \in Nat
      BY <3>1
    <3> QED BY <1>2, <3>2 DEF OnItsWay, On
  <2>1. n > 0 /\ On(i, r, n + 1, "create")
    BY <1>1, <1>2
  <2>2. n + 1 # 1 /\ n + 1 \in Nat
    BY <2>1
  <2>3. n + 1 < 1
    BY <1>2, <1>3, <2>1, <2>2 DEF MessagesOrdered
  <2> QED BY <2>3
<1>9. plan[i] = "gone" => OnItsWay(i, r, "destroy")
  <2>1. OnItsWay(i, r, "create")
    BY <1>2, <1>3, OnFacts
  <2> QED BY <1>2, <1>3, <2>1 DEF MessagesMeet
<1>10. SlotsRight'
  <2> SUFFICES ASSUME NEW o \in Ranks, NEW p \in Ranks, NEW c \in Ids,
                      NEW j \in Plans, j = slot'[p][o][c], j # None
               PROVE  /\ Owner[j] = o /\ j \notin Once /\ p \in Receivers(j) /\ batch[j][p] = c
                      /\ plan[j] # "none"
                      /\ ~OnItsWay(j, p, "create")'
                      /\ plan[j] = "gone" => OnItsWay(j, p, "destroy")'
    <3>1. \A o, p \in Ranks, c \in Ids : slot'[p][o][c] \in Plans \cup {None}
      BY <1>2, <1>4
    <3> QED BY <3>1 DEF SlotsRight
  <2>1. CASE p = r /\ o = q /\ c = b
    BY <2>1, <1>2, <1>4, <1>7, <1>8, <1>9 DEF b
  <2>2. CASE ~(p = r /\ o = q /\ c = b)
    <3>1. j = slot[p][o][c] /\ j \in Plans
      BY <1>4, <2>2
    <3>2. /\ Owner[j] = o /\ j \notin Once /\ p \in Receivers(j) /\ batch[j][p] = c
          /\ plan[j] # "none" /\ ~OnItsWay(j, p, "create")
          /\ plan[j] = "gone" => OnItsWay(j, p, "destroy")
      BY <1>3, <3>1 DEF SlotsRight
    <3> QED BY <1>7, <3>1, <3>2
  <2> QED BY <2>1, <2>2
<1>11. MessagesMeet'
  <2> SUFFICES ASSUME NEW j \in Plans \ Once, NEW p \in Receivers(j)
               PROVE  /\ plan[j] = "ready" => HoldsSlot(j, p)' \/ OnItsWay(j, p, "create")'
                      /\ plan[j] = "gone" /\ OnItsWay(j, p, "create")' => OnItsWay(j, p, "destroy")'
                      /\ \A n \in Nat : On(j, p, n, "start")' \/ On(j, p, n, "destroy")' =>
                            HoldsSlot(j, p)' \/ \E m \in Nat : m < n /\ On(j, p, m, "create")'
    BY DEF MessagesMeet
  <2>1. p \in Ranks /\ j \in Plans
    BY PlanFacts
  <2>2. plan[j] # "none" => batch[j][p] \in Ids
    BY <1>3 DEF PlansTaken
  <2>3. ASSUME NEW n \in Nat, On(j, p, n, "start")' \/ On(j, p, n, "destroy")', ~HoldsSlot(j, p)'
        PROVE  \E m \in Nat : m < n /\ On(j, p, m, "create")'
    <3>1. CASE Owner[j] = q /\ p = r
      <4>1. n + 1 \in Nat /\ (On(j, p, n + 1, "start") \/ On(j, p, n + 1, "destroy"))
        BY <1>1, <2>3, <3>1
      <4>2. ~HoldsSlot(j, p) /\ j # i
        <5>1. plan[j] # "none"
          BY <1>3, <2>1, <4>1, OnRight
        <5> QED BY <1>6, <2>1, <2>2, <2>3, <3>1, <5>1
      <4>3. PICK m \in Nat : m < n + 1 /\ On(j, p, m, "create")
        BY <1>3, <4>1, <4>2 DEF MessagesMeet
      <4>4. m - 1 \in Nat /\ On(j, p, m - 1, "create")'
        BY <1>1, <3>1, <4>2, <4>3
      <4> QED BY <4>3, <4>4
    <3>2. CASE ~(Owner[j] = q /\ p = r)
      <4>1. On(j, p, n, "start") \/ On(j, p, n, "destroy")
        BY <1>1, <2>1, <2>3, <3>2
      <4>2. plan[j] # "none"
        BY <1>3, <2>1, <4>1, OnRight
      <4>3. ~HoldsSlot(j, p)
        BY <1>6, <2>1, <2>2, <2>3, <4>2
      <4>4. PICK m \in Nat : m < n /\ On(j, p, m, "create")
        BY <1>3, <4>1, <4>3 DEF MessagesMeet
      <4> QED BY <1>1, <2>1, <3>2, <4>4
    <3> QED BY <3>1, <3>2
  <2>4. plan[j] = "ready" => HoldsSlot(j, p)' \/ OnItsWay(j, p, "create")'
    <3> SUFFICES ASSUME plan[j] = "ready" PROVE HoldsSlot(j, p)' \/ OnItsWay(j, p, "create")'
      OBVIOUS
    <3>1. HoldsSlot(j, p) \/ OnItsWay(j, p, "create")
      BY <1>3 DEF MessagesMeet
    <3> QED BY <1>1, <1>6, <2>1, <2>2, <3>1
  <2>5. plan[j] = "gone" /\ OnItsWay(j, p, "create")' => OnItsWay(j, p, "destroy")'
    BY <1>3, <1>7, <2>1 DEF MessagesMeet
  <2> QED BY <2>3, <2>4, <2>5
<1>12. SlotsReused'
  <2> SUFFICES ASSUME NEW x \in Plans, NEW y \in Plans, NEW p \in Ranks, SameSlot(x, y, p),
                      NEW n \in Nat, On(y, p, n, "create")'
               PROVE  /\ HoldsSlot(x, p)' => \E m \in Nat : m < n /\ On(x, p, m, "destroy")'
                      /\ \A k \in Nat : On(x, p, k, "create")' /\ k < n =>
                            \E m \in Nat : k < m /\ m < n /\ On(x, p, m, "destroy")'
    BY DEF SlotsReused, SameSlot
  <2>1. Owner[x] = Owner[y] /\ batch[x][p] = batch[y][p] /\ y \notin Once /\ p \in Receivers(y)
    BY DEF SameSlot
  <2>2. CASE Owner[x] = q /\ p = r
    <3>1. n + 1 \in Nat /\ On(y, p, n + 1, "create")
      <4>1. Owner[y] = q /\ On(y, r, n, "create")'
        BY <2>1, <2>2
      <4> QED BY <1>1, <2>2, <4>1
    <3>2. batch[x][p] \in Ids
      <4>1. plan[y] # "none"
        BY <1>3, <3>1, OnRight
      <4> QED BY <1>3, <2>1, <4>1 DEF PlansTaken
    <3>3. ASSUME HoldsSlot(x, p)' PROVE \E m \in Nat : m < n /\ On(x, p, m, "destroy")'
      <4>1. HoldsSlot(x, p) \/ x = i
        BY <1>6, <3>2, <3>3
      <4>2. CASE HoldsSlot(x, p)
        <5>1. PICK m \in Nat : m < n + 1 /\ On(x, p, m, "destroy")
          BY <1>3, <3>1, <4>2 DEF SlotsReused
        <5>2. m - 1 \in Nat /\ On(x, p, m - 1, "destroy")'
          BY <1>1, <2>2, <5>1
        <5> QED BY <5>1, <5>2
      <4>3. CASE x = i
        <5>1. 1 < n + 1 /\ On(x, p, 1, "create")
          <6>1. n > 0
            BY <1>1, <2>1, <2>2
          <6> QED BY <1>2, <2>2, <4>3, <6>1
        <5>2. PICK m \in Nat : 1 < m /\ m < n + 1 /\ On(x, p, m, "destroy")
          BY <1>3, <3>1, <5>1 DEF SlotsReused
        <5>3. m - 1 \in Nat /\ On(x, p, m - 1, "destroy")'
          BY <1>1, <2>2, <5>2
        <5> QED BY <5>2, <5>3
      <4> QED BY <4>1, <4>2, <4>3
    <3>4. ASSUME NEW k \in Nat, On(x, p, k, "create")', k < n
          PROVE  \E m \in Nat : k < m /\ m < n /\ On(x, p, m, "destroy")'
      <4>1. k + 1 \in Nat /\ k + 1 < n + 1 /\ On(x, p, k + 1, "create")
        BY <1>1, <2>2, <3>4
      <4>2. PICK m \in Nat : k + 1 < m /\ m < n + 1 /\ On(x, p, m, "destroy")
        BY <1>3, <3>1, <4>1 DEF SlotsReused
      <4>3. m - 1 \in Nat /\ On(x, p, m - 1, "destroy")'
        BY <1>1, <2>2, <4>2
      <4> QED BY <4>2, <4>3
    <3> QED BY <3>3, <3>4
  <2>3. CASE ~(Owner[x] = q /\ p = r)
    <3>1. On(y, p, n, "create")
      BY <1>1, <2>1, <2>3
    <3>2. batch[x][p] \in Ids
      <4>1. plan[y] # "none"
        BY <1>3, <3>1, OnRight
      <4> QED BY <1>3, <2>1, <4>1 DEF PlansTaken
    <3>3. HoldsSlot(x, p)' => HoldsSlot(x, p)
      BY <1>2, <1>6, <2>3, <3>2
    <3> QED BY <1>1, <1>3, <2>3, <3>1, <3>3 DEF SlotsReused
  <2> QED BY <2>2, <2>3
<1> QED BY <1>5, <1>10, <1>11, <1>12, PopMessages DEF CtrlInv, b

\* The daemon has read a destroy message: the slot held the plan.
LEMMA PopDestroy ==
    ASSUME TypeInv, CtrlInv, NEW q \in Ranks, NEW r \in Ranks, NEW i,
           ctrl[q][r] # <<>>, ctrl' = [ctrl EXCEPT ![q][r] = Tail(@)],
           Front(q, r, i, "destroy"), Shifts(q, r, i, "destroy"),
           slot' = [slot EXCEPT ![r][q][batch[i][r]] = None], UNCHANGED <<plan, batch, batches>>
    PROVE  CtrlInv' /\ slot[r][q][batch[i][r]] = i
<1> DEFINE b == batch[i][r]
<1>1. /\ \A j \in Plans, p \in Ranks : ~(Owner[j] = q /\ p = r) => \A n \in Nat : \A t :
            On(j, p, n, t)' <=> On(j, p, n, t)
      /\ \A j \in Plans : Owner[j] = q => \A n \in Nat : \A t :
            On(j, r, n, t)' <=> n > 0 /\ On(j, r, n + 1, t)
      /\ \A j \in Plans : Owner[j] = q => \A n \in Nat : \A t : On(j, r, n, t) =>
            \/ n = 1 /\ j = i /\ t = "destroy"
            \/ n - 1 \in Nat /\ n - 1 > 0 /\ On(j, r, n - 1, t)'
      /\ \A j \in Plans, p \in Ranks : \A t :
            /\ OnItsWay(j, p, t)' => OnItsWay(j, p, t)
            /\ OnItsWay(j, p, t) /\ ~(j = i /\ p = r /\ t = "destroy") => OnItsWay(j, p, t)'
  BY DEF Shifts
<1>2. /\ i \in Plans /\ i \notin Once /\ Owner[i] = q /\ r \in Receivers(i) /\ plan[i] = "gone"
      /\ On(i, r, 1, "destroy") /\ OnAny(i, r, 1) /\ b \in Ids /\ i # None
  BY ChannelAssumption DEF Front
<1>3. /\ MessagesRight /\ MessagesOrdered /\ SlotsRight
      /\ MessagesMeet /\ SlotsReused /\ TypeOK /\ PlansTaken
  BY DEF CtrlInv, TypeInv, Taken
<1>4. /\ slot \in [Ranks -> [Ranks -> [Ids -> Plans \cup {None}]]]
      /\ slot'[r][q][b] = None
      /\ \A o, p \in Ranks, c \in Ids : ~(p = r /\ o = q /\ c = b) => slot'[p][o][c] = slot[p][o][c]
  <2>1. slot \in [Ranks -> [Ranks -> [Ids -> Plans \cup {None}]]] /\ b \in Ids
    BY <1>2, <1>3 DEF TypeOK
  <2>2. slot' = [slot EXCEPT ![r][q][b] = None]
    OBVIOUS
  <2> HIDE DEF b
  <2> QED BY <2>1, <2>2
<1>5. HoldsSlot(i, r)
  <2>1. ~\E m \in Nat : m < 1 /\ On(i, r, m, "create")
    BY <1>2, <1>3, OnFacts
  <2> QED BY <1>2, <1>3, <2>1 DEF MessagesMeet
<1>6. \A n \in Nat : \A t : ~On(i, r, n, t)'
  <2> SUFFICES ASSUME NEW n \in Nat, NEW t, On(i, r, n, t)' PROVE FALSE
    OBVIOUS
  <2>1. n > 0 /\ On(i, r, n + 1, t)
    BY <1>1, <1>2
  <2>2. n + 1 # 1 /\ n + 1 \in Nat /\ OnAny(i, r, n + 1)
    BY <1>2, <1>3, <2>1, OnFacts
  <2>3. n + 1 < 1
    BY <1>2, <1>3, <2>2 DEF MessagesOrdered
  <2> QED BY <2>3
<1> HIDE DEF b
<1>7. \A j \in Plans, p \in Ranks : batch[j][p] \in Ids =>
         (HoldsSlot(j, p)' <=> HoldsSlot(j, p) /\ ~(j = i /\ p = r))
  <2> SUFFICES ASSUME NEW j \in Plans, NEW p \in Ranks, batch[j][p] \in Ids
               PROVE  slot'[p][Owner[j]][batch[j][p]] = j <=>
                         slot[p][Owner[j]][batch[j][p]] = j /\ ~(j = i /\ p = r)
    BY DEF HoldsSlot
  <2>1. Owner[j] \in Ranks /\ j # None /\ slot[r][q][b] = i
    BY <1>2, <1>5, PlanFacts, ChannelAssumption DEF HoldsSlot, b
  <2> QED BY <1>2, <1>4, <2>1 DEF b
<1>8. \A j \in Plans, p \in Ranks :
         /\ OnItsWay(j, p, "create")' <=> OnItsWay(j, p, "create")
         /\ OnItsWay(j, p, "destroy") /\ ~(j = i /\ p = r) => OnItsWay(j, p, "destroy")'
  BY <1>1
<1>9. ~OnItsWay(i, r, "create")
  <2> SUFFICES ASSUME NEW n \in Nat, On(i, r, n, "create") PROVE FALSE
    BY <1>2, <1>3, OnFacts
  <2>1. n # 1
    BY <1>2, <1>3, OnFacts
  <2>2. n < 1 /\ n > 0
    BY <1>2, <1>3, <2>1, OnFacts DEF MessagesOrdered
  <2> QED BY <2>2
<1>10. SlotsRight'
  <2> SUFFICES ASSUME NEW o \in Ranks, NEW p \in Ranks, NEW c \in Ids,
                      NEW j \in Plans, j = slot'[p][o][c], j # None
               PROVE  /\ Owner[j] = o /\ j \notin Once /\ p \in Receivers(j) /\ batch[j][p] = c
                      /\ plan[j] # "none"
                      /\ ~OnItsWay(j, p, "create")'
                      /\ plan[j] = "gone" => OnItsWay(j, p, "destroy")'
    <3>1. \A o, p \in Ranks, c \in Ids : slot'[p][o][c] \in Plans \cup {None}
      BY <1>2, <1>4
    <3> QED BY <3>1 DEF SlotsRight
  <2>1. ~(p = r /\ o = q /\ c = b)
    BY <1>4
  <2>2. j = slot[p][o][c]
    BY <1>4, <2>1
  <2>3. /\ Owner[j] = o /\ j \notin Once /\ p \in Receivers(j) /\ batch[j][p] = c
        /\ plan[j] # "none" /\ ~OnItsWay(j, p, "create")
        /\ plan[j] = "gone" => OnItsWay(j, p, "destroy")
    BY <1>3, <2>2 DEF SlotsRight
  <2>4. ~(j = i /\ p = r)
    BY <1>2, <2>1, <2>3 DEF b
  <2> QED BY <1>8, <2>3, <2>4
<1>11. MessagesMeet'
  <2> SUFFICES ASSUME NEW j \in Plans \ Once, NEW p \in Receivers(j)
               PROVE  /\ plan[j] = "ready" => HoldsSlot(j, p)' \/ OnItsWay(j, p, "create")'
                      /\ plan[j] = "gone" /\ OnItsWay(j, p, "create")' => OnItsWay(j, p, "destroy")'
                      /\ \A n \in Nat : On(j, p, n, "start")' \/ On(j, p, n, "destroy")' =>
                            HoldsSlot(j, p)' \/ \E m \in Nat : m < n /\ On(j, p, m, "create")'
    BY DEF MessagesMeet
  <2>1. p \in Ranks /\ j \in Plans
    BY PlanFacts
  <2>2. plan[j] # "none" => batch[j][p] \in Ids
    BY <1>3 DEF PlansTaken
  <2>3. CASE j = i /\ p = r
    BY <1>2, <1>6, <1>8, <1>9, <2>3
  <2>4. CASE ~(j = i /\ p = r)
    <3>1. plan[j] # "none" => (HoldsSlot(j, p)' <=> HoldsSlot(j, p))
      BY <1>7, <2>1, <2>2, <2>4
    <3>2. ASSUME NEW n \in Nat, On(j, p, n, "start")' \/ On(j, p, n, "destroy")', ~HoldsSlot(j, p)'
          PROVE  \E m \in Nat : m < n /\ On(j, p, m, "create")'
      <4>1. CASE Owner[j] = q /\ p = r
        <5>1. n + 1 \in Nat /\ (On(j, p, n + 1, "start") \/ On(j, p, n + 1, "destroy"))
          BY <1>1, <3>2, <4>1
        <5>2. ~HoldsSlot(j, p)
          <6>1. plan[j] # "none"
            BY <1>3, <2>1, <5>1, OnRight
          <6> QED BY <3>1, <3>2, <6>1
        <5>3. PICK m \in Nat : m < n + 1 /\ On(j, p, m, "create")
          BY <1>3, <5>1, <5>2 DEF MessagesMeet
        <5>4. m - 1 \in Nat /\ On(j, p, m - 1, "create")'
          BY <1>1, <4>1, <5>3
        <5> QED BY <5>3, <5>4
      <4>2. CASE ~(Owner[j] = q /\ p = r)
        <5>1. On(j, p, n, "start") \/ On(j, p, n, "destroy")
          BY <1>1, <2>1, <3>2, <4>2
        <5>2. ~HoldsSlot(j, p)
          <6>1. plan[j] # "none"
            BY <1>3, <2>1, <5>1, OnRight
          <6> QED BY <3>1, <3>2, <6>1
        <5>3. PICK m \in Nat : m < n /\ On(j, p, m, "create")
          BY <1>3, <5>1, <5>2 DEF MessagesMeet
        <5> QED BY <1>1, <2>1, <4>2, <5>3
      <4> QED BY <4>1, <4>2
    <3>3. plan[j] = "ready" => HoldsSlot(j, p)' \/ OnItsWay(j, p, "create")'
      BY <1>3, <1>8, <2>1, <3>1 DEF MessagesMeet
    <3>4. plan[j] = "gone" /\ OnItsWay(j, p, "create")' => OnItsWay(j, p, "destroy")'
      BY <1>3, <1>8, <2>1, <2>4 DEF MessagesMeet
    <3> QED BY <3>2, <3>3, <3>4
  <2> QED BY <2>3, <2>4
<1>12. SlotsReused'
  <2> SUFFICES ASSUME NEW x \in Plans, NEW y \in Plans, NEW p \in Ranks, SameSlot(x, y, p),
                      NEW n \in Nat, On(y, p, n, "create")'
               PROVE  /\ HoldsSlot(x, p)' => \E m \in Nat : m < n /\ On(x, p, m, "destroy")'
                      /\ \A k \in Nat : On(x, p, k, "create")' /\ k < n =>
                            \E m \in Nat : k < m /\ m < n /\ On(x, p, m, "destroy")'
    BY DEF SlotsReused, SameSlot
  <2>1. Owner[x] = Owner[y] /\ batch[x][p] = batch[y][p] /\ y \notin Once /\ p \in Receivers(y)
    BY DEF SameSlot
  <2>2. CASE Owner[x] = q /\ p = r
    <3>1. n + 1 \in Nat /\ On(y, p, n + 1, "create")
      <4>1. Owner[y] = q /\ On(y, r, n, "create")'
        BY <2>1, <2>2
      <4> QED BY <1>1, <2>2, <4>1
    <3>2. batch[x][p] \in Ids
      <4>1. plan[y] # "none"
        BY <1>3, <3>1, OnRight
      <4> QED BY <1>3, <2>1, <4>1 DEF PlansTaken
    <3>3. ASSUME HoldsSlot(x, p)' PROVE \E m \in Nat : m < n /\ On(x, p, m, "destroy")'
      <4>1. HoldsSlot(x, p) /\ x # i
        BY <1>7, <2>2, <3>2, <3>3
      <4>2. PICK m \in Nat : m < n + 1 /\ On(x, p, m, "destroy")
        BY <1>3, <3>1, <4>1 DEF SlotsReused
      <4>3. m - 1 \in Nat /\ On(x, p, m - 1, "destroy")'
        BY <1>1, <2>2, <4>1, <4>2
      <4> QED BY <4>2, <4>3
    <3>4. ASSUME NEW k \in Nat, On(x, p, k, "create")', k < n
          PROVE  \E m \in Nat : k < m /\ m < n /\ On(x, p, m, "destroy")'
      <4>1. k + 1 \in Nat /\ k + 1 < n + 1 /\ On(x, p, k + 1, "create") /\ x # i
        BY <1>1, <1>6, <2>2, <3>4
      <4>2. PICK m \in Nat : k + 1 < m /\ m < n + 1 /\ On(x, p, m, "destroy")
        BY <1>3, <3>1, <4>1 DEF SlotsReused
      <4>3. m - 1 \in Nat /\ On(x, p, m - 1, "destroy")'
        BY <1>1, <2>2, <4>1, <4>2
      <4> QED BY <4>2, <4>3
    <3> QED BY <3>3, <3>4
  <2>3. CASE ~(Owner[x] = q /\ p = r)
    <3>1. On(y, p, n, "create")
      BY <1>1, <2>1, <2>3
    <3>2. batch[x][p] \in Ids
      <4>1. plan[y] # "none"
        BY <1>3, <3>1, OnRight
      <4> QED BY <1>3, <2>1, <4>1 DEF PlansTaken
    <3>3. HoldsSlot(x, p)' => HoldsSlot(x, p)
      BY <1>7, <3>2
    <3> QED BY <1>1, <1>3, <2>3, <3>1, <3>3 DEF SlotsReused
  <2> QED BY <2>2, <2>3
<1> QED BY <1>5, <1>2, <1>10, <1>11, <1>12, PopMessages DEF CtrlInv, HoldsSlot

LEMMA DaemonCtrlCtrl ==
    ASSUME TypeInv, CtrlInv, NEW r \in Ranks, NEW q \in Ranks, DaemonCtrl(r, q) PROVE CtrlInv'
<1> DEFINE m == ctrl[q][r][1]  i == m.plan  type == m.type
<1>1. /\ ctrl[q][r] # <<>> /\ ctrl' = [ctrl EXCEPT ![q][r] = Tail(@)]
      /\ Head(ctrl[q][r]) = m /\ UNCHANGED <<plan, batch, batches>>
      /\ CtrlCreate(r, q, m) \/ CtrlStart(r, q, m) \/ CtrlDestroy(r, q, m) \/ CtrlExecute(r, q, m)
  <2>1. ctrl[q][r] # <<>> /\ ctrl' = [ctrl EXCEPT ![q][r] = Tail(@)]
    BY DEF DaemonCtrl
  <2>2. Head(ctrl[q][r]) = m
    BY <2>1, PopOn DEF TypeInv
  <2> HIDE DEF m
  <2> QED BY <2>1, <2>2 DEF DaemonCtrl, planVars
<1>2. Front(q, r, i, type) /\ Shifts(q, r, i, type)
  BY <1>1, PopShift
<1>3. type \in {"create", "destroy"} => m.batch = batch[i][r]
  BY <1>2 DEF Front
<1>4. CASE CtrlCreate(r, q, m)
  <2>1. type = "create" /\ slot' = [slot EXCEPT ![r][q][m.batch] = i]
    BY <1>4 DEF CtrlCreate
  <2> HIDE DEF m, i, type
  <2> QED BY <1>1, <1>2, <1>3, <2>1, PopCreate
<1>5. CASE CtrlDestroy(r, q, m)
  <2>1. type = "destroy" /\ slot' = [slot EXCEPT ![r][q][m.batch] = None]
    BY <1>5 DEF CtrlDestroy
  <2> HIDE DEF m, i, type
  <2> QED BY <1>1, <1>2, <1>3, <2>1, PopDestroy
<1>6. CASE CtrlStart(r, q, m) \/ CtrlExecute(r, q, m)
  <2>1. type \in {"start", "execute"} /\ UNCHANGED slot
    BY <1>6 DEF CtrlStart, CtrlExecute
  <2> HIDE DEF m, i, type
  <2> QED BY <1>1, <1>2, <2>1, PopOther
<1> QED BY <1>1, <1>4, <1>5, <1>6

LEMMA SameCtrl ==
    ASSUME TypeInv, CtrlInv, UNCHANGED <<plan, batch, batches, ctrl, slot>> PROVE CtrlInv'
<1>1. \A i, q, n, t : /\ On(i, q, n, t)' <=> On(i, q, n, t)
                      /\ OnAny(i, q, n)' <=> OnAny(i, q, n)
                      /\ OnItsWay(i, q, t)' <=> OnItsWay(i, q, t)
  BY DEF On, OnAny, OnItsWay
<1>2. \A i, j, q : /\ HoldsSlot(i, q)' <=> HoldsSlot(i, q)
                   /\ SameSlot(i, j, q)' <=> SameSlot(i, j, q)
  BY DEF HoldsSlot, SameSlot
<1>3. MessagesRight'
  BY DEF CtrlInv, MessagesRight
<1>4. SlotsRight'
  <2> SUFFICES ASSUME NEW o \in Ranks, NEW p \in Ranks, NEW c \in Ids,
                      NEW j \in Plans, j = slot[p][o][c], j # None
               PROVE  /\ Owner[j] = o /\ j \notin Once /\ p \in Receivers(j) /\ batch[j][p] = c
                      /\ plan[j] # "none"
                      /\ ~OnItsWay(j, p, "create")'
                      /\ plan[j] = "gone" => OnItsWay(j, p, "destroy")'
    <3>1. \A o, p \in Ranks, c \in Ids : slot[p][o][c] \in Plans \cup {None}
      BY DEF TypeInv, TypeOK
    <3> QED BY <3>1 DEF SlotsRight
  <2>1. /\ Owner[j] = o /\ j \notin Once /\ p \in Receivers(j) /\ batch[j][p] = c
        /\ plan[j] # "none" /\ ~OnItsWay(j, p, "create")
        /\ plan[j] = "gone" => OnItsWay(j, p, "destroy")
    BY DEF CtrlInv, SlotsRight
  <2> QED BY <1>1, <2>1
<1>5. MessagesOrdered'
  BY <1>1 DEF CtrlInv, MessagesOrdered
<1>6. MessagesMeet'
  BY <1>1, <1>2 DEF CtrlInv, MessagesMeet
<1>7. SlotsReused' /\ BatchesHeld'
  BY <1>1, <1>2 DEF CtrlInv, SlotsReused, BatchesHeld
<1> QED BY <1>3, <1>4, <1>5, <1>6, <1>7 DEF CtrlInv

LEMMA InitCtrl == Init => CtrlInv
<1> SUFFICES ASSUME Init PROVE CtrlInv
  OBVIOUS
<1>1. /\ \A i \in Plans : plan[i] = "none"
      /\ \A r, q \in Ranks : batches[r][q] = NewPool /\ ctrl[r][q] = <<>> /\ Len(ctrl[r][q]) = 0
      /\ \A r, q \in Ranks, b \in Ids : slot[r][q][b] = None
  BY DEF Init
<1>2. \A i \in Plans : \A q \in Ranks : \A n, t : ~On(i, q, n, t) /\ ~OnAny(i, q, n)
  <2>1. \A i \in Plans : Owner[i] \in Ranks
    BY PlanFacts
  <2> QED BY <1>1, <2>1 DEF On, OnAny
<1>3. \A i \in Plans : \A q \in Receivers(i) : q \in Ranks
  BY PlanFacts
<1>4. MessagesRight /\ MessagesOrdered /\ SlotsRight
  BY <1>1, <1>2, <1>3 DEF MessagesRight, MessagesOrdered, SlotsRight
<1>5. MessagesMeet /\ SlotsReused
  BY <1>1, <1>2, <1>3 DEF MessagesMeet, SlotsReused
<1>6. BatchesHeld
  <2>1. Len(NewPool) = NumIds /\ \A a \in 1 .. NumIds : NewPool[a] = a
    <3>1. NewPool \in [1 .. NumIds -> Nat] /\ NumIds \in Nat
      BY ChannelAssumption DEF NewPool, Ids
    <3> QED BY <3>1, FcnSeq DEF NewPool, Ids
  <2> QED BY <1>1, <2>1 DEF BatchesHeld
<1> QED BY <1>4, <1>5, <1>6 DEF CtrlInv

LEMMA StepCtrl == TypeInv /\ CtrlInv /\ [Next]_vars => CtrlInv'
<1> SUFFICES ASSUME TypeInv, CtrlInv, [Next]_vars PROVE CtrlInv'
  OBVIOUS
<1>1. ASSUME NEW i \in Plans, PlanCreate(i) PROVE CtrlInv'
  BY <1>1, PlanCreateCtrl
<1>2. ASSUME NEW i \in Plans, RdmaStart(i) \/ PlanStart(i) PROVE CtrlInv'
  BY <1>2, StartCtrl
<1>3. ASSUME NEW i \in Plans, PlanDestroy(i) PROVE CtrlInv'
  BY <1>3, PlanDestroyCtrl
<1>4. ASSUME NEW r \in Ranks, NEW q \in Ranks, DaemonCtrl(r, q) PROVE CtrlInv'
  BY <1>4, DaemonCtrlCtrl
<1>5. ASSUME NEW r \in Ranks, \/ \E S \in (SUBSET Completed(r)) \ {{}} : DaemonTest(r, S)
                              \/ DaemonEvent(r) \/ DaemonRelease(r)
      PROVE  CtrlInv'
  <2>1. UNCHANGED <<plan, batch, batches, ctrl, slot>>
    BY <1>5 DEF DaemonTest, DaemonEvent, DaemonRelease, planVars
  <2> QED BY <2>1, SameCtrl
<1>6. CASE UNCHANGED vars
  <2>1. UNCHANGED <<plan, batch, batches, ctrl, slot>>
    BY <1>6 DEF vars, planVars
  <2> QED BY <2>1, SameCtrl
<1> QED BY <1>1, <1>2, <1>3, <1>4, <1>5, <1>6 DEF Next, Daemon

\* The two sides agree on which plan has which batch: the slot of a receiver
\* holds the plan from its create message to its destroy message
\* (recv_batch[q][b] in uri_mpi_process_ctrl_msg).
THEOREM BatchesAlwaysAgree == Spec => []BatchesAgree
<1>1. TypeInv /\ CtrlInv => BatchesAgree
  <2> SUFFICES ASSUME TypeInv, CtrlInv, NEW i \in Plans \ Once, NEW q \in Receivers(i), plan[i] # "none"
               PROVE  HoldsSlot(i, q) <=> /\ ~OnItsWay(i, q, "create")
                                          /\ plan[i] = "ready" \/ OnItsWay(i, q, "destroy")
    BY DEF BatchesAgree, HoldsSlot
  <2>1. TypeOK /\ PlansTaken /\ SlotsRight /\ MessagesMeet
    BY DEF TypeInv, Taken, CtrlInv
  <2>2. q \in Ranks /\ i \in Plans /\ batch[i][q] \in Ids /\ plan[i] \in {"ready", "gone"}
    BY <2>1, PlanFacts DEF PlansTaken, TypeOK
  <2>3. HoldsSlot(i, q) => /\ ~OnItsWay(i, q, "create")
                           /\ plan[i] = "ready" \/ OnItsWay(i, q, "destroy")
    BY <2>1, <2>2, HoldsRight
  <2>4. plan[i] = "ready" => HoldsSlot(i, q) \/ OnItsWay(i, q, "create")
    BY <2>1 DEF MessagesMeet
  <2>5. OnItsWay(i, q, "destroy") => HoldsSlot(i, q) \/ OnItsWay(i, q, "create")
    BY <2>1, <2>2, OnFacts DEF MessagesMeet
  <2> QED BY <2>3, <2>4, <2>5
<1>2. Init => TypeInv /\ CtrlInv
  BY InitType, InitCtrl
<1>3. (TypeInv /\ CtrlInv) /\ [Next]_vars => (TypeInv /\ CtrlInv)'
  BY StepType, StepCtrl
<1> QED BY <1>1, <1>2, <1>3, PTL DEF Spec

-----------------------------------------------------------------------------
(* The operations *)

LEMMA OwedIs ==
    ASSUME NEW op
    PROVE  /\ Owed(op) <=> Coming(op) \/ ost[op] = "active" \/ Due(op)
           /\ Due(op) => op \in dset[At(op)]
BY DEF Owed, Coming, Due

LEMMA DueSame ==
    ASSUME UNCHANGED <<dset, dpc, dop>>
    PROVE  \A op : Due(op)' <=> Due(op)
BY DEF Due

\* A step that does not touch an operation
LEMMA OpSame ==
    ASSUME NEW op \in Ops, OpRight(op), ost'[op] = ost[op], events'[op] = events[op],
           starts'[op[1]] = starts[op[1]], plan'[op[1]] = plan[op[1]],
           op[3] = "rmt" => \A t : OnItsWay(op[1], At(op), t)' <=> OnItsWay(op[1], At(op), t),
           op[3] = "rmt" /\ op[1] \notin Once /\ plan[op[1]] # "none" /\ HoldsSlot(op[1], At(op))' =>
              HoldsSlot(op[1], At(op)),
           op \in dset'[At(op)] <=> op \in dset[At(op)], Due(op)' <=> Due(op)
    PROVE  OpRight(op)' /\ (Owed(op)' <=> Owed(op))
<1>1. Coming(op)' <=> Coming(op)
  BY DEF Coming
<1>2. Owed(op)' <=> Coming(op)' \/ ost'[op] = "active" \/ Due(op)'
  BY DEF Owed, Coming, Due
<1>3. Owed(op)' <=> Owed(op)
  BY <1>1, <1>2, OwedIs
<1>4. EventRight(op)'
  BY <1>3 DEF OpRight, EventRight
<1>5. OwedOnce(op)'
  BY <1>1 DEF OpRight, OwedOnce
<1>6. LifeCycle(op)'
  BY <1>3 DEF OpRight, LifeCycle
<1> QED BY <1>3, <1>4, <1>5, <1>6 DEF OpRight

LEMMA NewPlan ==
    ASSUME TypeInv, CtrlInv, OpInv, NEW i \in Plans, plan[i] = "none"
    PROVE  /\ starts[i] = 0
           /\ \A q \in Ranks : \A t : ~OnItsWay(i, q, t)
           /\ \A q \in Ranks : \A n, t : ~On(i, q, n, t) /\ ~OnAny(i, q, n)
           /\ \A op \in Ops : op[1] = i => /\ ost[op] = "none" /\ events[op] = 0
                                           /\ ~Owed(op) /\ ~Due(op) /\ op \notin dset[At(op)]
<1>1. starts[i] = 0
  BY DEF OpInv, StartsRight
<1>2. \A q \in Ranks : \A n, t : ~On(i, q, n, t) /\ ~OnAny(i, q, n)
  BY OnRight, OnFacts DEF TypeInv, CtrlInv
<1>3. \A q \in Ranks : \A t : ~OnItsWay(i, q, t)
  BY <1>2, OnFacts DEF TypeInv
<1>4. ASSUME NEW op \in Ops, op[1] = i
      PROVE  /\ ost[op] = "none" /\ events[op] = 0
             /\ ~Owed(op) /\ ~Due(op) /\ op \notin dset[At(op)]
  <2>1. OpRight(op) /\ At(op) \in Ranks
    BY OpFacts DEF OpInv
  <2>2. ost[op] = "none"
    BY <1>4, <2>1 DEF OpRight, LifeCycle
  <2>3. op \notin dset[At(op)] /\ ~Due(op)
    BY <2>1, <2>2 DEF OpRight, OwedOnce
  <2>4. ~Coming(op)
    BY <1>3, <1>4, <2>1 DEF Coming
  <2>5. ~Owed(op)
    BY <2>2, <2>3, <2>4, OwedIs
  <2>6. events[op] = 0
    BY <1>1, <1>4, <2>1, <2>5 DEF OpRight, EventRight
  <2> QED BY <2>2, <2>3, <2>5, <2>6
<1> QED BY <1>1, <1>2, <1>3, <1>4

\* Once its signals have fired, nothing of a plan is under way.
LEMMA QuietPlan ==
    ASSUME TypeInv, CtrlInv, OpInv, NEW i \in Plans, plan[i] = "ready", Signalled(i)
    PROVE  /\ i \notin Once
           /\ \A op \in Ops : op[1] = i => ~Owed(op) /\ ~Coming(op) /\ ~Due(op) /\ ost[op] # "active"
           /\ \A op \in Loc(i) : ost[op] = "idle"
           /\ \A q \in Receivers(i) : \A n : ~On(i, q, n, "start")
<1>1. i \notin Once
  BY DEF TypeInv, Taken, PlansTaken
<1>2. ASSUME NEW op \in Ops, op[1] = i
      PROVE  ~Owed(op) /\ ~Coming(op) /\ ~Due(op) /\ ost[op] # "active"
  <2>1. events[op] = starts[i] /\ starts[i] \in Nat
    BY <1>2, LocAre DEF Signalled, TypeInv, TypeOK
  <2>2. ~Owed(op)
    BY <1>2, <2>1 DEF OpInv, OpRight, EventRight
  <2> QED BY <2>2, OwedIs
<1>3. ASSUME NEW op \in Loc(i) PROVE ost[op] = "idle"
  <2>1. op \in Ops /\ op[1] = i /\ op[3] = "loc"
    BY LocAre
  <2> QED BY <1>1, <1>2, <2>1 DEF OpInv, OpRight, LifeCycle
<1>4. ASSUME NEW q \in Receivers(i), NEW n, On(i, q, n, "start") PROVE FALSE
  <2>1. PICK k \in Indices(i) : Wrts[i][k].dst = q
    BY DEF Receivers
  <2> DEFINE op == <<i, k, "rmt">>
  <2>2. op \in Ops /\ op[1] = i /\ op[3] = "rmt" /\ At(op) = q
    BY <2>1, OpsAre DEF At
  <2>3. OnItsWay(i, q, "start")
    BY <1>4 DEF On, OnItsWay
  <2>4. Coming(op)
    BY <2>2, <2>3 DEF Coming
  <2> QED BY <1>2, <2>2, <2>4
<1> QED BY <1>1, <1>2, <1>3, <1>4

LEMMA PlanCreateOp ==
    ASSUME TypeInv, CtrlInv, OpInv, NEW i \in Plans, PlanCreate(i) PROVE OpInv' /\ UNCHANGED err
<1>1. /\ i \notin Once /\ plan[i] = "none" /\ Tell(i, "create", batch'[i])
      /\ plan' = [plan EXCEPT ![i] = "ready"] /\ batch' = [batch EXCEPT ![i] = batch'[i]]
      /\ ost' = [op \in Ops |-> IF op \in Loc(i) THEN "idle" ELSE ost[op]]
      /\ UNCHANGED <<starts, slot, que, dpc, dset, dop, events, err>>
  BY DEF PlanCreate, dmnVars
<1>2. TypeOK /\ TypeOK' /\ TypeInv' /\ CtrlInv'
  BY PlanCreateType, PlanCreateCtrl DEF TypeInv
<1>3. /\ Receivers(i) \subseteq Ranks /\ "create" \in Types
      /\ plan'[i] = "ready" /\ \A j \in Plans : j # i => plan'[j] = plan[j] /\ batch'[j] = batch[j]
      /\ \A q \in Receivers(i) : batch'[i][q] \in 0 .. NumIds
  BY <1>1, <1>2, PlanFacts DEF TypeOK, Types
<1>4. /\ \A j \in Plans, q \in Ranks : \A n, t :
            On(j, q, n, t)' <=> \/ On(j, q, n, t)
                                \/ /\ j = i /\ q \in Receivers(i) /\ t = "create"
                                   /\ n = Len(ctrl[Owner[i]][q]) + 1
      /\ \A j \in Plans, q \in Ranks : \A n :
            OnAny(j, q, n)' <=> \/ OnAny(j, q, n)
                                \/ /\ j = i /\ q \in Receivers(i)
                                   /\ n = Len(ctrl[Owner[i]][q]) + 1
      /\ \A j \in Plans, q \in Ranks : \A t :
            OnItsWay(j, q, t)' <=> \/ OnItsWay(j, q, t)
                                   \/ j = i /\ q \in Receivers(i) /\ t = "create"
  BY <1>1, <1>2, <1>3, PushOn
<1>5. /\ starts[i] = 0
      /\ \A q \in Ranks : \A t : ~OnItsWay(i, q, t)
      /\ \A q \in Ranks : \A n, t : ~On(i, q, n, t) /\ ~OnAny(i, q, n)
      /\ \A op \in Ops : op[1] = i => /\ ost[op] = "none" /\ events[op] = 0
                                      /\ ~Owed(op) /\ ~Due(op) /\ op \notin dset[At(op)]
  BY <1>1, NewPlan
<1>6. \A q \in Receivers(i) : ~HoldsSlot(i, q)'
  <2> SUFFICES ASSUME NEW q \in Receivers(i), slot'[q][Owner[i]][batch'[i][q]] = i PROVE FALSE
    BY DEF HoldsSlot
  <2>1. batch'[i][q] \in Ids /\ q \in Ranks /\ i # None /\ Owner[i] \in Ranks
    BY <1>1, <1>2, <1>3, PlanFacts, ChannelAssumption DEF TypeInv, Taken, PlansTaken
  <2>2. ~OnItsWay(i, q, "create")'
    BY <1>2, <2>1 DEF CtrlInv, SlotsRight
  <2> QED BY <1>3, <1>4, <2>2
<1>7. \A j \in Plans, q \in Ranks : j # i => (HoldsSlot(j, q)' <=> HoldsSlot(j, q))
  BY <1>1, <1>3 DEF HoldsSlot
<1>8. \A op : Due(op)' <=> Due(op)
  BY <1>1, DueSame
<1>9. \A op \in Ops : ost'[op] = IF op \in Loc(i) THEN "idle" ELSE ost[op]
  BY <1>1
<1>10. ASSUME NEW op \in Ops, op[1] # i PROVE OpRight(op)'
  <2>1. op \notin Loc(i) /\ op[1] \in Plans /\ At(op) \in Ranks /\ OpRight(op)
    BY <1>10, LocAre, OpFacts DEF OpInv
  <2> QED BY <1>1, <1>3, <1>4, <1>7, <1>8, <1>9, <1>10, <2>1, OpSame
<1>11. ASSUME NEW op \in Ops, op[1] = i PROVE OpRight(op)'
  <2>1. /\ At(op) \in Ranks /\ op[3] \in {"loc", "rmt"}
        /\ op[3] = "rmt" => At(op) \in Receivers(i)
        /\ op \in Loc(i) <=> op[3] = "loc"
    BY <1>11, LocAre, OpFacts
  <2>2. /\ ost'[op] = IF op[3] = "loc" THEN "idle" ELSE "none"
        /\ ~Due(op)' /\ op \notin dset'[At(op)] /\ events'[op] = 0 /\ starts'[i] = 0
    BY <1>1, <1>5, <1>8, <1>9, <1>11, <2>1
  <2>3. ~OnItsWay(i, At(op), "start")' /\ ~OnItsWay(i, At(op), "execute")'
    BY <1>4, <1>5, <2>1
  <2>4. ~Coming(op)' /\ ~Owed(op)'
    BY <1>11, <2>2, <2>3 DEF Coming, Owed, Due
  <2>5. EventRight(op)' /\ OwedOnce(op)'
    <3>1. EventRight(op)'
      BY <1>11, <2>2, <2>4 DEF EventRight
    <3>2. OwedOnce(op)'
      BY <2>2, <2>4 DEF OwedOnce
    <3> QED BY <3>1, <3>2
  <2>6. LifeCycle(op)'
    BY <1>1, <1>3, <1>6, <1>11, <2>1, <2>2, <2>3 DEF LifeCycle
  <2> QED BY <2>5, <2>6 DEF OpRight
<1>12. StartLast'
  <2>1. \A j \in Plans : \A q \in Receivers(j) : q \in Ranks
    BY PlanFacts
  <2> QED BY <1>4, <1>5, <2>1 DEF OpInv, StartLast
<1>13. StartsRight'
  BY <1>1, <1>3 DEF OpInv, StartsRight
<1>14. DaemonsRight'
  <2>1. \A op \in Ops : ost'[op] = "active" <=> ost[op] = "active"
    BY <1>5, <1>9, LocAre
  <2> QED BY <1>1, <2>1 DEF OpInv, DaemonsRight
<1> QED BY <1>1, <1>10, <1>11, <1>12, <1>13, <1>14 DEF OpInv

LEMMA RdmaStartOp ==
    ASSUME TypeInv, CtrlInv, OpInv, NEW i \in Plans, RdmaStart(i) PROVE OpInv' /\ UNCHANGED err
<1> DEFINE t0 == [op \in Loc(i) |-> tag'[i][op[2]]]
<1>1. /\ i \in Once /\ plan[i] = "none" /\ Tell(i, "execute", batch[i])
      /\ plan' = [plan EXCEPT ![i] = "gone"] /\ starts' = [starts EXCEPT ![i] = 1]
      /\ Post(Owner[i], Loc(i), t0)
      /\ UNCHANGED <<batch, batches, slot, dpc, dset, dop, events, err>>
  BY DEF RdmaStart, dmnVars
<1> HIDE DEF t0
<1>2. TypeOK
  BY DEF TypeInv
<1>3. /\ Receivers(i) \subseteq Ranks /\ "execute" \in Types /\ Owner[i] \in Ranks
      /\ plan'[i] = "gone" /\ starts'[i] = 1
      /\ \A j \in Plans : j # i => plan'[j] = plan[j] /\ starts'[j] = starts[j]
      /\ \A q \in Receivers(i) : batch[i][q] \in 0 .. NumIds
  BY <1>1, <1>2, PlanFacts DEF TypeOK, Types
<1>4. /\ \A j \in Plans, q \in Ranks : \A n, t :
            On(j, q, n, t)' <=> \/ On(j, q, n, t)
                                \/ /\ j = i /\ q \in Receivers(i) /\ t = "execute"
                                   /\ n = Len(ctrl[Owner[i]][q]) + 1
      /\ \A j \in Plans, q \in Ranks : \A n :
            OnAny(j, q, n)' <=> \/ OnAny(j, q, n)
                                \/ /\ j = i /\ q \in Receivers(i)
                                   /\ n = Len(ctrl[Owner[i]][q]) + 1
      /\ \A j \in Plans, q \in Ranks : \A t :
            OnItsWay(j, q, t)' <=> \/ OnItsWay(j, q, t)
                                   \/ j = i /\ q \in Receivers(i) /\ t = "execute"
  BY <1>1, <1>2, <1>3, PushOn
<1>5. /\ starts[i] = 0
      /\ \A q \in Ranks : \A t : ~OnItsWay(i, q, t)
      /\ \A q \in Ranks : \A n, t : ~On(i, q, n, t) /\ ~OnAny(i, q, n)
      /\ \A op \in Ops : op[1] = i => /\ ost[op] = "none" /\ events[op] = 0
                                      /\ ~Owed(op) /\ ~Due(op) /\ op \notin dset[At(op)]
  BY <1>1, NewPlan
<1>6. \A j \in Plans, q \in Ranks : HoldsSlot(j, q)' <=> HoldsSlot(j, q)
  BY <1>1 DEF HoldsSlot
<1>7. \A op : Due(op)' <=> Due(op)
  BY <1>1, DueSame
<1>8. Loc(i) \in SUBSET Ops
  BY LocAre
<1>9. /\ \A op \in Ops : ost'[op] = IF op \in Loc(i) THEN "active" ELSE ost[op]
      /\ \A r \in Ranks : \A op : op \in que'[r] <=> op \in que[r] \/ (r = Owner[i] /\ op \in Loc(i))
  BY <1>1, <1>2, <1>3, <1>8, PostActive, PostArrays
<1>10. ASSUME NEW op \in Ops, op[1] # i PROVE OpRight(op)'
  <2>1. op \notin Loc(i) /\ op[1] \in Plans /\ At(op) \in Ranks /\ OpRight(op)
    BY <1>10, LocAre, OpFacts DEF OpInv
  <2> QED BY <1>1, <1>3, <1>4, <1>6, <1>7, <1>9, <1>10, <2>1, OpSame
<1>11. ASSUME NEW op \in Ops, op[1] = i PROVE OpRight(op)'
  <2>1. /\ At(op) \in Ranks /\ op[3] \in {"loc", "rmt"}
        /\ op[3] = "rmt" => At(op) \in Receivers(i)
        /\ op \in Loc(i) <=> op[3] = "loc"
    BY <1>11, LocAre, OpFacts
  <2>2. /\ ost'[op] = IF op[3] = "loc" THEN "active" ELSE "none"
        /\ ~Due(op)' /\ op \notin dset'[At(op)] /\ events'[op] = 0 /\ starts'[i] = 1
    BY <1>1, <1>3, <1>5, <1>7, <1>9, <1>11, <2>1
  <2>3. op[3] = "rmt" => OnItsWay(i, At(op), "execute")'
    BY <1>4, <2>1
  <2>4. Coming(op)' <=> op[3] = "rmt"
    BY <1>11, <2>3 DEF Coming
  <2>5. Owed(op)'
    BY <1>11, <2>1, <2>2, <2>3 DEF Owed
  <2>6. EventRight(op)'
    BY <1>11, <2>2, <2>5 DEF EventRight
  <2>7. OwedOnce(op)'
    BY <2>1, <2>2, <2>4 DEF OwedOnce
  <2>8. LifeCycle(op)'
    BY <1>1, <1>3, <1>11, <2>1, <2>2 DEF LifeCycle
  <2> QED BY <2>6, <2>7, <2>8 DEF OpRight
<1>12. StartLast'
  <2>1. \A j \in Plans : \A q \in Receivers(j) : q \in Ranks
    BY PlanFacts
  <2> QED BY <1>4, <1>5, <2>1 DEF OpInv, StartLast
<1>13. StartsRight'
  BY <1>1, <1>3 DEF OpInv, StartsRight
<1>14. DaemonsRight'
  <2> SUFFICES ASSUME NEW r \in Ranks, NEW op \in Ops
               PROVE  op \in que'[r] <=> At(op) = r /\ ost'[op] = "active"
    BY <1>1 DEF OpInv, DaemonsRight
  <2>1. op \in que[r] <=> At(op) = r /\ ost[op] = "active"
    BY DEF OpInv, DaemonsRight
  <2>2. op \in Loc(i) => At(op) = Owner[i] /\ ost[op] = "none"
    BY <1>5, LocAre, OpFacts
  <2> QED BY <1>9, <2>1, <2>2
<1> QED BY <1>1, <1>10, <1>11, <1>12, <1>13, <1>14 DEF OpInv

LEMMA PlanStartOp ==
    ASSUME TypeInv, CtrlInv, OpInv, NEW i \in Plans, PlanStart(i) PROVE OpInv' /\ UNCHANGED err
<1>1. /\ plan[i] = "ready" /\ Signalled(i) /\ Tell(i, "start", batch[i])
      /\ starts' = [starts EXCEPT ![i] = starts[i] + 1]
      /\ Post(Owner[i], Loc(i), Tags(Loc(i)))
      /\ (\A op \in Loc(i) : ost[op] = "idle") => UNCHANGED err
      /\ UNCHANGED <<plan, batch, slot, dpc, dset, dop, events>>
  BY DEF PlanStart, dmnVars
<1>2. TypeOK
  BY DEF TypeInv
<1>3. /\ Receivers(i) \subseteq Ranks /\ "start" \in Types /\ Owner[i] \in Ranks
      /\ starts'[i] = starts[i] + 1 /\ starts[i] \in Nat
      /\ \A j \in Plans : j # i => starts'[j] = starts[j]
      /\ \A q \in Receivers(i) : batch[i][q] \in 0 .. NumIds
  BY <1>1, <1>2, PlanFacts DEF TypeOK, Types
<1>4. /\ \A j \in Plans, q \in Ranks : \A n, t :
            On(j, q, n, t)' <=> \/ On(j, q, n, t)
                                \/ /\ j = i /\ q \in Receivers(i) /\ t = "start"
                                   /\ n = Len(ctrl[Owner[i]][q]) + 1
      /\ \A j \in Plans, q \in Ranks : \A n :
            OnAny(j, q, n)' <=> \/ OnAny(j, q, n)
                                \/ /\ j = i /\ q \in Receivers(i)
                                   /\ n = Len(ctrl[Owner[i]][q]) + 1
      /\ \A j \in Plans, q \in Ranks : \A t :
            OnItsWay(j, q, t)' <=> \/ OnItsWay(j, q, t)
                                   \/ j = i /\ q \in Receivers(i) /\ t = "start"
  BY <1>1, <1>2, <1>3, PushOn
<1>5. /\ i \notin Once
      /\ \A op \in Ops : op[1] = i => ~Owed(op) /\ ~Coming(op) /\ ~Due(op) /\ ost[op] # "active"
      /\ \A op \in Loc(i) : ost[op] = "idle"
      /\ \A q \in Receivers(i) : \A n : ~On(i, q, n, "start")
  BY <1>1, QuietPlan
<1>6. \A j \in Plans, q \in Ranks : HoldsSlot(j, q)' <=> HoldsSlot(j, q)
  BY <1>1 DEF HoldsSlot
<1>7. \A op : Due(op)' <=> Due(op)
  BY <1>1, DueSame
<1>8. Loc(i) \in SUBSET Ops
  BY LocAre
<1>9. /\ \A op \in Ops : ost'[op] = IF op \in Loc(i) THEN "active" ELSE ost[op]
      /\ \A r \in Ranks : \A op : op \in que'[r] <=> op \in que[r] \/ (r = Owner[i] /\ op \in Loc(i))
  <2>1. Post(Owner[i], Loc(i), Tags(Loc(i))) /\ Owner[i] \in Ranks
    BY <1>1, <1>3
  <2>2. \A op \in Ops : ost'[op] = IF op \in Loc(i) THEN "active" ELSE ost[op]
    BY ONLY <1>2, <1>8, <2>1, PostActive
  <2>3. \A r \in Ranks : \A op : op \in que'[r] <=> op \in que[r] \/ (r = Owner[i] /\ op \in Loc(i))
    BY ONLY <1>2, <1>8, <2>1, PostArrays
  <2> QED BY <2>2, <2>3
<1>10. ASSUME NEW op \in Ops, op[1] # i PROVE OpRight(op)'
  <2>1. op \notin Loc(i) /\ op[1] \in Plans /\ At(op) \in Ranks /\ OpRight(op)
    BY <1>10, LocAre, OpFacts DEF OpInv
  <2> QED BY <1>1, <1>3, <1>4, <1>6, <1>7, <1>9, <1>10, <2>1, OpSame
<1>11. ASSUME NEW op \in Ops, op[1] = i PROVE OpRight(op)'
  <2>1. /\ At(op) \in Ranks /\ op[3] \in {"loc", "rmt"}
        /\ op[3] = "rmt" => At(op) \in Receivers(i)
        /\ op \in Loc(i) <=> op[3] = "loc"
        /\ OpRight(op)
    BY <1>11, LocAre, OpFacts DEF OpInv
  <2>2. /\ ost'[op] = IF op[3] = "loc" THEN "active" ELSE ost[op]
        /\ ~Due(op)' /\ events'[op] = events[op]
        /\ op \in dset'[At(op)] => op \in dset[At(op)]
    BY <1>1, <1>5, <1>7, <1>9, <1>11, <2>1
  <2>3. op[3] = "rmt" => OnItsWay(i, At(op), "start")'
    BY <1>4, <2>1
  <2>4. Coming(op)' <=> op[3] = "rmt"
    BY <1>11, <2>3 DEF Coming
  <2>5. Owed(op)'
    BY <1>11, <2>1, <2>2, <2>3 DEF Owed
  <2>6. events[op] = starts[i]
    BY <1>5, <1>11, <2>1 DEF OpRight, EventRight
  <2>7. EventRight(op)'
    BY <1>3, <1>11, <2>2, <2>5, <2>6 DEF EventRight
  <2>8. OwedOnce(op)'
    BY <1>5, <1>11, <2>1, <2>2, <2>4 DEF OpRight, OwedOnce
  <2>9. LifeCycle(op)'
    <3>1. /\ OnItsWay(i, At(op), "create")' => OnItsWay(i, At(op), "create")
          /\ OnItsWay(i, At(op), "execute")' => OnItsWay(i, At(op), "execute")
      BY <1>4, <2>1
    <3> QED BY <1>1, <1>6, <1>11, <2>1, <2>2, <3>1 DEF OpRight, LifeCycle
  <2> QED BY <2>7, <2>8, <2>9 DEF OpRight
<1>12. StartLast'
  <2> SUFFICES ASSUME NEW j \in Plans, NEW q \in Receivers(j), NEW n \in Nat, NEW m \in Nat,
                      On(j, q, n, "start")', OnAny(j, q, m)'
               PROVE  m <= n
    BY DEF StartLast
  <2>1. q \in Ranks
    BY PlanFacts
  <2>2. CASE j # i
    BY <1>4, <2>1, <2>2 DEF OpInv, StartLast
  <2>3. CASE j = i
    <3>1. n = Len(ctrl[Owner[i]][q]) + 1
      BY <1>4, <1>5, <2>1, <2>3
    <3>2. OnAny(i, q, m) => m <= Len(ctrl[Owner[i]][q]) /\ Len(ctrl[Owner[i]][q]) \in Nat
      BY <1>2, <1>3, <2>1, CtrlFacts DEF OnAny
    <3> QED BY <1>4, <2>1, <2>3, <3>1, <3>2
  <2> QED BY <2>2, <2>3
<1>13. StartsRight'
  BY <1>1, <1>3 DEF OpInv, StartsRight
<1>14. DaemonsRight'
  <2> SUFFICES ASSUME NEW r \in Ranks, NEW op \in Ops
               PROVE  op \in que'[r] <=> At(op) = r /\ ost'[op] = "active"
    BY <1>1 DEF OpInv, DaemonsRight
  <2>1. op \in que[r] <=> At(op) = r /\ ost[op] = "active"
    BY DEF OpInv, DaemonsRight
  <2>2. op \in Loc(i) => At(op) = Owner[i] /\ ost[op] = "idle"
    BY <1>5, LocAre, OpFacts
  <2> QED BY <1>9, <2>1, <2>2
<1> QED BY <1>1, <1>5, <1>10, <1>11, <1>12, <1>13, <1>14 DEF OpInv

LEMMA PlanDestroyOp ==
    ASSUME ~EarlyDestroy, TypeInv, CtrlInv, OpInv, NEW i \in Plans, PlanDestroy(i)
    PROVE  OpInv' /\ UNCHANGED err
<1>1. /\ plan[i] = "ready" /\ Signalled(i) /\ Settled(i) /\ Tell(i, "destroy", batch[i])
      /\ plan' = [plan EXCEPT ![i] = "gone"]
      /\ ost' = [op \in Ops |-> IF op \in Loc(i) THEN "freed" ELSE ost[op]]
      /\ (\A op \in Loc(i) : ost[op] = "idle") => UNCHANGED err
      /\ UNCHANGED <<starts, batch, slot, que, dpc, dset, dop, events>>
  BY DEF PlanDestroy, dmnVars
<1>2. TypeOK
  BY DEF TypeInv
<1>3. /\ Receivers(i) \subseteq Ranks /\ "destroy" \in Types /\ Owner[i] \in Ranks
      /\ plan'[i] = "gone" /\ \A j \in Plans : j # i => plan'[j] = plan[j]
      /\ \A q \in Receivers(i) : batch[i][q] \in 0 .. NumIds
  BY <1>1, <1>2, PlanFacts DEF TypeOK, Types
<1>4. /\ \A j \in Plans, q \in Ranks : \A n, t :
            On(j, q, n, t)' <=> \/ On(j, q, n, t)
                                \/ /\ j = i /\ q \in Receivers(i) /\ t = "destroy"
                                   /\ n = Len(ctrl[Owner[i]][q]) + 1
      /\ \A j \in Plans, q \in Ranks : \A n :
            OnAny(j, q, n)' <=> \/ OnAny(j, q, n)
                                \/ /\ j = i /\ q \in Receivers(i)
                                   /\ n = Len(ctrl[Owner[i]][q]) + 1
      /\ \A j \in Plans, q \in Ranks : \A t :
            OnItsWay(j, q, t)' <=> \/ OnItsWay(j, q, t)
                                   \/ j = i /\ q \in Receivers(i) /\ t = "destroy"
  BY <1>1, <1>2, <1>3, PushOn
<1>5. /\ i \notin Once
      /\ \A op \in Ops : op[1] = i => ~Owed(op) /\ ~Coming(op) /\ ~Due(op) /\ ost[op] # "active"
      /\ \A op \in Loc(i) : ost[op] = "idle"
      /\ \A q \in Receivers(i) : \A n : ~On(i, q, n, "start")
  BY <1>1, QuietPlan
<1>6. \A j \in Plans, q \in Ranks : HoldsSlot(j, q)' <=> HoldsSlot(j, q)
  BY <1>1 DEF HoldsSlot
<1>7. \A op : Due(op)' <=> Due(op)
  BY <1>1, DueSame
<1>8. \A op \in Ops : ost'[op] = IF op \in Loc(i) THEN "freed" ELSE ost[op]
  BY <1>1
<1>9. ASSUME NEW op \in Ops, op[1] # i PROVE OpRight(op)'
  <2>1. op \notin Loc(i) /\ op[1] \in Plans /\ At(op) \in Ranks /\ OpRight(op)
    BY <1>9, LocAre, OpFacts DEF OpInv
  <2> QED BY <1>1, <1>3, <1>4, <1>6, <1>7, <1>8, <1>9, <2>1, OpSame
<1>10. ASSUME NEW op \in Ops, op[1] = i PROVE OpRight(op)'
  <2>1. /\ At(op) \in Ranks /\ op[3] \in {"loc", "rmt"}
        /\ op[3] = "rmt" => At(op) \in Receivers(i)
        /\ op \in Loc(i) <=> op[3] = "loc"
        /\ OpRight(op) /\ op \notin dset[At(op)]
    BY <1>1, <1>10, LocAre, OpFacts DEF OpInv, Settled
  <2>2. /\ ost'[op] = IF op[3] = "loc" THEN "freed" ELSE ost[op]
        /\ ~Due(op)' /\ events'[op] = events[op] /\ starts'[i] = starts[i]
        /\ op \notin dset'[At(op)] /\ ost'[op] # "active"
    BY <1>1, <1>5, <1>7, <1>8, <1>10, <2>1
  <2>3. \A t : t # "destroy" => (OnItsWay(i, At(op), t)' <=> OnItsWay(i, At(op), t))
    BY <1>4, <2>1
  <2>4. ~Coming(op)' /\ ~Owed(op)'
    <3>1. ~Coming(op)'
      BY <1>5, <1>10, <2>3 DEF Coming
    <3> QED BY <2>2, <3>1 DEF Owed, Coming, Due
  <2>5. EventRight(op)'
    <3>1. events[op] = starts[i]
      BY <1>5, <1>10, <2>1 DEF OpRight, EventRight
    <3> QED BY <1>10, <2>2, <2>4, <3>1 DEF EventRight
  <2>6. OwedOnce(op)'
    BY <2>2, <2>4 DEF OwedOnce
  <2>7. LifeCycle(op)'
    BY <1>1, <1>3, <1>5, <1>6, <1>10, <2>1, <2>2, <2>3, <2>4 DEF OpRight, LifeCycle
  <2> QED BY <2>5, <2>6, <2>7 DEF OpRight
<1>11. StartLast'
  <2>1. \A j \in Plans : \A q \in Receivers(j) : q \in Ranks
    BY PlanFacts
  <2> QED BY <1>4, <1>5, <2>1 DEF OpInv, StartLast
<1>12. StartsRight'
  BY <1>1, <1>3 DEF OpInv, StartsRight
<1>13. DaemonsRight'
  <2>1. \A op \in Ops : ost'[op] = "active" <=> ost[op] = "active"
    BY <1>5, <1>8, LocAre
  <2> QED BY <1>1, <2>1 DEF OpInv, DaemonsRight
<1> QED BY <1>1, <1>5, <1>9, <1>10, <1>11, <1>12, <1>13 DEF OpInv

LEMMA PopStartLast ==
    ASSUME OpInv, NEW q \in Ranks, NEW r \in Ranks, NEW i, NEW type, Shifts(q, r, i, type)
    PROVE  StartLast'
<1> SUFFICES ASSUME NEW j \in Plans, NEW p \in Receivers(j), NEW n \in Nat, NEW m \in Nat,
                    On(j, p, n, "start")', OnAny(j, p, m)'
             PROVE  m <= n
  BY DEF StartLast
<1>1. p \in Ranks
  BY PlanFacts
<1>2. PICK t : On(j, p, m, t)'
  BY DEF On, OnAny
<1>3. CASE Owner[j] = q /\ p = r
  <2>1. n + 1 \in Nat /\ m + 1 \in Nat /\ On(j, p, n + 1, "start") /\ On(j, p, m + 1, t)
    BY <1>2, <1>3 DEF Shifts
  <2>2. m + 1 <= n + 1
    BY <2>1 DEF OpInv, StartLast, On, OnAny
  <2> QED BY <2>2
<1>4. CASE ~(Owner[j] = q /\ p = r)
  <2>1. On(j, p, n, "start") /\ On(j, p, m, t)
    BY <1>1, <1>2, <1>4 DEF Shifts
  <2> QED BY <2>1 DEF OpInv, StartLast, On, OnAny
<1> QED BY <1>3, <1>4

\* A control message changes nothing for operations other than those it is for.
LEMMA PopOpSame ==
    ASSUME TypeInv, OpInv, NEW q \in Ranks, NEW r \in Ranks, NEW i, NEW type,
           Front(q, r, i, type), Shifts(q, r, i, type),
           UNCHANGED <<plan, starts, batch, dset, dpc, dop, events>>,
           \/ UNCHANGED slot
           \/ \E v \in {i, None} : i \notin Once /\ slot' = [slot EXCEPT ![r][q][batch[i][r]] = v],
           NEW op \in Ops \ Rmt(i, r), ost'[op] = ost[op]
    PROVE  OpRight(op)'
<1>1. op[1] \in Plans /\ At(op) \in Ranks /\ OpRight(op)
  BY OpFacts DEF OpInv
<1>2. op[3] = "rmt" => ~(op[1] = i /\ At(op) = r)
  BY LocAre DEF Front
<1>3. op[3] = "rmt" => \A t : OnItsWay(op[1], At(op), t)' <=> OnItsWay(op[1], At(op), t)
  BY <1>1, <1>2 DEF Shifts
<1>4. ASSUME op[3] = "rmt", op[1] \notin Once, plan[op[1]] # "none", HoldsSlot(op[1], At(op))'
      PROVE  HoldsSlot(op[1], At(op))
  <2>1. batch[op[1]][At(op)] \in Ids /\ Owner[op[1]] \in Ranks /\ op[1] # None
    BY <1>1, <1>4, OpFacts, PlanFacts, ChannelAssumption DEF TypeInv, Taken, PlansTaken
  <2>2. CASE UNCHANGED slot
    BY <1>4, <2>2 DEF HoldsSlot
  <2>3. ASSUME NEW v \in {i, None}, i \notin Once, slot' = [slot EXCEPT ![r][q][batch[i][r]] = v]
        PROVE  HoldsSlot(op[1], At(op))
    <3>1. /\ slot \in [Ranks -> [Ranks -> [Ids -> Plans \cup {None}]]]
          /\ batch[i][r] \in Ids /\ Owner[i] = q
      BY <2>3 DEF Front, TypeInv, TypeOK
    <3> DEFINE b == batch[i][r]
    <3>2. slot' = [slot EXCEPT ![r][q][b] = v]
      BY <2>3
    <3> HIDE DEF b
    <3>3. /\ slot'[r][q][b] = v
          /\ \A o, p \in Ranks, c \in Ids : ~(p = r /\ o = q /\ c = b) => slot'[p][o][c] = slot[p][o][c]
      <4>1. b \in Ids
        BY <3>1 DEF b
      <4> QED BY ONLY <3>1, <3>2, <4>1, q \in Ranks, r \in Ranks
    <3>4. slot'[At(op)][Owner[op[1]]][batch[op[1]][At(op)]] = op[1]
      BY <1>4 DEF HoldsSlot
    <3>5. ~(At(op) = r /\ Owner[op[1]] = q /\ batch[op[1]][At(op)] = b)
      BY <1>2, <1>4, <2>1, <3>3, <3>4
    <3> QED BY <1>1, <2>1, <3>3, <3>4, <3>5 DEF HoldsSlot
  <2> QED BY <2>2, <2>3
<1>5. Due(op)' <=> Due(op)
  BY DueSame
<1> QED BY <1>1, <1>3, <1>4, <1>5, OpSame

LEMMA PopCreateOp ==
    ASSUME TypeInv, CtrlInv, CtrlInv', OpInv, NEW q \in Ranks, NEW r \in Ranks, NEW i,
           Front(q, r, i, "create"), Shifts(q, r, i, "create"),
           slot' = [slot EXCEPT ![r][q][batch[i][r]] = i],
           ost' = [op \in Ops |-> IF op \in Rmt(i, r) THEN "idle" ELSE ost[op]],
           UNCHANGED <<plan, starts, batch, que, dset, dpc, dop, events>>
    PROVE  OpInv'
<1>1. /\ i \in Plans /\ i \notin Once /\ Owner[i] = q /\ r \in Receivers(i) /\ plan[i] # "none"
      /\ On(i, r, 1, "create") /\ batch[i][r] \in Ids /\ i # None
  BY ChannelAssumption DEF Front
<1>2. OnItsWay(i, r, "create")
  BY <1>1, OnFacts DEF TypeInv
<1>3. Rmt(i, r) = {op \in Ops : op[1] = i /\ op[3] = "rmt" /\ At(op) = r}
  BY <1>1, LocAre
<1>4. \A op \in Ops : ost'[op] = IF op \in Rmt(i, r) THEN "idle" ELSE ost[op]
  OBVIOUS
<1>5. ASSUME NEW op \in Ops \ Rmt(i, r) PROVE OpRight(op)'
  BY <1>1, <1>4, <1>5, PopOpSame
<1>6. ~OnItsWay(i, r, "create")'
  <2>1. slot'[r][q][batch[i][r]] = i
    BY <1>1 DEF TypeInv, TypeOK
  <2> QED BY <1>1, <2>1 DEF CtrlInv, SlotsRight
<1>7. ASSUME NEW op \in Rmt(i, r) PROVE OpRight(op)'
  <2>1. op \in Ops /\ op[1] = i /\ op[3] = "rmt" /\ At(op) = r /\ OpRight(op)
    BY <1>3 DEF OpInv
  <2>2. ost[op] = "none" /\ ost'[op] = "idle"
    BY <1>2, <1>4, <2>1 DEF OpRight, LifeCycle
  <2>3. ~Due(op) /\ op \notin dset[At(op)] /\ ~Due(op)' /\ op \notin dset'[At(op)]
    BY <2>1, <2>2, DueSame DEF OpRight, OwedOnce
  <2>4. \A t : t # "create" => (OnItsWay(i, r, t)' <=> OnItsWay(i, r, t))
    BY <1>1 DEF Shifts
  <2>5. Coming(op)' <=> Coming(op)
    BY <2>1, <2>4 DEF Coming
  <2>6. Owed(op)' <=> Owed(op)
    <3>1. Owed(op)' <=> Coming(op)' \/ ost'[op] = "active" \/ Due(op)'
      BY DEF Owed, Coming, Due
    <3> QED BY <2>2, <2>3, <2>5, <3>1, OwedIs
  <2>7. EventRight(op)'
    BY <2>1, <2>6 DEF OpRight, EventRight
  <2>8. OwedOnce(op)'
    BY <2>2, <2>3 DEF OwedOnce
  <2>9. ~OnItsWay(i, r, "execute")'
    BY <1>1, <2>4, OnRight, OnFacts DEF TypeInv, CtrlInv
  <2>10. LifeCycle(op)'
    BY <1>1, <1>6, <2>1, <2>2, <2>3, <2>6, <2>9 DEF OpRight, LifeCycle
  <2> QED BY <2>7, <2>8, <2>10 DEF OpRight
<1>8. DaemonsRight'
  <2>1. \A op \in Ops : ost'[op] = "active" <=> ost[op] = "active"
    BY <1>2, <1>3, <1>4 DEF OpInv, OpRight, LifeCycle
  <2> QED BY <2>1 DEF OpInv, DaemonsRight
<1>9. StartLast' /\ StartsRight'
  BY PopStartLast DEF OpInv, StartsRight
<1> QED BY <1>5, <1>7, <1>8, <1>9 DEF OpInv

LEMMA PopDestroyOp ==
    ASSUME TypeInv, CtrlInv, OpInv, NEW q \in Ranks, NEW r \in Ranks, NEW i,
           Front(q, r, i, "destroy"), Shifts(q, r, i, "destroy"), HoldsSlot(i, r),
           slot' = [slot EXCEPT ![r][q][batch[i][r]] = None],
           ost' = [op \in Ops |-> IF op \in Rmt(i, r) THEN "freed" ELSE ost[op]],
           UNCHANGED <<plan, starts, batch, que, dset, dpc, dop, events>>
    PROVE  OpInv' /\ \A op \in Rmt(i, r) : ost[op] = "idle"
<1>1. /\ i \in Plans /\ i \notin Once /\ Owner[i] = q /\ r \in Receivers(i) /\ plan[i] = "gone"
      /\ batch[i][r] \in Ids /\ i # None
  BY ChannelAssumption DEF Front
<1>2. Rmt(i, r) = {op \in Ops : op[1] = i /\ op[3] = "rmt" /\ At(op) = r}
  BY <1>1, LocAre
<1>3. \A op \in Ops : ost'[op] = IF op \in Rmt(i, r) THEN "freed" ELSE ost[op]
  OBVIOUS
<1>4. ASSUME NEW op \in Ops \ Rmt(i, r) PROVE OpRight(op)'
  BY <1>1, <1>3, <1>4, PopOpSame
<1>5. ~HoldsSlot(i, r)'
  <2>1. slot'[r][q][batch[i][r]] = None
    BY <1>1 DEF TypeInv, TypeOK
  <2> QED BY <1>1, <2>1 DEF HoldsSlot
<1>6. \A op \in Rmt(i, r) : ost[op] = "idle" /\ ~Owed(op) /\ op \notin dset[At(op)]
  <2> SUFFICES ASSUME NEW op \in Rmt(i, r)
               PROVE  ost[op] = "idle" /\ ~Owed(op) /\ op \notin dset[At(op)]
    OBVIOUS
  <2>1. op \in Ops /\ op[1] = i /\ op[3] = "rmt" /\ At(op) = r /\ OpRight(op)
    BY <1>2 DEF OpInv
  <2>2. ~Owed(op) /\ op \notin dset[At(op)] /\ ost[op] \in {"idle", "active"}
    BY <1>1, <2>1 DEF OpRight, LifeCycle
  <2> QED BY <2>2, OwedIs
<1>7. ASSUME NEW op \in Rmt(i, r) PROVE OpRight(op)'
  <2>1. op \in Ops /\ op[1] = i /\ op[3] = "rmt" /\ At(op) = r /\ OpRight(op)
    BY <1>2 DEF OpInv
  <2>2. /\ ost'[op] = "freed" /\ ~Owed(op) /\ ~Coming(op) /\ ~Due(op)'
        /\ op \notin dset'[At(op)]
    BY <1>3, <1>6, <2>1, DueSame, OwedIs
  <2>3. ~Coming(op)' /\ ~Owed(op)'
    <3>1. ~Coming(op)'
      BY <1>1, <2>1, <2>2 DEF Coming, Shifts
    <3> QED BY <2>2, <3>1 DEF Owed, Coming, Due
  <2>4. EventRight(op)'
    BY <2>1, <2>2, <2>3 DEF OpRight, EventRight
  <2>5. OwedOnce(op)'
    BY <2>2, <2>3 DEF OwedOnce
  <2>6. ~OnItsWay(i, r, "create")' /\ ~OnItsWay(i, r, "execute")'
    <3>1. ~OnItsWay(i, r, "create")
      BY <1>1, HoldsRight DEF CtrlInv
    <3>2. ~OnItsWay(i, r, "execute")
      BY <1>1, OnRight, OnFacts DEF TypeInv, CtrlInv
    <3> QED BY <1>1, <3>1, <3>2 DEF Shifts
  <2>7. LifeCycle(op)'
    BY <1>1, <1>5, <2>1, <2>2, <2>3, <2>6 DEF LifeCycle
  <2> QED BY <2>4, <2>5, <2>7 DEF OpRight
<1>8. DaemonsRight'
  <2>1. \A op \in Ops : ost'[op] = "active" <=> ost[op] = "active"
    BY <1>3, <1>6
  <2> QED BY <2>1 DEF OpInv, DaemonsRight
<1>9. StartLast' /\ StartsRight'
  BY PopStartLast DEF OpInv, StartsRight
<1> QED BY <1>4, <1>6, <1>7, <1>8, <1>9 DEF OpInv

LEMMA PopPostOp ==
    ASSUME TypeInv, CtrlInv, OpInv, NEW q \in Ranks, NEW r \in Ranks, NEW i, NEW type,
           Front(q, r, i, type), Shifts(q, r, i, type),
           (type = "start" /\ HoldsSlot(i, r)) \/ type = "execute",
           NEW t, Post(r, Rmt(i, r), t),
           UNCHANGED <<plan, starts, batch, slot, dset, dpc, dop, events>>
    PROVE  OpInv' /\ \A op \in Rmt(i, r) : type = "start" => ost[op] = "idle"
<1>1. /\ i \in Plans /\ Owner[i] = q /\ r \in Receivers(i) /\ plan[i] # "none"
      /\ On(i, r, 1, type) /\ OnAny(i, r, 1) /\ (type = "execute" <=> i \in Once)
      /\ i \notin Once => batch[i][r] \in Ids
  BY DEF Front
<1>2. Rmt(i, r) = {op \in Ops : op[1] = i /\ op[3] = "rmt" /\ At(op) = r}
  BY <1>1, LocAre
<1>3. /\ \A op \in Ops : ost'[op] = IF op \in Rmt(i, r) THEN "active" ELSE ost[op]
      /\ \A p \in Ranks : \A op : op \in que'[p] <=> op \in que[p] \/ (p = r /\ op \in Rmt(i, r))
  <2>1. Rmt(i, r) \in SUBSET Ops /\ TypeOK
    BY <1>2 DEF TypeInv
  <2>2. \A op \in Ops : ost'[op] = IF op \in Rmt(i, r) THEN "active" ELSE ost[op]
    BY <2>1, PostActive
  <2>3. \A p \in Ranks : \A op : op \in que'[p] <=> op \in que[p] \/ (p = r /\ op \in Rmt(i, r))
    BY <2>1, PostArrays
  <2> QED BY <2>2, <2>3
<1>4. ASSUME NEW op \in Ops \ Rmt(i, r) PROVE OpRight(op)'
  BY <1>3, <1>4, PopOpSame
<1>5. \A n \in Nat : \A u : ~On(i, r, n, u)'
  <2> SUFFICES ASSUME NEW n \in Nat, NEW u, On(i, r, n, u)' PROVE FALSE
    OBVIOUS
  <2>1. n + 1 \in Nat /\ n + 1 > 1 /\ OnAny(i, r, n + 1)
    <3>1. n > 0 /\ On(i, r, n + 1, u)
      BY <1>1 DEF Shifts
    <3>2. OnAny(i, r, n + 1)
      BY <3>1 DEF On, OnAny
    <3> QED BY <3>1, <3>2
  <2>2. CASE type = "start"
    BY <1>1, <2>1, <2>2 DEF OpInv, StartLast
  <2>3. CASE type = "execute"
    BY <1>1, <2>1, <2>3 DEF CtrlInv, MessagesOrdered
  <2> QED BY <2>2, <2>3
<1>6. \A u : ~OnItsWay(i, r, u)'
  BY <1>1, <1>5 DEF Shifts
<1>7. OnItsWay(i, r, type)
  BY <1>1, OnFacts DEF TypeInv
<1>8. \A op \in Rmt(i, r) : /\ Coming(op) /\ Owed(op) /\ ~Due(op) /\ ost[op] # "active"
                            /\ (type = "start" => ost[op] = "idle")
                            /\ (type = "execute" => ost[op] = "none")
                            /\ plan[i] = "gone" => i \in Once
  <2> SUFFICES ASSUME NEW op \in Rmt(i, r)
               PROVE  /\ Coming(op) /\ Owed(op) /\ ~Due(op) /\ ost[op] # "active"
                      /\ (type = "start" => ost[op] = "idle")
                      /\ (type = "execute" => ost[op] = "none")
                      /\ plan[i] = "gone" => i \in Once
    OBVIOUS
  <2>1. op \in Ops /\ op[1] = i /\ op[3] = "rmt" /\ At(op) = r /\ OpRight(op)
    BY <1>2 DEF OpInv
  <2>2. Coming(op) /\ Owed(op)
    BY <1>7, <2>1, OwedIs DEF Coming
  <2>3. ~Due(op) /\ ost[op] # "active"
    BY <2>1, <2>2 DEF OpRight, OwedOnce
  <2>4. plan[i] = "gone" => i \in Once
    BY <2>1, <2>2 DEF OpRight, LifeCycle
  <2>5. type = "start" => ost[op] = "idle"
    BY <1>1, <2>1, <2>3 DEF OpRight, LifeCycle
  <2>6. type = "execute" => ost[op] = "none"
    BY <1>7, <2>1 DEF OpRight, LifeCycle
  <2> QED BY <2>2, <2>3, <2>4, <2>5, <2>6
<1>9. ASSUME NEW op \in Rmt(i, r) PROVE OpRight(op)'
  <2>1. op \in Ops /\ op[1] = i /\ op[3] = "rmt" /\ At(op) = r /\ OpRight(op)
    BY <1>2 DEF OpInv
  <2>2. ost'[op] = "active" /\ ~Due(op)' /\ ~Coming(op)' /\ Owed(op)' /\ Owed(op)
    <3>1. ost'[op] = "active" /\ ~Due(op)'
      BY <1>3, <1>8, <2>1, DueSame
    <3>2. ~Coming(op)'
      BY <1>6, <2>1 DEF Coming
    <3>3. Owed(op)'
      BY <3>1 DEF Owed
    <3> QED BY <1>8, <3>1, <3>2, <3>3
  <2>3. EventRight(op)'
    BY <2>1, <2>2 DEF OpRight, EventRight
  <2>4. OwedOnce(op)'
    <3>1. op \in dset[At(op)] => i \notin Once
      BY <1>1, <1>8, <2>1 DEF OpRight, OwedOnce
    <3> QED BY <2>1, <2>2, <3>1 DEF OwedOnce
  <2>5. LifeCycle(op)'
    BY <1>1, <1>6, <1>8, <2>1, <2>2 DEF LifeCycle
  <2> QED BY <2>3, <2>4, <2>5 DEF OpRight
<1>10. DaemonsRight'
  <2> SUFFICES ASSUME NEW p \in Ranks, NEW op \in Ops
               PROVE  op \in que'[p] <=> At(op) = p /\ ost'[op] = "active"
    BY DEF OpInv, DaemonsRight
  <2>1. op \in que[p] <=> At(op) = p /\ ost[op] = "active"
    BY DEF OpInv, DaemonsRight
  <2>2. op \in Rmt(i, r) => At(op) = r /\ ost[op] # "active"
    BY <1>2, <1>8
  <2> QED BY <1>3, <2>1, <2>2
<1>11. StartLast' /\ StartsRight'
  BY PopStartLast DEF OpInv, StartsRight
<1> QED BY <1>4, <1>8, <1>9, <1>10, <1>11 DEF OpInv

LEMMA DaemonCtrlOp ==
    ASSUME TypeInv, CtrlInv, CtrlInv', OpInv,
           NEW r \in Ranks, NEW q \in Ranks, DaemonCtrl(r, q)
    PROVE  OpInv' /\ UNCHANGED err
<1> DEFINE m == ctrl[q][r][1]  i == m.plan  type == m.type
<1>1. /\ ctrl[q][r] # <<>> /\ ctrl' = [ctrl EXCEPT ![q][r] = Tail(@)]
      /\ Head(ctrl[q][r]) = m
      /\ UNCHANGED <<plan, starts, batch, batches, dset, dpc, dop, events>>
      /\ CtrlCreate(r, q, m) \/ CtrlStart(r, q, m) \/ CtrlDestroy(r, q, m) \/ CtrlExecute(r, q, m)
  <2>1. ctrl[q][r] # <<>> /\ ctrl' = [ctrl EXCEPT ![q][r] = Tail(@)]
    BY DEF DaemonCtrl
  <2>2. Head(ctrl[q][r]) = m
    BY <2>1, PopOn DEF TypeInv
  <2> HIDE DEF m
  <2> QED BY <2>1, <2>2 DEF DaemonCtrl, planVars, dmnVars
<1>2. Front(q, r, i, type) /\ Shifts(q, r, i, type)
  BY <1>1, PopShift
<1>3. /\ type # "execute" => m.batch = batch[i][r]
      /\ i \in Plans /\ i # None /\ Owner[i] = q /\ r \in Receivers(i) /\ On(i, r, 1, type)
      /\ type = "start" => i \notin Once
  BY <1>2, ChannelAssumption DEF Front
<1>4. CASE CtrlCreate(r, q, m)
  <2>1. /\ type = "create" /\ slot' = [slot EXCEPT ![r][q][batch[i][r]] = i]
        /\ ost' = [op \in Ops |-> IF op \in Rmt(i, r) THEN "idle" ELSE ost[op]]
        /\ UNCHANGED que
        /\ slot[r][q][batch[i][r]] # None \/ UNCHANGED err
    BY <1>3, <1>4 DEF CtrlCreate
  <2> HIDE DEF m, i, type
  <2>2. slot[r][q][batch[i][r]] = None
    BY <1>1, <1>2, <2>1, PopCreate
  <2>3. OpInv'
    BY <1>1, <1>2, <2>1, PopCreateOp
  <2> QED BY <2>1, <2>2, <2>3
<1>5. CASE CtrlDestroy(r, q, m)
  <2>1. /\ type = "destroy" /\ slot' = [slot EXCEPT ![r][q][batch[i][r]] = None]
        /\ m.batch = batch[i][r] /\ UNCHANGED que
    BY <1>3, <1>5 DEF CtrlDestroy
  <2>2. slot[r][q][batch[i][r]] = i
    <3> HIDE DEF m, i, type
    <3> QED BY <1>1, <1>2, <2>1, PopDestroy
  <2>3. /\ ost' = [op \in Ops |-> IF op \in Rmt(i, r) THEN "freed" ELSE ost[op]]
        /\ (\E op \in Rmt(i, r) : ost[op] # "idle") \/ UNCHANGED err
    BY <1>3, <1>5, <2>1, <2>2 DEF CtrlDestroy
  <2> HIDE DEF m, i, type
  <2>4. HoldsSlot(i, r)
    BY <1>3, <2>2 DEF HoldsSlot
  <2>5. OpInv' /\ \A op \in Rmt(i, r) : ost[op] = "idle"
    BY <1>1, <1>2, <2>1, <2>3, <2>4, PopDestroyOp
  <2> QED BY <2>3, <2>5
<1>6. CASE CtrlStart(r, q, m)
  <2>1. type = "start" /\ m.batch = batch[i][r] /\ i \notin Once /\ UNCHANGED slot
    BY <1>3, <1>6 DEF CtrlStart
  <2>2. HoldsSlot(i, r)
    <3> HIDE DEF m, i, type
    <3>1. \A k \in Nat : ~(k < 1 /\ On(i, r, k, "create"))
      BY <1>3, OnFacts DEF TypeInv
    <3> QED BY <1>3, <2>1, <3>1 DEF CtrlInv, MessagesMeet
  <2>3. slot[r][q][m.batch] = i
    BY <1>3, <2>1, <2>2 DEF HoldsSlot
  <2>4. /\ Post(r, Rmt(i, r), Tags(Rmt(i, r)))
        /\ (\E op \in Rmt(i, r) : ost[op] # "idle") \/ UNCHANGED err
    <3>1. /\ (\E op \in Rmt(slot[r][q][m.batch], r) : ost[op] # "idle") \/ UNCHANGED err
          /\ Post(r, Rmt(slot[r][q][m.batch], r), Tags(Rmt(slot[r][q][m.batch], r)))
      BY <1>3, <1>6, <2>3 DEF CtrlStart
    <3> HIDE DEF m, i, type
    <3> QED BY <2>3, <3>1
  <2> HIDE DEF m, i, type
  <2> DEFINE t == Tags(Rmt(i, r))
  <2>5. Post(r, Rmt(i, r), t)
    BY <2>4
  <2> HIDE DEF t
  <2>6. OpInv' /\ \A op \in Rmt(i, r) : ost[op] = "idle"
    BY <1>1, <1>2, <2>1, <2>2, <2>5, PopPostOp
  <2> QED BY <2>4, <2>6
<1>7. CASE CtrlExecute(r, q, m)
  <2>1. /\ type = "execute" /\ UNCHANGED <<slot, err>>
        /\ Post(r, Rmt(i, r), Tags(Rmt(i, r)))
    BY <1>7 DEF CtrlExecute
  <2> HIDE DEF m, i, type
  <2> DEFINE t == Tags(Rmt(i, r))
  <2>2. Post(r, Rmt(i, r), t)
    BY <2>1
  <2> HIDE DEF t
  <2> QED BY <1>1, <1>2, <2>1, <2>2, PopPostOp
<1> QED BY <1>1, <1>4, <1>5, <1>6, <1>7

\* The steps that leave the plans and the messages as they are
LEMMA QuietOp ==
    ASSUME OpInv, UNCHANGED <<plan, starts, batch, ctrl, slot>>
    PROVE  /\ StartLast' /\ StartsRight'
           /\ \A op : Coming(op)' <=> Coming(op)
           /\ \A op : Owed(op)' <=> Coming(op) \/ ost'[op] = "active" \/ Due(op)'
           /\ \A i, q, t : OnItsWay(i, q, t)' <=> OnItsWay(i, q, t)
           /\ \A i, q : HoldsSlot(i, q)' <=> HoldsSlot(i, q)
<1>1. \A i, q, n, t : /\ On(i, q, n, t)' <=> On(i, q, n, t)
                      /\ OnAny(i, q, n)' <=> OnAny(i, q, n)
                      /\ OnItsWay(i, q, t)' <=> OnItsWay(i, q, t)
  BY DEF On, OnAny, OnItsWay
<1>2. \A op : Coming(op)' <=> Coming(op)
  BY <1>1 DEF Coming
<1>3. \A op : Owed(op)' <=> Coming(op) \/ ost'[op] = "active" \/ Due(op)'
  BY <1>2 DEF Owed, Coming, Due
<1>4. StartLast' /\ StartsRight'
  BY <1>1 DEF OpInv, StartLast, StartsRight
<1>5. \A i, q : HoldsSlot(i, q)' <=> HoldsSlot(i, q)
  BY DEF HoldsSlot
<1> QED BY <1>1, <1>2, <1>3, <1>4, <1>5

LEMMA DaemonTestOp ==
    ASSUME TypeInv, OpInv, NEW r \in Ranks, NEW S \in SUBSET Completed(r), S # {}, DaemonTest(r, S)
    PROVE  OpInv' /\ UNCHANGED err
<1>1. /\ dpc[r] = "probe"
      /\ ost' = [op \in Ops |-> IF op \in S THEN "idle" ELSE ost[op]]
      /\ que' = [que EXCEPT ![r] = @ \ S] /\ dset' = [dset EXCEPT ![r] = S]
      /\ dpc' = [dpc EXCEPT ![r] = "event"]
      /\ UNCHANGED <<plan, starts, batch, ctrl, slot, dop, events, err>>
  BY DEF DaemonTest, planVars
<1>2. /\ que \in [Ranks -> SUBSET Ops] /\ dset \in [Ranks -> SUBSET Ops]
      /\ dpc \in [Ranks -> {"probe", "event", "release"}]
  BY DEF TypeInv, TypeOK
<1>3. \A op \in S : op \in Ops /\ op \in que[r] /\ ost[op] = "active" /\ At(op) = r
  BY <1>2 DEF Completed, OpInv, DaemonsRight
<1>4. dset[r] = {}
  BY <1>1 DEF OpInv, DaemonsRight
<1>5. /\ \A op \in Ops : ost'[op] = IF op \in S THEN "idle" ELSE ost[op]
      /\ \A p \in Ranks : \A op : /\ op \in dset'[p] <=> IF p = r THEN op \in S ELSE op \in dset[p]
                                  /\ op \in que'[p] <=> op \in que[p] /\ ~(p = r /\ op \in S)
      /\ dset'[r] = S /\ \A p \in Ranks : p # r => dset'[p] = dset[p]
      /\ \A p \in Ranks : dpc'[p] = IF p = r THEN "event" ELSE dpc[p]
  BY <1>1, <1>2
<1>6. ASSUME NEW op \in Ops \ S PROVE OpRight(op)'
  <2>1. At(op) \in Ranks /\ OpRight(op) /\ op[1] \in Plans
    BY OpFacts DEF OpInv
  <2>2. op \in dset'[At(op)] <=> op \in dset[At(op)]
    BY <1>4, <1>5, <2>1
  <2>3. Due(op)' <=> Due(op)
    <3>1. CASE At(op) = r
      BY <1>4, <1>5, <2>1, <2>2, <3>1 DEF Due
    <3>2. CASE At(op) # r
      BY <1>1, <1>5, <2>1, <2>2, <3>2 DEF Due
    <3> QED BY <3>1, <3>2
  <2>4. HoldsSlot(op[1], At(op))' => HoldsSlot(op[1], At(op))
    BY <1>1, QuietOp
  <2>5. \A t : OnItsWay(op[1], At(op), t)' <=> OnItsWay(op[1], At(op), t)
    BY <1>1, QuietOp
  <2> QED BY <1>1, <1>5, <2>1, <2>2, <2>3, <2>4, <2>5, OpSame
<1>7. ASSUME NEW op \in S PROVE OpRight(op)'
  <2>1. op \in Ops /\ At(op) = r /\ ost[op] = "active" /\ OpRight(op) /\ op[1] \in Plans
    BY <1>3, OpFacts DEF OpInv
  <2>2. ost'[op] = "idle" /\ op \in dset'[At(op)] /\ Due(op)'
    BY <1>5, <2>1 DEF Due
  <2>3. Owed(op) /\ ~Coming(op)
    BY <2>1, OwedIs DEF OpRight, OwedOnce
  <2>4. /\ Owed(op)' /\ ~Coming(op)'
        /\ \A t : OnItsWay(op[1], At(op), t)' <=> OnItsWay(op[1], At(op), t)
    BY <1>1, <2>2, <2>3, QuietOp
  <2>5. EventRight(op)'
    BY <1>1, <2>1, <2>3, <2>4 DEF OpRight, EventRight
  <2>6. OwedOnce(op)'
    BY <2>2, <2>4 DEF OwedOnce
  <2>7. LifeCycle(op)'
    BY <1>1, <2>1, <2>2, <2>3, <2>4 DEF OpRight, LifeCycle
  <2> QED BY <2>5, <2>6, <2>7 DEF OpRight
<1>8. DaemonsRight'
  <2>1. ASSUME NEW p \in Ranks, NEW op \in Ops
        PROVE  /\ op \in que'[p] <=> At(op) = p /\ ost'[op] = "active"
               /\ op \in dset'[p] => At(op) = p
    BY <1>3, <1>5 DEF OpInv, DaemonsRight
  <2>2. ASSUME NEW p \in Ranks PROVE dpc'[p] = "probe" <=> dset'[p] = {}
    BY <1>5 DEF OpInv, DaemonsRight
  <2> QED BY <2>1, <2>2 DEF DaemonsRight
<1>9. StartLast' /\ StartsRight'
  BY <1>1, QuietOp
<1> QED BY <1>1, <1>6, <1>7, <1>8, <1>9 DEF OpInv

LEMMA DaemonEventOp ==
    ASSUME TypeInv, OpInv, NEW r \in Ranks, DaemonEvent(r)
    PROVE  OpInv' /\ UNCHANGED err
<1>1. PICK x \in dset[r] :
         /\ ost[x] = "freed" \/ UNCHANGED err
         /\ events' = [events EXCEPT ![x] = @ + 1] /\ dop' = [dop EXCEPT ![r] = x]
  BY DEF DaemonEvent
<1>2. /\ dpc[r] = "event" /\ dpc' = [dpc EXCEPT ![r] = "release"]
      /\ UNCHANGED <<plan, starts, batch, ctrl, slot, ost, que, dset>>
  BY DEF DaemonEvent, planVars, mpiVars
<1>3. /\ dset \in [Ranks -> SUBSET Ops] /\ events \in [Ops -> Nat] /\ starts \in [Plans -> Nat]
      /\ dop \in [Ranks -> Ops \cup {None}] /\ dpc \in [Ranks -> {"probe", "event", "release"}]
  BY DEF TypeInv, TypeOK
<1>4. x \in Ops /\ At(x) = r /\ OpRight(x) /\ x[1] \in Plans
  BY <1>3, OpFacts DEF OpInv, DaemonsRight
<1>5. Due(x)
  BY <1>2, <1>4 DEF Due
<1>6. ost[x] = "idle" /\ ~Coming(x) /\ Owed(x)
  BY <1>4, <1>5, OwedIs DEF OpRight, OwedOnce
<1>7. /\ \A op \in Ops : events'[op] = IF op = x THEN events[op] + 1 ELSE events[op]
      /\ \A p \in Ranks : /\ dop'[p] = IF p = r THEN x ELSE dop[p]
                          /\ dpc'[p] = IF p = r THEN "release" ELSE dpc[p]
  BY <1>1, <1>2, <1>3
<1>8. ASSUME NEW op \in Ops, op # x PROVE OpRight(op)'
  <2>1. At(op) \in Ranks /\ OpRight(op) /\ op[1] \in Plans
    BY OpFacts DEF OpInv
  <2>2. op \in dset'[At(op)] <=> op \in dset[At(op)]
    BY <1>2
  <2>3. Due(op)' <=> Due(op)
    BY <1>2, <1>7, <1>8, <2>1 DEF Due
  <2>4. HoldsSlot(op[1], At(op))' => HoldsSlot(op[1], At(op))
    BY <1>2, QuietOp
  <2>5. \A t : OnItsWay(op[1], At(op), t)' <=> OnItsWay(op[1], At(op), t)
    BY <1>2, QuietOp
  <2> QED BY <1>2, <1>7, <1>8, <2>1, <2>2, <2>3, <2>4, <2>5, OpSame
<1>9. OpRight(x)'
  <2>1. ~Due(x)' /\ ost'[x] = "idle"
    BY <1>2, <1>4, <1>6, <1>7 DEF Due
  <2>2. /\ ~Owed(x)' /\ ~Coming(x)'
        /\ \A t : OnItsWay(x[1], At(x), t)' <=> OnItsWay(x[1], At(x), t)
    BY <1>2, <1>6, <2>1, QuietOp
  <2>3. EventRight(x)'
    <3>1. events[x] = starts[x[1]] - 1 /\ events'[x] = events[x] + 1
      BY <1>4, <1>6, <1>7 DEF OpRight, EventRight
    <3>2. starts[x[1]] \in Nat
      BY <1>3, <1>4
    <3>3. events'[x] = starts'[x[1]]
      BY <1>2, <3>1, <3>2
    <3> QED BY <2>2, <3>3 DEF EventRight
  <2>4. OwedOnce(x)'
    BY <2>1, <2>2 DEF OwedOnce
  <2>5. LifeCycle(x)'
    BY <1>2, <1>4, <1>6, <2>1, <2>2 DEF OpRight, LifeCycle
  <2> QED BY <2>3, <2>4, <2>5 DEF OpRight
<1>10. DaemonsRight'
  <2>1. \A p \in Ranks : dpc'[p] = "probe" <=> dpc[p] = "probe"
    BY <1>2, <1>7
  <2> QED BY <1>2, <2>1 DEF OpInv, DaemonsRight
<1>11. StartLast' /\ StartsRight'
  BY <1>2, QuietOp
<1> QED BY <1>1, <1>6, <1>8, <1>9, <1>10, <1>11 DEF OpInv

LEMMA DaemonReleaseOp ==
    ASSUME TypeInv, OpInv, NEW r \in Ranks, DaemonRelease(r)
    PROVE  /\ OpInv' /\ UNCHANGED err
           /\ ost[dop[r]] = "idle" \/ (dop[r][1] \notin Once /\ ost[dop[r]] = "active")
<1>0. PICK x \in Ops : x = dop[r] /\ x \in dset[r]
  BY DEF DaemonRelease, TypeInv, TypeOK, Taken, ArraysTaken
<1>1. /\ dpc[r] = "release"
      /\ ost[x] = "freed" \/ UNCHANGED err
      /\ ost' = IF FreesOp(x) THEN [ost EXCEPT ![x] = "freed"] ELSE ost
      /\ dset' = [dset EXCEPT ![r] = @ \ {x}]
      /\ dpc' = [dpc EXCEPT ![r] = IF dset'[r] = {} THEN "probe" ELSE "event"]
      /\ UNCHANGED <<plan, starts, batch, ctrl, slot, que, dop, events>>
  BY <1>0 DEF DaemonRelease
<1>2. /\ dset \in [Ranks -> SUBSET Ops] /\ ost \in [Ops -> {"none", "idle", "active", "freed"}]
      /\ dop \in [Ranks -> Ops \cup {None}] /\ dpc \in [Ranks -> {"probe", "event", "release"}]
  BY DEF TypeInv, TypeOK
<1>3. x \in dset[r] /\ x \in Ops
  BY <1>0
<1>4. At(x) = r /\ OpRight(x) /\ x[1] \in Plans
  BY <1>3, OpFacts DEF OpInv, DaemonsRight
<1>5. ost[x] = "idle" \/ (x[1] \notin Once /\ ost[x] = "active")
  BY <1>3, <1>4 DEF OpRight, OwedOnce
<1>6. /\ \A op \in Ops : ost'[op] = IF op = x /\ x[1] \in Once THEN "freed" ELSE ost[op]
      /\ \A p \in Ranks : \A op : op \in dset'[p] <=> op \in dset[p] /\ ~(p = r /\ op = x)
      /\ \A p \in Ranks : dpc'[p] = IF p = r THEN IF dset'[r] = {} THEN "probe" ELSE "event"
                                             ELSE dpc[p]
      /\ \A p \in Ranks : p # r => dset'[p] = dset[p]
  BY <1>1, <1>2 DEF FreesOp
<1>7. ~Due(x) /\ x = dop[r]
  BY <1>0, <1>1, <1>4 DEF Due
<1>8. ASSUME NEW op \in Ops, op # x PROVE OpRight(op)'
  <2>1. At(op) \in Ranks /\ OpRight(op) /\ op[1] \in Plans
    BY OpFacts DEF OpInv
  <2>2. op \in dset'[At(op)] <=> op \in dset[At(op)]
    BY <1>6, <1>8, <2>1
  <2>3. Due(op)' <=> Due(op)
    <3>1. CASE At(op) = r
      BY <1>1, <1>6, <1>7, <1>8, <2>1, <2>2, <3>1 DEF Due
    <3>2. CASE At(op) # r
      BY <1>1, <1>6, <2>1, <2>2, <3>2 DEF Due
    <3> QED BY <3>1, <3>2
  <2>4. HoldsSlot(op[1], At(op))' => HoldsSlot(op[1], At(op))
    BY <1>1, QuietOp
  <2>5. \A t : OnItsWay(op[1], At(op), t)' <=> OnItsWay(op[1], At(op), t)
    BY <1>1, QuietOp
  <2> QED BY <1>1, <1>6, <1>8, <2>1, <2>2, <2>3, <2>4, <2>5, OpSame
<1>9. OpRight(x)'
  <2>1. x \notin dset'[At(x)] /\ ~Due(x)'
    BY <1>4, <1>6 DEF Due
  <2>2. /\ \A t : OnItsWay(x[1], At(x), t)' <=> OnItsWay(x[1], At(x), t)
        /\ Coming(x)' <=> Coming(x)
        /\ HoldsSlot(x[1], At(x))' <=> HoldsSlot(x[1], At(x))
    BY <1>1, QuietOp
  <2>3. ost'[x] = "active" <=> ost[x] = "active"
    BY <1>3, <1>5, <1>6
  <2>4. Owed(x)' <=> Owed(x)
    <3>1. Owed(x)' <=> Coming(x) \/ ost'[x] = "active" \/ Due(x)'
      BY <1>1, QuietOp
    <3> QED BY <1>7, <2>1, <2>3, <3>1, OwedIs
  <2>5. EventRight(x)'
    BY <1>1, <1>4, <2>4 DEF OpRight, EventRight
  <2>6. OwedOnce(x)'
    BY <1>4, <2>1, <2>2, <2>3 DEF OpRight, OwedOnce
  <2>7. plan[x[1]] = "none" => ost[x] = "none"
    BY <1>4 DEF OpRight, LifeCycle
  <2>8. LifeCycle(x)'
    <3>1. CASE x[1] \notin Once
      BY <1>1, <1>3, <1>4, <1>6, <2>1, <2>2, <2>4, <3>1 DEF OpRight, LifeCycle
    <3>2. CASE x[1] \in Once
      BY <1>1, <1>4, <1>5, <2>2, <2>7, <3>2 DEF OpRight, LifeCycle
    <3> QED BY <3>1, <3>2
  <2> QED BY <2>5, <2>6, <2>8 DEF OpRight
<1>10. DaemonsRight'
  <2>1. ASSUME NEW p \in Ranks, NEW op \in Ops
        PROVE  /\ op \in que'[p] <=> At(op) = p /\ ost'[op] = "active"
               /\ op \in dset'[p] => At(op) = p
    BY <1>1, <1>5, <1>6 DEF OpInv, DaemonsRight
  <2>2. ASSUME NEW p \in Ranks PROVE dpc'[p] = "probe" <=> dset'[p] = {}
    BY <1>6 DEF OpInv, DaemonsRight
  <2> QED BY <2>1, <2>2 DEF DaemonsRight
<1>11. StartLast' /\ StartsRight'
  BY <1>1, QuietOp
<1>12. UNCHANGED err
  BY <1>1, <1>5
<1> QED BY <1>0, <1>5, <1>8, <1>9, <1>10, <1>11, <1>12 DEF OpInv

LEMMA InitOp == Init => OpInv /\ NoError
<1> SUFFICES ASSUME Init PROVE OpInv /\ NoError
  OBVIOUS
<1>1. /\ \A i \in Plans : plan[i] = "none" /\ starts[i] = 0
      /\ \A op \in Ops : ost[op] = "none" /\ events[op] = 0
      /\ \A r \in Ranks : dset[r] = {} /\ que[r] = {} /\ dpc[r] = "probe"
      /\ \A r, q \in Ranks : ctrl[r][q] = <<>>
      /\ err = "no"
  BY DEF Init
<1>2. TypeInv
  BY InitType
<1>3. \A i \in Plans : \A q \in Ranks : \A n, t : ~On(i, q, n, t) /\ ~OnItsWay(i, q, t)
  <2>1. \A i \in Plans : \A q \in Ranks : Len(ctrl[Owner[i]][q]) = 0
    BY <1>1, PlanFacts
  <2> QED BY <2>1 DEF On, OnItsWay
<1>4. StartLast
  BY <1>3, PlanFacts DEF StartLast
<1>5. ASSUME NEW op \in Ops PROVE OpRight(op)
  <2>1. op[1] \in Plans /\ At(op) \in Ranks
    BY OpFacts
  <2>2. ~Coming(op) /\ ~Due(op) /\ ~Owed(op) /\ op \notin dset[At(op)]
    BY <1>1, <1>3, <2>1, OwedIs DEF Coming, Due
  <2> QED BY <1>1, <1>3, <2>1, <2>2 DEF OpRight, EventRight, OwedOnce, LifeCycle
<1> QED BY <1>1, <1>4, <1>5 DEF OpInv, StartsRight, DaemonsRight, NoError

LEMMA StepOp ==
    ASSUME ~EarlyDestroy, TypeInv, CtrlInv, OpInv, NoError, [Next]_vars
    PROVE  OpInv' /\ NoError'
<1> SUFFICES OpInv' /\ UNCHANGED err
  BY DEF NoError
<1>1. ASSUME NEW i \in Plans, PlanCreate(i) \/ RdmaStart(i) \/ PlanStart(i) \/ PlanDestroy(i)
      PROVE  OpInv' /\ UNCHANGED err
  BY <1>1, PlanCreateOp, RdmaStartOp, PlanStartOp, PlanDestroyOp
<1>2. ASSUME NEW r \in Ranks, NEW q \in Ranks, DaemonCtrl(r, q) PROVE OpInv' /\ UNCHANGED err
  BY <1>2, DaemonCtrlCtrl, DaemonCtrlOp
<1>3. ASSUME NEW r \in Ranks, NEW S \in SUBSET Completed(r), S # {}, DaemonTest(r, S)
      PROVE  OpInv' /\ UNCHANGED err
  BY <1>3, DaemonTestOp
<1>4. ASSUME NEW r \in Ranks, DaemonEvent(r) \/ DaemonRelease(r) PROVE OpInv' /\ UNCHANGED err
  BY <1>4, DaemonEventOp, DaemonReleaseOp
<1>5. CASE UNCHANGED vars
  <2>1. UNCHANGED <<plan, starts, batch, ctrl, slot, ost, que, dpc, dset, dop, events, err>>
    BY <1>5 DEF vars, planVars, mpiVars, dmnVars
  <2>2. /\ StartLast' /\ StartsRight' /\ (\A op : Coming(op)' <=> Coming(op))
        /\ \A op : Owed(op)' <=> Coming(op) \/ ost'[op] = "active" \/ Due(op)'
        /\ \A i, q, t : OnItsWay(i, q, t)' <=> OnItsWay(i, q, t)
        /\ \A i, q : HoldsSlot(i, q)' <=> HoldsSlot(i, q)
    BY <2>1, QuietOp
  <2>3. \A op : Due(op)' <=> Due(op)
    BY <2>1, DueSame
  <2>4. \A op \in Ops : OpRight(op)'
    BY <2>1, <2>2, <2>3, OpSame DEF OpInv
  <2>5. DaemonsRight'
    BY <2>1 DEF OpInv, DaemonsRight
  <2> QED BY <2>1, <2>2, <2>4, <2>5 DEF OpInv
<1> QED BY <1>1, <1>2, <1>3, <1>4, <1>5 DEF Next, Daemon

\* When the daemons have let the operations of a plan go before it is destroyed
\* (what the tests reach with a barrier), no assertion of
\* uri_mpi_process_ctrl_msg fails, no active request is started or freed and the
\* daemon uses no freed operation.
THEOREM NoErrorEver == ~EarlyDestroy => (Spec => []NoError)
<1> SUFFICES ASSUME ~EarlyDestroy PROVE Spec => []NoError
  OBVIOUS
<1> DEFINE Inv == TypeInv /\ CtrlInv /\ OpInv /\ NoError
<1>1. Init => Inv
  BY InitType, InitCtrl, InitOp
<1>2. Inv /\ [Next]_vars => Inv'
  BY StepType, StepCtrl, StepOp
<1>3. Inv => NoError
  OBVIOUS
<1> QED BY <1>1, <1>2, <1>3, PTL DEF Spec

-----------------------------------------------------------------------------
(* Which sends MPI matches with which receives *)

\* No transfer of a rank with itself: there a send and a receive of different
\* transfers may have one key.
NoSelf == \A i \in Plans : \A k \in Indices(i) : Wrts[i][k].dst # Owner[i]

\* The local half has its tag from the pool.
Live(op) == op[3] = "loc" /\ ost[op] \in {"idle", "active"}

\* The tags of a plan, and those a rank may hand out next, differ.
PlanTags == \A i \in Plans : plan[i] # "none" => \A j, k \in Indices(i) :
                Wrts[i][j].dst = Wrts[i][k].dst /\ tag[i][j] = tag[i][k] => j = k
PoolTags == \A r, q \in Ranks : \A a, b \in 1 .. Len(tags[r][q]) :
                tags[r][q][a] = tags[r][q][b] => a = b
LiveTags == \A x \in Ops : Live(x) =>
                /\ \A a \in 1 .. Len(tags[At(x)][Peer(x)]) : tags[At(x)][Peer(x)][a] # TagOf(x)
                /\ \A y \in Ops : /\ Live(y) /\ At(x) = At(y) /\ Peer(x) = Peer(y)
                                  /\ TagOf(x) = TagOf(y)
                                  => x = y
TagsHeld == PlanTags /\ PoolTags /\ LiveTags

\* The message that starts the remote half is on its way.
HalfStarted(op) == Coming(op) \/ Coming(Partner(op))

\* MPI holds the operation and has not matched it.
Waits(op) == \E a \in 1 .. Len(posted[Key(op, TagOf(op))]) : posted[Key(op, TagOf(op))][a] = op

\* The n-th message to the peer of a local half starts its other half.
StartsAt(op, n) == On(op[1], Peer(op), n, "start") \/ On(op[1], Peer(op), n, "execute")

\* What waits in MPI is a local half whose other half has not been started, in
\* the order in which the other halves will be.
PostedRight ==
    \A key \in Keys : \A a \in 1 .. Len(posted[key]) : LET x == posted[key][a] IN
        x[3] = "loc" /\ Key(x, TagOf(x)) = key /\ Coming(Partner(x))
PostedOrder ==
    \A key \in Keys : \A a, b \in 1 .. Len(posted[key]) : \A n, m \in Nat :
        a < b /\ StartsAt(posted[key][a], n) /\ StartsAt(posted[key][b], m) => n < m

\* Two halves of a transfer are matched with each other or not at all.
MatchRight ==
    \A op \in Ops : starts[op[1]] > 0 =>
        IF HalfStarted(op) THEN op[3] = "loc" => got[op] = None /\ Waits(op)
                       ELSE got[op] = Partner(op)

MatchInv == TagsHeld /\ PostedRight /\ PostedOrder /\ MatchRight

-----------------------------------------------------------------------------
(* Matching *)

\* A key tells the two ranks, the initiator, the direction and the tag.
LEMMA KeySame ==
    ASSUME NoSelf, NEW x \in Ops, NEW y \in Ops, NEW n, NEW m, Key(x, n) = Key(y, m)
    PROVE  /\ Owner[x[1]] = Owner[y[1]] /\ n = m
           /\ Wrts[x[1]][x[2]].dst = Wrts[y[1]][y[2]].dst
           /\ (IsSend(x) <=> IsSend(y)) <=> x[3] = y[3]
<1> DEFINE far(op) == Wrts[op[1]][op[2]].dst  near(op) == Owner[op[1]]
           put(op) == Wrts[op[1]][op[2]].dma = "put"
<1>1. ASSUME NEW op \in Ops, NEW l
      PROVE  /\ Key(op, l) = IF put(op) THEN <<near(op), far(op), <<l, near(op)>>>>
                                        ELSE <<far(op), near(op), <<l, near(op)>>>>
             /\ IsSend(op) <=> (put(op) <=> op[3] = "loc")
             /\ near(op) # far(op) /\ op[3] \in {"loc", "rmt"}
  <2>1. op[1] \in Plans /\ op[2] \in Indices(op[1]) /\ op[3] \in {"loc", "rmt"}
    BY OpFacts
  <2>2. At(op) = (IF op[3] = "loc" THEN near(op) ELSE far(op))
        /\ Peer(op) = IF op[3] = "loc" THEN far(op) ELSE near(op)
    BY <2>1 DEF At, Peer, Partner
  <2>3. IsSend(op) <=> (put(op) <=> op[3] = "loc")
    BY <2>1 DEF IsSend
  <2>4. near(op) # far(op)
    BY <2>1 DEF NoSelf
  <2> HIDE DEF near, far, put
  <2>5. Key(op, l) = <<IF IsSend(op) THEN At(op) ELSE Peer(op),
                       IF IsSend(op) THEN Peer(op) ELSE At(op), <<l, near(op)>>>>
    BY DEF Key, near
  <2>6. CASE put(op)
    BY <2>1, <2>2, <2>3, <2>4, <2>5, <2>6
  <2>7. CASE ~put(op)
    BY <2>1, <2>2, <2>3, <2>4, <2>5, <2>7
  <2> QED BY <2>6, <2>7
<1> HIDE DEF near, far, put
<1>2. near(x) = near(y) /\ n = m /\ far(x) = far(y) /\ (put(x) <=> put(y))
  <2>1. /\ near(x) # far(x) /\ near(y) # far(y)
        /\ Key(x, n) = IF put(x) THEN <<near(x), far(x), <<n, near(x)>>>>
                                 ELSE <<far(x), near(x), <<n, near(x)>>>>
        /\ Key(y, m) = IF put(y) THEN <<near(y), far(y), <<m, near(y)>>>>
                                 ELSE <<far(y), near(y), <<m, near(y)>>>>
    BY <1>1
  <2>2. Key(x, n) = Key(y, m)
    OBVIOUS
  <2>3. /\ near(x) = near(y) /\ n = m
        /\ (IF put(x) THEN near(x) ELSE far(x)) = IF put(y) THEN near(y) ELSE far(y)
        /\ (IF put(x) THEN far(x) ELSE near(x)) = IF put(y) THEN far(y) ELSE near(y)
    <3>1. CASE put(x) /\ put(y)
      BY ONLY <2>1, <2>2, <3>1
    <3>2. CASE put(x) /\ ~put(y)
      BY ONLY <2>1, <2>2, <3>2
    <3>3. CASE ~put(x) /\ put(y)
      BY ONLY <2>1, <2>2, <3>3
    <3>4. CASE ~put(x) /\ ~put(y)
      BY ONLY <2>1, <2>2, <3>4
    <3> QED BY <3>1, <3>2, <3>3, <3>4
  <2> QED BY <2>1, <2>3
<1>3. (IsSend(x) <=> IsSend(y)) <=> x[3] = y[3]
  BY <1>1, <1>2
<1> QED BY <1>2, <1>3 DEF near, far

\* Operations for which nothing waits are appended.
LEMMA PostNew ==
    ASSUME TypeOK, NEW r \in Ranks, NEW S \in SUBSET Ops, NEW t, \A op \in S : t[op] \in Ids,
           \A x, y \in S : Key(x, t[x]) = Key(y, t[y]) => x = y,
           \A op \in S : ~Matches(op, Key(op, t[op])), Post(r, S, t)
    PROVE  /\ \A op \in S : /\ posted'[Key(op, t[op])] = Append(posted[Key(op, t[op])], op)
                            /\ got'[op] = None
           /\ \A k \in Keys : (\A op \in S : Key(op, t[op]) # k) => posted'[k] = posted[k]
           /\ \A op \in Ops \ S : got'[op] = got[op]
<1> DEFINE key(op) == Key(op, t[op])
           chosen(k) == CHOOSE o \in S : key(o) = k
           next(k) == IF Matches(chosen(k), k) THEN Tail(posted[k]) ELSE Append(posted[k], chosen(k))
           head(op) == Head(posted[key(op)])
           taker(op) == CHOOSE o \in S : Matches(o, key(o)) /\ head(o) = op
<1>1. posted' = [k \in Keys |-> IF \E op \in S : key(op) = k THEN next(k) ELSE posted[k]]
  BY Zenon DEF Post
<1>2. got' = [op \in Ops |->
                 IF op \in S THEN IF Matches(op, key(op)) THEN head(op) ELSE None
                 ELSE IF \E o \in S : Matches(o, key(o)) /\ head(o) = op THEN taker(op) ELSE got[op]]
  BY Zenon DEF Post
<1>3. /\ \A op \in S : key(op) \in Keys /\ ~Matches(op, key(op))
      /\ \A x, y \in S : key(x) = key(y) => x = y
  BY KeyFacts
<1> HIDE DEF key, head, taker
<1>4. ASSUME NEW op \in S PROVE chosen(key(op)) = op
  <2>1. chosen(key(op)) \in S /\ key(chosen(key(op))) = key(op)
    BY Zenon
  <2> HIDE DEF chosen
  <2> QED BY <1>3, <2>1
<1>5. ASSUME NEW op \in S PROVE posted'[key(op)] = Append(posted[key(op)], op)
  <2>1. next(key(op)) = Append(posted[key(op)], op)
    BY <1>3, <1>4
  <2> HIDE DEF next
  <2> QED BY <1>1, <1>3, <2>1
<1>6. \A k \in Keys : (\A op \in S : key(op) # k) => posted'[k] = posted[k]
  <2> HIDE DEF next
  <2> QED BY <1>1
<1>7. \A op \in Ops : got'[op] = IF op \in S THEN None ELSE got[op]
  BY <1>2, <1>3
<1> QED BY <1>5, <1>6, <1>7 DEF key

\* Operations whose partner waits at the front are matched with it.
PartnersFirst(S, t) ==
    /\ \A op \in S : t[op] \in Ids
    /\ \A x, y \in S : Key(x, t[x]) = Key(y, t[y]) => x = y
    /\ \A op \in S : /\ posted[Key(op, t[op])] # <<>> /\ Partner(op) \notin S
                     /\ Head(posted[Key(op, t[op])]) = Partner(op)
PartnersMatched(S, t) ==
    /\ \A op \in S : /\ posted'[Key(op, t[op])] = Tail(posted[Key(op, t[op])])
                     /\ got'[op] = Partner(op) /\ got'[Partner(op)] = op
    /\ \A k \in Keys : (\A op \in S : Key(op, t[op]) # k) => posted'[k] = posted[k]
    /\ \A op \in Ops \ S : Partner(op) \notin S => got'[op] = got[op]

LEMMA PostMatch ==
    ASSUME TypeOK, NEW r \in Ranks, NEW S \in SUBSET Ops, NEW t, PartnersFirst(S, t), Post(r, S, t)
    PROVE  PartnersMatched(S, t)
<1> DEFINE key(op) == Key(op, t[op])
           chosen(k) == CHOOSE o \in S : key(o) = k
           next(k) == IF Matches(chosen(k), k) THEN Tail(posted[k]) ELSE Append(posted[k], chosen(k))
           head(op) == Head(posted[key(op)])
           taken(op, o) == Matches(o, key(o)) /\ head(o) = op
           taker(op) == CHOOSE o \in S : taken(op, o)
<1>1. posted' = [k \in Keys |-> IF \E op \in S : key(op) = k THEN next(k) ELSE posted[k]]
  BY Zenon DEF Post
<1>2. got' = [op \in Ops |->
                 IF op \in S THEN IF Matches(op, key(op)) THEN head(op) ELSE None
                 ELSE IF \E o \in S : taken(op, o) THEN taker(op) ELSE got[op]]
  BY Zenon DEF Post
<1>3. /\ \A op \in S : /\ key(op) \in Keys /\ head(op) = Partner(op) /\ Matches(op, key(op))
                       /\ Partner(op) \in Ops \ S /\ Partner(Partner(op)) = op
      /\ \A x, y \in S : key(x) = key(y) => x = y
  BY KeyFacts, PartnerFacts DEF Matches, PartnersFirst
<1>4. \A op \in Ops, o \in S : taken(op, o) <=> op = Partner(o)
  BY <1>3
<1> HIDE DEF key, head, taken
<1>5. ASSUME NEW op \in S PROVE chosen(key(op)) = op
  <2>1. chosen(key(op)) \in S /\ key(chosen(key(op))) = key(op)
    BY Zenon
  <2> HIDE DEF chosen
  <2> QED BY <1>3, <2>1
<1>6. ASSUME NEW op \in S PROVE posted'[key(op)] = Tail(posted[key(op)])
  <2>1. next(key(op)) = Tail(posted[key(op)])
    BY <1>3, <1>5
  <2> HIDE DEF next
  <2> QED BY <1>1, <1>3, <2>1
<1>7. \A k \in Keys : (\A op \in S : key(op) # k) => posted'[k] = posted[k]
  <2> HIDE DEF next
  <2> QED BY <1>1
<1>8. ASSUME NEW op \in S PROVE taker(Partner(op)) = op
  <2>1. taken(Partner(op), op)
    BY <1>3, <1>4
  <2>2. taker(Partner(op)) \in S /\ taken(Partner(op), taker(Partner(op)))
    BY <2>1, Zenon
  <2> HIDE DEF taker
  <2> QED BY <1>3, <1>4, <2>2
<1> HIDE DEF taker
<1>9. \A op \in S : got'[op] = Partner(op) /\ got'[Partner(op)] = op
  BY <1>2, <1>3, <1>4, <1>8
<1>10. \A op \in Ops \ S : Partner(op) \notin S => got'[op] = got[op]
  BY <1>2, <1>3, <1>4
<1> QED BY <1>6, <1>7, <1>9, <1>10 DEF key, PartnersMatched

-----------------------------------------------------------------------------
(* The order of what waits in MPI *)

LEMMA ComingFacts ==
    ASSUME TypeInv, OpInv, NEW op \in Ops, Coming(op)
    PROVE  /\ op[3] = "rmt" /\ starts[op[1]] > 0 /\ starts[op[1]] \in Nat
           /\ ost[op] # "active" /\ plan[op[1]] # "none"
<1>1. OpRight(op) /\ op[1] \in Plans
  BY OpFacts DEF OpInv
<1>2. Owed(op) /\ op[3] = "rmt"
  BY OwedIs DEF Coming
<1>3. starts[op[1]] \in Nat /\ events[op] \in Nat /\ events[op] = starts[op[1]] - 1
  BY <1>1, <1>2 DEF OpRight, EventRight, TypeInv, TypeOK
<1>4. plan[op[1]] = "none" => starts[op[1]] = 0
  BY <1>1 DEF OpInv, StartsRight
<1> QED BY <1>1, <1>2, <1>3, <1>4 DEF OpRight, OwedOnce

\* What waits in MPI
LEMMA WaitingFacts ==
    ASSUME TypeInv, OpInv, PostedRight, NEW key \in Keys, NEW a \in 1 .. Len(posted[key])
    PROVE  LET x == posted[key][a] IN
           /\ x \in Ops /\ x[3] = "loc" /\ x[1] \in Plans /\ Key(x, TagOf(x)) = key
           /\ Coming(Partner(x)) /\ starts[x[1]] > 0 /\ plan[x[1]] # "none"
           /\ Peer(x) \in Ranks /\ Owner[x[1]] \in Ranks
           /\ \E n \in Nat : StartsAt(x, n)
<1> DEFINE x == posted[key][a]
<1>1. x \in Ops
  <2>1. posted[key] \in Seq(Ops)
    BY DEF TypeInv, TypeOK
  <2> QED BY <2>1, ElementOfSeq
<1>2. x[3] = "loc" /\ Key(x, TagOf(x)) = key /\ Coming(Partner(x))
  BY DEF PostedRight
<1> HIDE DEF x
<1>3. Partner(x) \in Ops /\ Partner(x)[1] = x[1] /\ At(Partner(x)) = Peer(x)
  BY <1>1, PartnerFacts
<1>4. starts[x[1]] > 0 /\ plan[x[1]] # "none"
  BY <1>2, <1>3, ComingFacts
<1>5. Peer(x) \in Ranks /\ x[1] \in Plans /\ Owner[x[1]] \in Ranks
  BY <1>1, OpFacts, PlanFacts
<1>6. OnItsWay(x[1], Peer(x), "start") \/ OnItsWay(x[1], Peer(x), "execute")
  BY <1>2, <1>3 DEF Coming
<1>7. \E n \in Nat : StartsAt(x, n)
  BY <1>5, <1>6, OnFacts DEF StartsAt, TypeInv
<1> QED BY <1>1, <1>2, <1>4, <1>5, <1>7 DEF x

\* Local halves of one key have the same two ranks and the same direction.
LEMMA SameEnds ==
    ASSUME NoSelf, NEW x \in Ops, NEW y \in Ops, x[3] = "loc", y[3] = "loc", NEW n, NEW m,
           Key(x, n) = Key(y, m)
    PROVE  /\ Owner[x[1]] = Owner[y[1]] /\ Peer(x) = Peer(y) /\ n = m
           /\ IsSend(x) <=> IsSend(y)
<1>1. /\ Owner[x[1]] = Owner[y[1]] /\ n = m
      /\ Wrts[x[1]][x[2]].dst = Wrts[y[1]][y[2]].dst
      /\ (IsSend(x) <=> IsSend(y)) <=> x[3] = y[3]
  BY KeySame
<1>2. Peer(x) = Wrts[x[1]][x[2]].dst /\ Peer(y) = Wrts[y[1]][y[2]].dst
  BY OpFacts
<1> QED BY <1>1, <1>2

\* A step that leaves what waits in MPI and the messages that start a transfer
\* as they are, but for the one at the front of a channel
LEMMA KeepMatch ==
    ASSUME TypeInv, TypeOK', OpInv, PostedRight, PostedOrder, MatchRight, NoSelf,
           UNCHANGED <<starts, posted, got>>,
           \A j \in Plans : plan[j] # "none" => tag'[j] = tag[j],
           \A op \in Ops : Coming(op)' <=> Coming(op),
           NEW s \in [Ranks -> [Ranks -> Nat]],
           \A j \in Plans, p \in Ranks : \A n \in Nat : \A t \in {"start", "execute"} :
              On(j, p, n, t)' => On(j, p, n + s[Owner[j]][p], t)
    PROVE  PostedRight' /\ PostedOrder' /\ MatchRight'
<1>1. \A op \in Ops : /\ op[1] \in Plans /\ Partner(op) \in Ops /\ Partner(op)[1] = op[1]
                      /\ plan[op[1]] # "none" => TagOf(op)' = TagOf(op)
  BY OpFacts, PartnerFacts DEF TagOf
<1>2. \A op \in Ops : HalfStarted(op)' <=> HalfStarted(op)
  BY <1>1 DEF HalfStarted
<1>3. PostedRight'
  <2> SUFFICES ASSUME NEW key \in Keys, NEW a \in 1 .. Len(posted[key]), NEW x, x = posted[key][a]
               PROVE  x[3] = "loc" /\ Key(x, TagOf(x)') = key /\ Coming(Partner(x))'
    BY DEF PostedRight
  <2>1. /\ x \in Ops /\ x[3] = "loc" /\ Key(x, TagOf(x)) = key /\ Coming(Partner(x))
        /\ plan[x[1]] # "none"
    BY WaitingFacts
  <2> QED BY <1>1, <2>1
<1>4. PostedOrder'
  <2> SUFFICES ASSUME NEW key \in Keys, NEW a \in 1 .. Len(posted[key]),
                      NEW b \in 1 .. Len(posted[key]), NEW n \in Nat, NEW m \in Nat,
                      NEW x, NEW y, x = posted[key][a], y = posted[key][b],
                      a < b, StartsAt(x, n)', StartsAt(y, m)'
               PROVE  n < m
    BY DEF PostedOrder
  <2>1. /\ x \in Ops /\ x[3] = "loc" /\ x[1] \in Plans /\ Key(x, TagOf(x)) = key
        /\ Peer(x) \in Ranks /\ Owner[x[1]] \in Ranks
    BY WaitingFacts
  <2>2. /\ y \in Ops /\ y[3] = "loc" /\ y[1] \in Plans /\ Key(y, TagOf(y)) = key
        /\ Peer(y) \in Ranks
    BY WaitingFacts
  <2>3. Owner[x[1]] = Owner[y[1]] /\ Peer(x) = Peer(y)
    <3>1. Key(x, TagOf(x)) = Key(y, TagOf(y))
      BY <2>1, <2>2
    <3> QED BY ONLY <2>1, <2>2, <3>1, SameEnds, NoSelf
  <2> DEFINE d == s[Owner[x[1]]][Peer(x)]
  <2>4. d \in Nat
    BY <2>1
  <2>5. StartsAt(x, n + d) /\ StartsAt(y, m + d)
    BY <2>1, <2>2, <2>3 DEF StartsAt
  <2> HIDE DEF d
  <2>6. n + d < m + d
    <3>1. n + d \in Nat /\ m + d \in Nat
      BY <2>4
    <3> QED BY <2>5, <3>1 DEF PostedOrder
  <2> QED BY <2>4, <2>6
<1>5. MatchRight'
  <2> SUFFICES ASSUME NEW op \in Ops, starts[op[1]] > 0
               PROVE  IF HalfStarted(op)' THEN op[3] = "loc" => got[op] = None /\ Waits(op)'
                                      ELSE got[op] = Partner(op)
    BY DEF MatchRight
  <2>1. plan[op[1]] # "none"
    BY <1>1 DEF OpInv, StartsRight
  <2>2. Waits(op)' <=> Waits(op)
    BY <1>1, <2>1 DEF Waits
  <2> QED BY <1>2, <2>2 DEF MatchRight
<1> QED BY <1>3, <1>4, <1>5

\* A plan is started on the initiator: its halves are appended, and the messages
\* that start the other halves are the last on their way.
LEMMA StartMatch ==
    ASSUME TypeInv, TypeInv', OpInv, PostedRight, PostedOrder, MatchRight, NoSelf,
           NEW i \in Plans, NEW type \in {"start", "execute"}, NEW b,
           \A q \in Receivers(i) : b[q] \in 0 .. NumIds, Tell(i, type, b),
           \A op \in Ops : op[1] = i => ~HalfStarted(op),
           \A j \in Plans : j # i => tag'[j] = tag[j] /\ starts'[j] = starts[j],
           \A j, k \in Indices(i) :
              Wrts[i][j].dst = Wrts[i][k].dst /\ tag'[i][j] = tag'[i][k] => j = k,
           NEW t, \A op \in Loc(i) : t[op] \in Ids /\ t[op] = TagOf(op)',
           Post(Owner[i], Loc(i), t)
    PROVE  PostedRight' /\ PostedOrder' /\ MatchRight'
<1> DEFINE key(op) == Key(op, t[op])
<1>1. /\ Owner[i] \in Ranks /\ Receivers(i) \subseteq Ranks /\ type \in Types
      /\ TypeOK /\ TypeOK'
  BY PlanFacts DEF Types, TypeInv
<1>2. /\ \A j \in Plans, q \in Ranks : \A n, u :
            On(j, q, n, u)' <=> \/ On(j, q, n, u)
                                \/ /\ j = i /\ q \in Receivers(i) /\ u = type
                                   /\ n = Len(ctrl[Owner[i]][q]) + 1
      /\ \A j \in Plans, q \in Ranks : \A u :
            OnItsWay(j, q, u)' <=> \/ OnItsWay(j, q, u)
                                   \/ j = i /\ q \in Receivers(i) /\ u = type
  <2>1. \A q \in Receivers(i) : b[q] \in 0 .. NumIds
    OBVIOUS
  <2> QED BY ONLY <1>1, <2>1, PushOn, i \in Plans, Tell(i, type, b)
<1>3. \A op \in Ops : /\ op[1] \in Plans /\ At(op) \in Ranks /\ Peer(op) \in Ranks
                      /\ Partner(op) \in Ops /\ Partner(op)[1] = op[1]
                      /\ op[3] = "loc" => At(Partner(op)) = Peer(op) /\ Peer(op) \in Receivers(op[1])
                                          /\ Partner(op)[3] = "rmt"
                      /\ op[1] # i => TagOf(op)' = TagOf(op) /\ starts'[op[1]] = starts[op[1]]
  BY OpFacts, PartnerFacts DEF TagOf
<1>4. /\ \A op \in Ops : op[1] # i => (Coming(op)' <=> Coming(op))
      /\ \A op \in Ops : op[1] # i => (HalfStarted(op)' <=> HalfStarted(op))
  <2>1. \A op \in Ops : op[1] # i => (Coming(op)' <=> Coming(op))
    BY <1>2, <1>3 DEF Coming
  <2> QED BY <1>3, <2>1 DEF HalfStarted
<1>5. Loc(i) \in SUBSET Ops /\ \A op \in Loc(i) : op \in Ops /\ op[1] = i /\ op[3] = "loc"
  BY LocAre
<1>6. \A op \in Loc(i) : Coming(Partner(op))' /\ HalfStarted(op)'
  BY <1>2, <1>3, <1>5 DEF Coming, HalfStarted
<1>7. \A x, y \in Loc(i) : key(x) = key(y) => x = y
  <2> SUFFICES ASSUME NEW x \in Loc(i), NEW y \in Loc(i), Key(x, t[x]) = Key(y, t[y]) PROVE x = y
    OBVIOUS
  <2>1. t[x] = t[y] /\ Wrts[i][x[2]].dst = Wrts[i][y[2]].dst
    BY <1>5, KeySame
  <2>2. tag'[i][x[2]] = tag'[i][y[2]]
    BY <1>5, <2>1 DEF TagOf
  <2>3. x[2] \in Indices(i) /\ y[2] \in Indices(i)
    BY <1>5, OpFacts
  <2>4. x[2] = y[2]
    BY <2>1, <2>2, <2>3
  <2> QED BY <1>5, <2>4, OpsAre
<1>8. ASSUME NEW k \in Keys, NEW a \in 1 .. Len(posted[k])
      PROVE  /\ posted[k][a] \in Ops /\ posted[k][a][3] = "loc" /\ posted[k][a][1] # i
             /\ Key(posted[k][a], TagOf(posted[k][a])) = k /\ Coming(Partner(posted[k][a]))
             /\ posted[k][a][1] \in Plans /\ Peer(posted[k][a]) \in Ranks
             /\ Owner[posted[k][a][1]] \in Ranks
  BY WaitingFacts DEF HalfStarted
<1>9. \A op \in Loc(i) : ~Matches(op, key(op)) /\ key(op) \in Keys
  <2>0. \A op \in Loc(i) : key(op) \in Keys
    BY <1>5, KeyFacts
  <2> SUFFICES ASSUME NEW op \in Loc(i), Matches(op, key(op)) PROVE FALSE
    BY <2>0
  <2> DEFINE k == Key(op, t[op])
  <2>1. k \in Keys
    BY <1>5, KeyFacts
  <2>2. posted[k] \in Seq(Ops) /\ posted[k] # <<>> /\ IsSend(Head(posted[k])) # IsSend(op)
    BY <1>1, <2>1 DEF TypeOK, Matches
  <2> HIDE DEF k
  <2>3. Head(posted[k]) = posted[k][1] /\ 1 \in 1 .. Len(posted[k])
    BY <2>2, HeadTailProperties, EmptySeq
  <2>4. /\ posted[k][1] \in Ops /\ posted[k][1][3] = "loc"
        /\ Key(posted[k][1], TagOf(posted[k][1])) = k
    BY <1>8, <2>1, <2>3
  <2>5. Key(posted[k][1], TagOf(posted[k][1])) = Key(op, t[op])
    BY <2>4 DEF k
  <2>6. IsSend(posted[k][1]) <=> IsSend(op)
    BY <1>5, <2>4, <2>5, SameEnds
  <2> QED BY <2>2, <2>3, <2>6 DEF IsSend
<1>10. /\ \A op \in Loc(i) : /\ posted'[key(op)] = Append(posted[key(op)], op)
                             /\ got'[op] = None
       /\ \A k \in Keys : (\A op \in Loc(i) : key(op) # k) => posted'[k] = posted[k]
       /\ \A op \in Ops \ Loc(i) : got'[op] = got[op]
  BY <1>1, <1>5, <1>7, <1>9, PostNew
<1>11. \A k \in Keys : posted[k] \in Seq(Ops) /\ Len(posted[k]) \in Nat
  BY <1>1 DEF TypeOK
<1> HIDE DEF key
<1>12. ASSUME NEW k \in Keys
       PROVE  /\ \A a \in 1 .. Len(posted[k]) : /\ a \in 1 .. Len(posted'[k])
                                                /\ posted'[k][a] = posted[k][a]
              /\ \A a \in 1 .. Len(posted'[k]) :
                    \/ a \in 1 .. Len(posted[k]) /\ posted'[k][a] = posted[k][a]
                    \/ /\ a = Len(posted[k]) + 1 /\ posted'[k][a] \in Loc(i)
                       /\ k = key(posted'[k][a])
  <2>1. CASE \A op \in Loc(i) : key(op) # k
    BY <1>10, <2>1
  <2>2. ASSUME NEW op \in Loc(i), key(op) = k PROVE <1>12!2
    <3>1. posted'[k] = Append(posted[k], op) /\ posted[k] \in Seq(Ops) /\ op \in Ops
      BY <1>5, <1>10, <1>11, <2>2
    <3> QED BY <2>2, <3>1
  <2> QED BY <2>1, <2>2
<1>13. PostedRight'
  <2> SUFFICES ASSUME NEW k \in Keys, NEW a \in 1 .. Len(posted'[k]), NEW x, x = posted'[k][a]
               PROVE  x[3] = "loc" /\ Key(x, TagOf(x)') = k /\ Coming(Partner(x))'
    BY DEF PostedRight
  <2>1. CASE a \in 1 .. Len(posted[k]) /\ x = posted[k][a]
    <3>1. /\ x \in Ops /\ x[3] = "loc" /\ x[1] # i /\ Key(x, TagOf(x)) = k /\ Coming(Partner(x))
      BY <1>8, <2>1
    <3> QED BY <1>3, <1>4, <3>1
  <2>2. CASE x \in Loc(i) /\ k = key(x)
    BY <1>5, <1>6, <2>2 DEF key
  <2> QED BY <1>12, <2>1, <2>2
<1>14. \A x \in Ops : \A n : x[3] = "loc" =>
          IF x[1] = i THEN StartsAt(x, n)' => n = Len(ctrl[Owner[i]][Peer(x)]) + 1
                      ELSE StartsAt(x, n)' => StartsAt(x, n) /\ n <= Len(ctrl[Owner[x[1]]][Peer(x)])
  <2> SUFFICES ASSUME NEW x \in Ops, NEW n, x[3] = "loc", StartsAt(x, n)'
               PROVE  IF x[1] = i THEN n = Len(ctrl[Owner[i]][Peer(x)]) + 1
                      ELSE StartsAt(x, n) /\ n <= Len(ctrl[Owner[x[1]]][Peer(x)])
    OBVIOUS
  <2>1. CASE x[1] = i
    <3>1. ~Coming(Partner(x))
      BY <2>1 DEF HalfStarted
    <3>2. ~OnItsWay(i, Peer(x), "start") /\ ~OnItsWay(i, Peer(x), "execute")
      BY <1>3, <2>1, <3>1 DEF Coming
    <3>3. ~StartsAt(x, n)
      BY <1>1, <1>3, <2>1, <3>2, OnFacts DEF StartsAt
    <3> QED BY <1>2, <1>3, <2>1, <3>3 DEF StartsAt
  <2>2. CASE x[1] # i
    <3>1. StartsAt(x, n)
      BY <1>2, <1>3, <2>2 DEF StartsAt
    <3>2. n <= Len(ctrl[Owner[x[1]]][Peer(x)])
      BY <1>1, <1>3, <3>1, OnFacts DEF StartsAt
    <3> QED BY <2>2, <3>1, <3>2
  <2> QED BY <2>1, <2>2
<1>15. PostedOrder'
  <2> SUFFICES ASSUME NEW k \in Keys, NEW a \in 1 .. Len(posted'[k]), NEW c \in 1 .. Len(posted'[k]),
                      NEW n \in Nat, NEW m \in Nat,
                      NEW x, NEW y, x = posted'[k][a], y = posted'[k][c],
                      a < c, StartsAt(x, n)', StartsAt(y, m)'
               PROVE  n < m
    BY DEF PostedOrder
  <2>1. a \in 1 .. Len(posted[k]) /\ x = posted[k][a]
    <3>1. c \in 1 .. Len(posted[k]) \/ c = Len(posted[k]) + 1
      BY <1>12
    <3>2. a # Len(posted[k]) + 1
      BY <1>11, <3>1
    <3> QED BY <1>12, <3>2
  <2>2. /\ x \in Ops /\ x[3] = "loc" /\ x[1] # i /\ x[1] \in Plans
        /\ Key(x, TagOf(x)) = k /\ Peer(x) \in Ranks /\ Owner[x[1]] \in Ranks
    BY <1>8, <2>1
  <2>3. StartsAt(x, n) /\ n <= Len(ctrl[Owner[x[1]]][Peer(x)])
    BY <1>14, <2>2
  <2>4. CASE c \in 1 .. Len(posted[k]) /\ y = posted[k][c]
    <3>1. y \in Ops /\ y[3] = "loc" /\ y[1] # i
      BY <1>8, <2>4
    <3>2. StartsAt(y, m)
      BY <1>14, <3>1
    <3> QED BY <2>1, <2>3, <2>4, <3>2 DEF PostedOrder
  <2>5. CASE y \in Loc(i) /\ k = key(y)
    <3>1. y \in Ops /\ y[3] = "loc" /\ y[1] = i
      BY <1>5, <2>5
    <3>2. Key(x, TagOf(x)) = Key(y, t[y])
      BY <2>2, <2>5 DEF key
    <3>3. Owner[x[1]] = Owner[y[1]] /\ Peer(x) = Peer(y)
      BY ONLY <2>2, <3>1, <3>2, SameEnds, NoSelf
    <3>4. m = Len(ctrl[Owner[i]][Peer(x)]) + 1
      BY <1>14, <3>1, <3>3
    <3>5. Len(ctrl[Owner[i]][Peer(x)]) \in Nat
      BY <1>1, <2>2, CtrlFacts
    <3> QED BY <2>3, <3>1, <3>3, <3>4, <3>5
  <2> QED BY <1>12, <2>4, <2>5
<1>16. MatchRight'
  <2> SUFFICES ASSUME NEW op \in Ops, starts'[op[1]] > 0
               PROVE  IF HalfStarted(op)' THEN op[3] = "loc" => got'[op] = None /\ Waits(op)'
                                      ELSE got'[op] = Partner(op)
    BY DEF MatchRight
  <2>1. CASE op[1] # i
    <3>1. op \notin Loc(i) /\ starts[op[1]] > 0 /\ TagOf(op)' = TagOf(op)
      BY <1>3, <1>5, <2>1
    <3>2. IF HalfStarted(op) THEN op[3] = "loc" => got[op] = None /\ Waits(op)
                         ELSE got[op] = Partner(op)
      BY <3>1 DEF MatchRight
    <3>3. Waits(op) => Waits(op)'
      <4>1. plan[op[1]] # "none"
        BY <1>3, <3>1 DEF OpInv, StartsRight
      <4>2. Key(op, TagOf(op)) \in Keys
        BY <4>1, TagFacts, KeyFacts
      <4> QED BY <1>12, <3>1, <4>2 DEF Waits
    <3> QED BY <1>4, <1>10, <2>1, <3>1, <3>2, <3>3
  <2>2. CASE op \in Loc(i)
    <3>1. HalfStarted(op)' /\ got'[op] = None
      BY <1>6, <1>10, <2>2
    <3>2. posted'[key(op)] = Append(posted[key(op)], op) /\ posted[key(op)] \in Seq(Ops) /\ op \in Ops
      BY <1>9, <1>10, <1>11, <2>2
    <3>3. Len(posted[key(op)]) + 1 \in 1 .. Len(posted'[key(op)])
          /\ posted'[key(op)][Len(posted[key(op)]) + 1] = op
      BY <3>2
    <3>4. Waits(op)'
      <4>1. key(op) = Key(op, TagOf(op)')
        BY <2>2 DEF key
      <4> QED BY <3>3, <4>1 DEF Waits
    <3> QED BY <3>1, <3>4
  <2>3. CASE op[1] = i /\ op \notin Loc(i)
    <3>1. op[3] = "rmt" /\ Peer(op) = Owner[i] /\ At(op) \in Receivers(i)
      BY <2>3, LocAre, OpFacts
    <3>2. Coming(op)'
      BY <1>2, <1>3, <2>3, <3>1 DEF Coming
    <3> QED BY <3>1, <3>2 DEF HalfStarted
  <2> QED BY <1>5, <2>1, <2>2, <2>3
<1> QED BY <1>13, <1>15, <1>16

\* The message that starts the other halves of plan i arrives at rank r: each
\* finds its partner at the front.
LEMMA ArriveMatch ==
    ASSUME TypeInv, TypeOK', OpInv, OpInv', PlanTags, PostedRight, PostedOrder, MatchRight, NoSelf,
           NEW q \in Ranks, NEW r \in Ranks, NEW i, NEW type \in {"start", "execute"},
           Front(q, r, i, type), Shifts(q, r, i, type), UNCHANGED <<plan, starts, tag>>,
           NEW t, \A op \in Rmt(i, r) : t[op] = TagOf(op), Post(r, Rmt(i, r), t)
    PROVE  PostedRight' /\ PostedOrder' /\ MatchRight'
<1> DEFINE S == Rmt(i, r)  key(op) == Key(op, t[op])
<1>1. /\ i \in Plans /\ Owner[i] = q /\ r \in Receivers(i) /\ plan[i] # "none" /\ On(i, r, 1, type)
      /\ TypeOK /\ TypeOK'
  BY DEF Front, TypeInv
<1>2. /\ S \in SUBSET Ops
      /\ \A op : op \in S <=> op \in Ops /\ op[1] = i /\ op[3] = "rmt" /\ At(op) = r
  BY <1>1, LocAre
<1> HIDE DEF S
<1>3. \A op \in Ops : /\ Partner(op) \in Ops /\ Partner(Partner(op)) = op /\ Partner(op)[1] = op[1]
                      /\ op[3] = "rmt" => Partner(op)[3] = "loc"
                      /\ op[3] = "loc" => Partner(op)[3] = "rmt"
                      /\ op[3] \in {"loc", "rmt"} /\ op[1] \in Plans /\ At(op) \in Ranks
                      /\ Peer(op) \in Ranks /\ Owner[op[1]] \in Ranks
                      /\ Peer(Partner(op)) = At(op) /\ At(Partner(op)) = Peer(op)
                      /\ TagOf(Partner(op)) = TagOf(op) /\ TagOf(op)' = TagOf(op)
                      /\ starts'[op[1]] = starts[op[1]]
  BY PartnerFacts, OpFacts, PlanFacts DEF TagOf
<1>4. \A op \in S : /\ t[op] = TagOf(op) /\ t[op] \in Ids /\ Partner(op) \notin S
                    /\ key(op) \in Keys /\ Key(Partner(op), TagOf(Partner(op))) = key(op)
                    /\ StartsAt(Partner(op), 1) /\ Coming(op)
  <2> SUFFICES ASSUME NEW op \in S
               PROVE  /\ t[op] = TagOf(op) /\ t[op] \in Ids /\ Partner(op) \notin S
                      /\ key(op) \in Keys /\ Key(Partner(op), TagOf(Partner(op))) = key(op)
                      /\ StartsAt(Partner(op), 1) /\ Coming(op)
    OBVIOUS
  <2>1. op \in Ops /\ op[1] = i /\ op[3] = "rmt" /\ At(op) = r /\ Partner(op)[3] = "loc"
    BY <1>2, <1>3
  <2>2. t[op] = TagOf(op) /\ TagOf(op) \in Ids
    BY <1>1, <2>1, TagFacts DEF S
  <2>3. key(op) \in Keys /\ Key(Partner(op), TagOf(Partner(op))) = key(op)
    BY <1>3, <2>1, <2>2, KeyFacts
  <2>4. StartsAt(Partner(op), 1)
    BY <1>1, <1>3, <2>1 DEF StartsAt
  <2>5. Coming(op)
    BY <1>1, <2>1, OnFacts DEF Coming
  <2>6. Partner(op) \notin S
    BY <1>2, <2>1
  <2> QED BY <2>2, <2>3, <2>4, <2>5, <2>6
<1> HIDE DEF key
<1>5. \A k \in Keys : posted[k] \in Seq(Ops) /\ Len(posted[k]) \in Nat
  BY <1>1 DEF TypeOK
<1>6. ASSUME NEW k \in Keys, NEW a \in 1 .. Len(posted[k])
      PROVE  /\ posted[k][a] \in Ops /\ posted[k][a][3] = "loc"
             /\ Key(posted[k][a], TagOf(posted[k][a])) = k /\ Coming(Partner(posted[k][a]))
             /\ \E n \in Nat : n > 0 /\ StartsAt(posted[k][a], n)
  <2>1. /\ posted[k][a] \in Ops /\ posted[k][a][3] = "loc"
        /\ Key(posted[k][a], TagOf(posted[k][a])) = k /\ Coming(Partner(posted[k][a]))
        /\ \E n \in Nat : StartsAt(posted[k][a], n)
    BY WaitingFacts
  <2>2. \A n : StartsAt(posted[k][a], n) => n > 0
    BY <1>1, <1>3, <2>1, OnFacts DEF StartsAt
  <2> QED BY <2>1, <2>2
\* The partner is at the front, and nowhere else.
<1>7. ASSUME NEW op \in S, NEW a \in 1 .. Len(posted[key(op)]), posted[key(op)][a] = Partner(op)
      PROVE  a = 1
  <2>1. key(op) \in Keys /\ StartsAt(Partner(op), 1)
    BY <1>4
  <2>2. 1 \in 1 .. Len(posted[key(op)])
    BY <1>5, <2>1
  <2>3. PICK n \in Nat : n > 0 /\ StartsAt(posted[key(op)][1], n)
    BY <1>6, <2>1, <2>2
  <2>4. 1 < a => n < 1
    BY <1>7, <2>1, <2>2, <2>3 DEF PostedOrder
  <2> QED BY <2>3, <2>4
<1>8. ASSUME NEW op \in S
      PROVE  /\ posted[key(op)] # <<>> /\ 1 \in 1 .. Len(posted[key(op)])
             /\ posted[key(op)][1] = Partner(op) /\ Head(posted[key(op)]) = Partner(op)
  <2>1. op \in Ops /\ op[3] = "rmt" /\ key(op) \in Keys /\ Coming(op)
        /\ Key(Partner(op), TagOf(Partner(op))) = key(op)
    BY <1>2, <1>4
  <2>2. starts[op[1]] > 0
    BY <2>1, ComingFacts
  <2>3. Waits(Partner(op))
    <3>1. HalfStarted(Partner(op)) /\ Partner(op)[3] = "loc" /\ starts[Partner(op)[1]] > 0
          /\ Partner(op) \in Ops
      BY <1>3, <2>1, <2>2 DEF HalfStarted
    <3> QED BY <3>1 DEF MatchRight
  <2>4. PICK a \in 1 .. Len(posted[key(op)]) : posted[key(op)][a] = Partner(op)
    BY <2>1, <2>3 DEF Waits
  <2>5. a = 1
    BY <1>7, <2>4
  <2>6. posted[key(op)] # <<>> /\ Head(posted[key(op)]) = posted[key(op)][1]
    BY <1>5, <2>1, <2>4, <2>5, EmptySeq, HeadTailProperties
  <2> QED BY <2>4, <2>5, <2>6
<1>9. \A x, y \in S : key(x) = key(y) => x = y
  <2> SUFFICES ASSUME NEW x \in S, NEW y \in S, Key(x, t[x]) = Key(y, t[y]) PROVE x = y
    BY DEF key
  <2>0. x \in Ops /\ y \in Ops /\ x[1] = i /\ y[1] = i /\ x[3] = y[3]
    BY <1>2
  <2>1. t[x] = t[y] /\ Wrts[i][x[2]].dst = Wrts[i][y[2]].dst
    BY <2>0, KeySame
  <2>2. tag[i][x[2]] = tag[i][y[2]]
    BY <1>4, <2>0, <2>1 DEF TagOf
  <2>3. x[2] \in Indices(i) /\ y[2] \in Indices(i)
    BY <2>0, OpFacts
  <2>4. x[2] = y[2]
    BY <1>1, <2>1, <2>2, <2>3 DEF PlanTags
  <2> QED BY <2>0, <2>4, OpsAre
<1>10. /\ \A op \in S : /\ posted'[key(op)] = Tail(posted[key(op)])
                        /\ got'[op] = Partner(op) /\ got'[Partner(op)] = op
       /\ \A k \in Keys : (\A op \in S : key(op) # k) => posted'[k] = posted[k]
       /\ \A op \in Ops \ S : Partner(op) \notin S => got'[op] = got[op]
  <2>1. PartnersFirst(S, t)
    BY <1>4, <1>8, <1>9 DEF key, PartnersFirst
  <2>2. TypeOK /\ S \in SUBSET Ops /\ Post(r, S, t)
    BY <1>1, <1>2 DEF S
  <2>3. PartnersMatched(S, t)
    BY <2>1, <2>2, PostMatch
  <2> QED BY <2>3 DEF key, PartnersMatched
<1>11. ASSUME NEW k \in Keys
       PROVE  \E d \in Nat :
              /\ \A a \in 1 .. Len(posted'[k]) : /\ a + d \in 1 .. Len(posted[k])
                                                 /\ posted'[k][a] = posted[k][a + d]
                                                 /\ \A op \in S : posted'[k][a] # Partner(op)
              /\ \A c \in 1 .. Len(posted[k]) :
                    \/ \E op \in S : posted[k][c] = Partner(op)
                    \/ c - d \in 1 .. Len(posted'[k]) /\ posted'[k][c - d] = posted[k][c]
  <2>1. ASSUME \A op \in S : key(op) # k PROVE <1>11!2
    <3>1. posted'[k] = posted[k] /\ Len(posted[k]) \in Nat
      BY <1>5, <1>10, <2>1
    <3>2. \A a \in 1 .. Len(posted[k]) : \A op \in S : posted[k][a] # Partner(op)
      BY <1>4, <1>6, <2>1
    <3>3. \A a \in 1 .. Len(posted[k]) : a + 0 = a /\ a - 0 = a
      BY <3>1
    <3>4. 0 \in Nat
      OBVIOUS
    <3> QED BY <3>1, <3>2, <3>3, <3>4
  <2>2. ASSUME NEW o \in S, key(o) = k PROVE <1>11!2
    <3>1. /\ posted[k] # <<>> /\ posted[k] \in Seq(Ops) /\ Len(posted[k]) \in Nat
          /\ posted[k][1] = Partner(o) /\ posted'[k] = Tail(posted[k])
      BY <1>5, <1>8, <1>10, <2>2
    <3>2. /\ Len(posted'[k]) = Len(posted[k]) - 1 /\ Len(posted'[k]) \in Nat
          /\ \A a \in 1 .. Len(posted'[k]) : posted'[k][a] = posted[k][a + 1]
      <4> DEFINE u == posted[k]  v == posted'[k]
      <4>1. v \in Seq(Ops) /\ Len(v) = Len(u) - 1 /\ \A a \in 1 .. Len(v) : v[a] = u[a + 1]
        BY <3>1, HeadTailProperties
      <4> HIDE DEF u, v
      <4>2. Len(v) \in Nat
        BY <4>1
      <4> QED BY <4>1, <4>2 DEF u, v
    <3>3. \A a \in 1 .. Len(posted'[k]) : a + 1 \in 1 .. Len(posted[k]) /\ a + 1 # 1
      BY <3>1, <3>2
    <3>4. ASSUME NEW a \in 1 .. Len(posted'[k]), NEW op \in S PROVE posted'[k][a] # Partner(op)
      <4>1. SUFFICES ASSUME posted[k][a + 1] = Partner(op) PROVE FALSE
        BY <3>2
      <4>2. k = key(op)
        BY <1>4, <1>6, <3>3, <4>1
      <4> QED BY <1>7, <3>3, <4>1, <4>2
    <3>5. \A c \in 1 .. Len(posted[k]) :
             c = 1 \/ (c - 1 \in 1 .. Len(posted'[k]) /\ posted'[k][c - 1] = posted[k][c])
      <4> SUFFICES ASSUME NEW c \in 1 .. Len(posted[k]), c # 1
                   PROVE  c - 1 \in 1 .. Len(posted'[k]) /\ posted'[k][c - 1] = posted[k][c]
        OBVIOUS
      <4>1. c - 1 \in 1 .. Len(posted'[k]) /\ (c - 1) + 1 = c
        BY <3>1, <3>2
      <4>2. posted'[k][c - 1] = posted[k][(c - 1) + 1]
        BY <3>2, <4>1
      <4> QED BY <4>1, <4>2
    <3>6. 1 \in Nat
      OBVIOUS
    <3> QED BY <3>1, <3>2, <3>3, <3>4, <3>5, <3>6
  <2> QED BY <2>1, <2>2
<1>12. \A op \in Ops : Coming(op)' <=> Coming(op) /\ op \notin S
  <2> SUFFICES ASSUME NEW op \in Ops PROVE Coming(op)' <=> Coming(op) /\ op \notin S
    OBVIOUS
  <2>1. CASE op \in S
    <3>1. ost'[op] = "active"
      BY <1>1, <1>2, <2>1, PostActive DEF S
    <3>2. OpRight(op)'
      BY DEF OpInv
    <3> QED BY <2>1, <3>1, <3>2 DEF OpRight, OwedOnce
  <2>2. CASE op \notin S
    <3>1. op[3] = "rmt" => ~(op[1] = i /\ At(op) = r)
      BY <1>2, <2>2
    <3>2. op[3] = "rmt" => \A u : OnItsWay(op[1], At(op), u)' <=> OnItsWay(op[1], At(op), u)
      BY <1>3, <3>1 DEF Shifts
    <3> QED BY <2>2, <3>2 DEF Coming
  <2> QED BY <2>1, <2>2
<1>13. \A x \in Ops : \A n \in Nat : StartsAt(x, n)' =>
          StartsAt(x, n + IF Owner[x[1]] = q /\ Peer(x) = r THEN 1 ELSE 0)
  <2> SUFFICES ASSUME NEW x \in Ops, NEW n \in Nat, StartsAt(x, n)'
               PROVE  StartsAt(x, n + IF Owner[x[1]] = q /\ Peer(x) = r THEN 1 ELSE 0)
    OBVIOUS
  <2>1. x[1] \in Plans /\ Peer(x) \in Ranks
    BY <1>3
  <2>2. CASE Owner[x[1]] = q /\ Peer(x) = r
    BY <2>1, <2>2 DEF StartsAt, Shifts
  <2>3. CASE ~(Owner[x[1]] = q /\ Peer(x) = r)
    <3>1. StartsAt(x, n)
      BY <2>1, <2>3 DEF StartsAt, Shifts
    <3>2. n + 0 = n
      OBVIOUS
    <3> QED BY <2>3, <3>1, <3>2
  <2> QED BY <2>2, <2>3
<1>14. PostedRight'
  <2> SUFFICES ASSUME NEW k \in Keys, NEW a \in 1 .. Len(posted'[k]), NEW x, x = posted'[k][a]
               PROVE  x[3] = "loc" /\ Key(x, TagOf(x)') = k /\ Coming(Partner(x))'
    BY DEF PostedRight
  <2>1. \E c \in 1 .. Len(posted[k]) : x = posted[k][c]
    BY <1>11
  <2>2. x \in Ops /\ x[3] = "loc" /\ Key(x, TagOf(x)) = k /\ Coming(Partner(x))
    BY <1>6, <2>1
  <2>3. Partner(x) \notin S
    BY <1>3, <1>11, <2>2
  <2> QED BY <1>3, <1>12, <2>2, <2>3
<1>15. PostedOrder'
  <2> SUFFICES ASSUME NEW k \in Keys, NEW a \in 1 .. Len(posted'[k]), NEW c \in 1 .. Len(posted'[k]),
                      NEW n \in Nat, NEW m \in Nat,
                      NEW x, NEW y, x = posted'[k][a], y = posted'[k][c],
                      a < c, StartsAt(x, n)', StartsAt(y, m)'
               PROVE  n < m
    BY DEF PostedOrder
  <2>1. PICK d \in Nat : \A f \in 1 .. Len(posted'[k]) : /\ f + d \in 1 .. Len(posted[k])
                                                         /\ posted'[k][f] = posted[k][f + d]
    BY <1>11
  <2>2. /\ a + d \in 1 .. Len(posted[k]) /\ c + d \in 1 .. Len(posted[k]) /\ a + d < c + d
        /\ x = posted[k][a + d] /\ y = posted[k][c + d]
    <3>1. a \in Int /\ c \in Int /\ d \in Int /\ a < c
      OBVIOUS
    <3>2. /\ a + d \in 1 .. Len(posted[k]) /\ c + d \in 1 .. Len(posted[k])
          /\ posted'[k][a] = posted[k][a + d] /\ posted'[k][c] = posted[k][c + d]
      BY <2>1
    <3> QED BY <3>1, <3>2
  <2>3. x \in Ops /\ x[3] = "loc" /\ Key(x, TagOf(x)) = k
    BY <1>6, <2>2
  <2>4. y \in Ops /\ y[3] = "loc" /\ Key(y, TagOf(y)) = k
    BY <1>6, <2>2
  <2>5. Owner[x[1]] = Owner[y[1]] /\ Peer(x) = Peer(y)
    BY ONLY <2>3, <2>4, SameEnds, NoSelf
  <2> DEFINE e == IF Owner[x[1]] = q /\ Peer(x) = r THEN 1 ELSE 0
  <2>6. e \in Nat /\ StartsAt(x, n + e) /\ StartsAt(y, m + e)
    BY <1>13, <2>3, <2>4, <2>5
  <2> HIDE DEF e
  <2>7. n + e \in Nat /\ m + e \in Nat
    BY <2>6
  <2>8. n + e < m + e
    BY <2>2, <2>6, <2>7 DEF PostedOrder
  <2> QED BY <2>6, <2>8
<1>16. MatchRight'
  <2> SUFFICES ASSUME NEW op \in Ops, starts'[op[1]] > 0
               PROVE  IF HalfStarted(op)' THEN op[3] = "loc" => got'[op] = None /\ Waits(op)'
                                      ELSE got'[op] = Partner(op)
    BY DEF MatchRight
  <2>1. CASE op \in S \/ Partner(op) \in S
    <3>1. got'[op] = Partner(op)
      BY <1>3, <1>10, <2>1
    <3>2. ~Coming(op)' /\ ~Coming(Partner(op))'
      <4>1. op \notin S => op[3] = "loc" /\ Partner(op)[3] = "rmt"
        BY <1>2, <1>3, <2>1
      <4>2. op \in S => Partner(op)[3] = "loc"
        BY <1>2, <1>3
      <4> QED BY <1>3, <1>12, <2>1, <4>1, <4>2 DEF Coming
    <3> QED BY <3>1, <3>2 DEF HalfStarted
  <2>2. CASE op \notin S /\ Partner(op) \notin S
    <3>1. /\ starts[op[1]] > 0 /\ got'[op] = got[op] /\ (HalfStarted(op)' <=> HalfStarted(op))
      BY <1>3, <1>10, <1>12, <2>2 DEF HalfStarted
    <3>2. IF HalfStarted(op) THEN op[3] = "loc" => got[op] = None /\ Waits(op)
                         ELSE got[op] = Partner(op)
      BY <3>1 DEF MatchRight
    <3>3. Waits(op) => Waits(op)'
      <4> DEFINE k == Key(op, TagOf(op))
      <4>1. plan[op[1]] # "none"
        BY <1>3, <3>1 DEF OpInv, StartsRight
      <4>2. k \in Keys
        BY <4>1, TagFacts, KeyFacts
      <4> HIDE DEF k
      <4>3. ASSUME NEW c \in 1 .. Len(posted[k]), posted[k][c] = op
            PROVE  \E a \in 1 .. Len(posted'[k]) : posted'[k][a] = op
        <5>1. \A o \in S : op # Partner(o)
          BY <1>2, <1>3, <2>2
        <5> QED BY <1>11, <4>2, <4>3, <5>1
      <4> QED BY <1>3, <4>3 DEF Waits, k
    <3> QED BY <3>1, <3>2, <3>3
  <2> QED BY <2>1, <2>2
<1> QED BY <1>14, <1>15, <1>16

-----------------------------------------------------------------------------
(* The tags *)

\* A step that takes no tag and puts none back
LEMMA TagsSame ==
    ASSUME TagsHeld, UNCHANGED <<tag, tags>>, \A j \in Plans : plan'[j] # "none" => plan[j] # "none",
           \A x \in Ops : Live(x)' => Live(x)
    PROVE  TagsHeld'
<1>1. \A x \in Ops : TagOf(x)' = TagOf(x)
  BY DEF TagOf
<1>2. PlanTags' /\ PoolTags'
  BY DEF TagsHeld, PlanTags, PoolTags
<1>3. LiveTags'
  BY <1>1 DEF TagsHeld, LiveTags
<1> QED BY <1>2, <1>3 DEF TagsHeld

\* The tags a plan takes are no longer in the pools.
LEMMA TagsTaken ==
    ASSUME TypeInv, TagsHeld, NEW i \in Plans, Take(i),
           \A j \in Plans : j # i /\ plan'[j] # "none" => plan[j] # "none",
           \A x \in Ops : x[1] # i /\ Live(x)' => Live(x)
    PROVE  TagsHeld'
<1> USE DEF TagsHeld
<1> DEFINE o == Owner[i]  rank(x) == RankOf(i, x[2])
<1>1. /\ o \in Ranks /\ TypeOK
      /\ \A j \in Plans : j # i => tag'[j] = tag[j]
      /\ \A r, q \in Ranks : r # o => tags'[r][q] = tags[r][q]
  BY PlanFacts, TakeIs DEF TypeInv
<1>2. \A q \in Ranks : \A a \in 1 .. Len(tags'[o][q]) :
         /\ a \in Nat /\ a > 0 /\ Used(i, q) \in Nat
         /\ a + Used(i, q) \in 1 .. Len(tags[o][q])
         /\ tags'[o][q][a] = tags[o][q][a + Used(i, q)]
  <2>1. \A q \in Ranks : \A a \in 1 .. Len(tags'[o][q]) :
           /\ a + Used(i, q) \in 1 .. Len(tags[o][q])
           /\ tags'[o][q][a] = tags[o][q][a + Used(i, q)]
    BY <1>1, TakeIs
  <2>2. \A q \in Ranks : Used(i, q) \in Nat /\ Len(tags'[o][q]) \in Nat
    BY <1>1, TakeIs, RankFacts
  <2> QED BY <2>1, <2>2
<1>3. \A k \in Indices(i) : LET q == Wrts[i][k].dst IN
         /\ q \in Ranks /\ RankOf(i, k) \in 1 .. Len(tags[o][q])
         /\ tag'[i][k] = tags[o][q][RankOf(i, k)]
         /\ RankOf(i, k) \in Nat /\ RankOf(i, k) <= Used(i, q)
  <2>1. \A k \in Indices(i) : LET q == Wrts[i][k].dst IN
           /\ RankOf(i, k) \in 1 .. Len(tags[o][q]) /\ tag'[i][k] = tags[o][q][RankOf(i, k)]
    BY <1>1, TakeIs
  <2>2. \A k \in Indices(i) : /\ RankOf(i, k) \in 1 .. Used(i, Wrts[i][k].dst)
                              /\ Wrts[i][k].dst \in Ranks
    BY RankFacts, PlanFacts
  <2>3. \A q : Used(i, q) \in Nat
    BY RankFacts
  <2> QED BY <2>1, <2>2, <2>3
<1>4. \A j, k \in Indices(i) :
         Wrts[i][j].dst = Wrts[i][k].dst /\ tag'[i][j] = tag'[i][k] => j = k
  <2> SUFFICES ASSUME NEW j \in Indices(i), NEW k \in Indices(i),
                      Wrts[i][j].dst = Wrts[i][k].dst, tag'[i][j] = tag'[i][k]
               PROVE  j = k
    OBVIOUS
  <2>1. RankOf(i, j) = RankOf(i, k)
    BY <1>1, <1>3 DEF PoolTags
  <2> QED BY <2>1, RankFacts
<1>5. PlanTags'
  BY <1>1, <1>4 DEF PlanTags
<1>6. PoolTags'
  <2> SUFFICES ASSUME NEW r \in Ranks, NEW q \in Ranks, NEW a \in 1 .. Len(tags'[r][q]),
                      NEW b \in 1 .. Len(tags'[r][q]), tags'[r][q][a] = tags'[r][q][b]
               PROVE  a = b
    BY DEF PoolTags
  <2>1. CASE r = o
    <3>1. a \in 1 .. Len(tags'[o][q]) /\ b \in 1 .. Len(tags'[o][q])
          /\ tags'[o][q][a] = tags'[o][q][b]
      BY <2>1
    <3> HIDE DEF o
    <3>2. /\ a \in Nat /\ b \in Nat /\ Used(i, q) \in Nat
          /\ a + Used(i, q) \in 1 .. Len(tags[o][q]) /\ b + Used(i, q) \in 1 .. Len(tags[o][q])
          /\ tags[o][q][a + Used(i, q)] = tags[o][q][b + Used(i, q)]
      BY <1>2, <3>1
    <3>3. a + Used(i, q) = b + Used(i, q)
      BY ONLY <1>1, <3>2, PoolTags, q \in Ranks DEF PoolTags
    <3> QED BY ONLY <3>2, <3>3
  <2>2. CASE r # o
    BY <1>1, <2>2 DEF PoolTags
  <2> QED BY <2>1, <2>2
<1> HIDE DEF o
<1>7. \A x \in Ops : Live(x)' =>
         /\ x[1] \in Plans /\ x[3] = "loc" /\ At(x) \in Ranks /\ Peer(x) \in Ranks
         /\ x[1] # i => Live(x) /\ TagOf(x)' = TagOf(x)
         /\ x[1] = i => /\ At(x) = o /\ x[2] \in Indices(i) /\ Peer(x) = Wrts[i][x[2]].dst
                        /\ TagOf(x)' = tag'[i][x[2]]
                        /\ TagOf(x)' = tags[o][Peer(x)][rank(x)]
                        /\ rank(x) \in 1 .. Len(tags[o][Peer(x)]) /\ rank(x) \in Nat
                        /\ rank(x) <= Used(i, Peer(x))
  <2> SUFFICES ASSUME NEW x \in Ops, Live(x)'
               PROVE  /\ x[1] \in Plans /\ x[3] = "loc" /\ At(x) \in Ranks /\ Peer(x) \in Ranks
                      /\ x[1] # i => Live(x) /\ TagOf(x)' = TagOf(x)
                      /\ x[1] = i => /\ At(x) = o /\ x[2] \in Indices(i) /\ Peer(x) = Wrts[i][x[2]].dst
                                     /\ TagOf(x)' = tag'[i][x[2]]
                                     /\ TagOf(x)' = tags[o][Peer(x)][rank(x)]
                                     /\ rank(x) \in 1 .. Len(tags[o][Peer(x)]) /\ rank(x) \in Nat
                                     /\ rank(x) <= Used(i, Peer(x))
    OBVIOUS
  <2>1. x[3] = "loc"
    BY DEF Live
  <2>2. /\ x[1] \in Plans /\ At(x) \in Ranks /\ Peer(x) \in Ranks /\ x[2] \in Indices(x[1])
        /\ At(x) = Owner[x[1]] /\ Peer(x) = Wrts[x[1]][x[2]].dst
    BY <2>1, OpFacts
  <2>3. x[1] # i => Live(x) /\ TagOf(x)' = TagOf(x)
    BY <1>1, <2>2 DEF TagOf
  <2>4. x[1] = i => TagOf(x)' = tag'[i][x[2]]
    BY DEF TagOf
  <2> QED BY <1>3, <2>1, <2>2, <2>3, <2>4 DEF o
<1>8. ASSUME NEW x \in Ops, Live(x)', NEW a \in 1 .. Len(tags'[At(x)][Peer(x)])
      PROVE  tags'[At(x)][Peer(x)][a] # TagOf(x)'
  <2>1. CASE x[1] # i
    <3>1. Live(x) /\ TagOf(x)' = TagOf(x) /\ At(x) \in Ranks /\ Peer(x) \in Ranks
      BY <1>7, <1>8, <2>1
    <3>2. \E b \in 1 .. Len(tags[At(x)][Peer(x)]) :
             tags'[At(x)][Peer(x)][a] = tags[At(x)][Peer(x)][b]
      BY <1>1, <1>2, <3>1
    <3> QED BY <3>1, <3>2 DEF LiveTags
  <2>2. CASE x[1] = i
    <3> DEFINE q == Peer(x)
    <3>1. /\ At(x) = o /\ q \in Ranks /\ TagOf(x)' = tags[o][q][rank(x)] /\ rank(x) \in Nat
          /\ rank(x) \in 1 .. Len(tags[o][q]) /\ rank(x) <= Used(i, q)
      BY <1>7, <1>8, <2>2
    <3> HIDE DEF q, rank
    <3>2. /\ a + Used(i, q) \in 1 .. Len(tags[o][q]) /\ a \in Nat /\ a > 0 /\ Used(i, q) \in Nat
          /\ tags'[o][q][a] = tags[o][q][a + Used(i, q)]
      BY <1>2, <3>1 DEF q
    <3>3. tags[o][q][a + Used(i, q)] # tags[o][q][rank(x)]
      <4>1. a + Used(i, q) # rank(x)
        BY <3>1, <3>2
      <4> QED BY <1>1, <3>1, <3>2, <4>1 DEF PoolTags
    <3> QED BY <3>1, <3>2, <3>3 DEF q
  <2> QED BY <2>1, <2>2
<1>9. ASSUME NEW x \in Ops, NEW y \in Ops, Live(x)', Live(y)', x[1] # i, y[1] = i,
             At(x) = At(y), Peer(x) = Peer(y)
      PROVE  TagOf(x)' # TagOf(y)'
  <2>1. Live(x) /\ TagOf(x)' = TagOf(x)
    BY <1>7, <1>9
  <2>2. At(x) = o /\ TagOf(y)' = tags[o][Peer(x)][rank(y)] /\ rank(y) \in 1 .. Len(tags[o][Peer(x)])
    BY <1>7, <1>9
  <2> HIDE DEF rank
  <2> QED BY <2>1, <2>2 DEF LiveTags
<1>10. ASSUME NEW x \in Ops, NEW y \in Ops, Live(x)', Live(y)', At(x) = At(y), Peer(x) = Peer(y),
              TagOf(x)' = TagOf(y)'
       PROVE  x = y
  <2>1. CASE x[1] # i /\ y[1] # i
    <3>1. Live(x) /\ Live(y) /\ TagOf(x) = TagOf(y)
      BY <1>7, <1>10, <2>1
    <3> QED BY <1>10, <3>1 DEF LiveTags
  <2>2. CASE x[1] = i /\ y[1] = i
    <3>1. /\ x[2] \in Indices(i) /\ y[2] \in Indices(i) /\ tag'[i][x[2]] = tag'[i][y[2]]
          /\ Wrts[i][x[2]].dst = Wrts[i][y[2]].dst /\ x[3] = "loc" /\ y[3] = "loc"
      BY <1>7, <1>10, <2>2
    <3>2. x[2] = y[2]
      BY <1>4, <3>1
    <3> QED BY <2>2, <3>1, <3>2, OpsAre
  <2>3. ~(x[1] # i /\ y[1] = i) /\ ~(y[1] # i /\ x[1] = i)
    BY <1>9, <1>10
  <2> QED BY <2>1, <2>2, <2>3
<1>11. LiveTags'
  BY <1>8, <1>10 DEF LiveTags
<1> QED BY <1>5, <1>6, <1>11

\* What rank r puts back for q on top of the pool: tags of operations that give
\* theirs up, each once.
Returns(r, q) ==
    \E s \in Seq(Ids) : \E f :
        /\ tags'[r][q] = s \o tags[r][q]
        /\ \A n \in 1 .. Len(s) : /\ f[n] \in Ops /\ Live(f[n]) /\ ~Live(f[n])'
                                  /\ At(f[n]) = r /\ Peer(f[n]) = q /\ s[n] = TagOf(f[n])
                                  /\ \A m \in 1 .. Len(s) : f[n] = f[m] => n = m

LEMMA ReturnsNothing ==
    ASSUME TypeOK, NEW r \in Ranks, NEW q \in Ranks, tags'[r][q] = tags[r][q] PROVE Returns(r, q)
<1>1. tags[r][q] \in Seq(Ids)
  BY DEF TypeOK
<1>2. <<>> \in Seq(Ids) /\ Len(<<>>) = 0 /\ <<>> \o tags[r][q] = tags[r][q]
  BY <1>1
<1>3. \A n \in 1 .. Len(<<>>) : FALSE
  BY <1>2
<1> QED
  <2> DEFINE s == <<>>
  <2>1. s \in Seq(Ids) /\ tags'[r][q] = s \o tags[r][q] /\ \A n \in 1 .. Len(s) : FALSE
    BY <1>2, <1>3
  <2> HIDE DEF s
  <2> QED BY <2>1 DEF Returns

\* A number of the new pool was in the old one or is that of an operation.
NewPoolOf(r, q, d, f) ==
    \A a \in 1 .. Len(tags'[r][q]) :
        \/ /\ a > d /\ a - d \in 1 .. Len(tags[r][q])
           /\ tags'[r][q][a] = tags[r][q][a - d]
        \/ /\ a <= d /\ f[a] \in Ops /\ Live(f[a]) /\ ~Live(f[a])'
           /\ At(f[a]) = r /\ Peer(f[a]) = q /\ tags'[r][q][a] = TagOf(f[a])
           /\ \A b \in 1 .. Len(tags'[r][q]) : b <= d /\ f[a] = f[b] => a = b

LEMMA TagsReturned ==
    ASSUME TypeOK, TagsHeld, UNCHANGED tag, \A r, q \in Ranks : Returns(r, q),
           \A j \in Plans : plan'[j] # "none" => plan[j] # "none",
           \A x \in Ops : Live(x)' => Live(x)
    PROVE  TagsHeld'
<1> USE DEF TagsHeld
<1>1. \A x \in Ops : TagOf(x)' = TagOf(x) /\ At(x) \in Ranks /\ Peer(x) \in Ranks
  BY OpFacts DEF TagOf
<1>2. PlanTags'
  BY DEF PlanTags
<1>3. ASSUME NEW r \in Ranks, NEW q \in Ranks PROVE \E d \in Nat : \E f : NewPoolOf(r, q, d, f)
  <2>1. PICK s \in Seq(Ids) : \E f :
            /\ tags'[r][q] = s \o tags[r][q]
            /\ \A n \in 1 .. Len(s) : /\ f[n] \in Ops /\ Live(f[n]) /\ ~Live(f[n])'
                                      /\ At(f[n]) = r /\ Peer(f[n]) = q /\ s[n] = TagOf(f[n])
                                      /\ \A m \in 1 .. Len(s) : f[n] = f[m] => n = m
    BY DEF Returns
  <2>2. PICK f :
            /\ tags'[r][q] = s \o tags[r][q]
            /\ \A n \in 1 .. Len(s) : /\ f[n] \in Ops /\ Live(f[n]) /\ ~Live(f[n])'
                                      /\ At(f[n]) = r /\ Peer(f[n]) = q /\ s[n] = TagOf(f[n])
                                      /\ \A m \in 1 .. Len(s) : f[n] = f[m] => n = m
    BY <2>1
  <2> DEFINE u == tags[r][q]  v == tags'[r][q]
  <2>3. u \in Seq(Ids) /\ v = s \o u
    BY <2>2 DEF TypeOK
  <2> HIDE DEF u, v
  <2>4. /\ Len(s) \in Nat /\ Len(u) \in Nat /\ Len(v) = Len(s) + Len(u)
        /\ \A a \in 1 .. Len(v) : v[a] = IF a <= Len(s) THEN s[a] ELSE u[a - Len(s)]
    BY <2>3, ConcatProperties, LenProperties
  <2>5. ASSUME NEW a \in 1 .. Len(v)
        PROVE  \/ a > Len(s) /\ a - Len(s) \in 1 .. Len(u) /\ v[a] = u[a - Len(s)]
               \/ /\ a <= Len(s) /\ f[a] \in Ops /\ Live(f[a]) /\ ~Live(f[a])'
                  /\ At(f[a]) = r /\ Peer(f[a]) = q /\ v[a] = TagOf(f[a])
                  /\ \A b \in 1 .. Len(v) : b <= Len(s) /\ f[a] = f[b] => a = b
    <3>1. CASE a <= Len(s)
      <4>1. a \in 1 .. Len(s) /\ v[a] = s[a] /\ \A b \in 1 .. Len(v) : b <= Len(s) => b \in 1 .. Len(s)
        BY <2>4, <3>1
      <4> QED BY <2>2, <3>1, <4>1
    <3>2. CASE a > Len(s)
      BY <2>4, <3>2
    <3> QED BY <2>4, <3>1, <3>2
  <2>6. NewPoolOf(r, q, Len(s), f)
    BY <2>5 DEF u, v, NewPoolOf
  <2> QED BY <2>4, <2>6
<1>4. PoolTags'
  <2> SUFFICES ASSUME NEW r \in Ranks, NEW q \in Ranks, NEW a \in 1 .. Len(tags'[r][q]),
                      NEW b \in 1 .. Len(tags'[r][q]), tags'[r][q][a] = tags'[r][q][b]
               PROVE  a = b
    BY DEF PoolTags
  <2>1. PICK d \in Nat : \E f : NewPoolOf(r, q, d, f)
    BY <1>3
  <2>2. PICK f : NewPoolOf(r, q, d, f)
    BY <2>1
  <2>3. a \in Int /\ b \in Int
    OBVIOUS
  <2>4. CASE a > d /\ b > d
    <3>1. a - d = b - d
      <4>1. /\ a - d \in 1 .. Len(tags[r][q]) /\ b - d \in 1 .. Len(tags[r][q])
            /\ tags[r][q][a - d] = tags[r][q][b - d]
        <5>1. ASSUME NEW c \in 1 .. Len(tags'[r][q]), c > d
              PROVE  c - d \in 1 .. Len(tags[r][q]) /\ tags'[r][q][c] = tags[r][q][c - d]
          <6>1. ~(c <= d)
            BY <5>1
          <6> QED BY <2>2, <6>1 DEF NewPoolOf
        <5> QED BY <2>4, <5>1
      <4> DEFINE m == a - d  n == b - d
      <4>2. /\ m \in 1 .. Len(tags[r][q]) /\ n \in 1 .. Len(tags[r][q])
            /\ tags[r][q][m] = tags[r][q][n]
        BY <4>1
      <4> HIDE DEF m, n
      <4>3. m = n
        BY <4>2 DEF PoolTags
      <4> QED BY <4>3 DEF m, n
    <3> QED BY <2>3, <3>1
  <2>5. CASE a <= d /\ b <= d
    <3>1. /\ f[a] \in Ops /\ f[b] \in Ops /\ Live(f[a]) /\ Live(f[b]) /\ At(f[a]) = At(f[b])
          /\ Peer(f[a]) = Peer(f[b]) /\ TagOf(f[a]) = TagOf(f[b])
      BY <2>2, <2>3, <2>5 DEF NewPoolOf
    <3>2. f[a] = f[b]
      BY <3>1 DEF LiveTags
    <3> QED BY <2>2, <2>3, <2>5, <3>2 DEF NewPoolOf
  <2>6. ASSUME NEW c \in {a, b}, NEW e \in {a, b}, c <= d, e > d,
               tags'[r][q][c] = tags'[r][q][e]
        PROVE  FALSE
    <3>1. /\ f[c] \in Ops /\ Live(f[c]) /\ At(f[c]) = r /\ Peer(f[c]) = q
          /\ tags'[r][q][c] = TagOf(f[c])
      BY <2>2, <2>3, <2>6 DEF NewPoolOf
    <3>2. e - d \in 1 .. Len(tags[r][q]) /\ tags'[r][q][e] = tags[r][q][e - d]
      BY <2>2, <2>3, <2>6 DEF NewPoolOf
    <3> QED BY <2>6, <3>1, <3>2 DEF LiveTags
  <2> QED BY <2>3, <2>4, <2>5, <2>6
<1>5. LiveTags'
  <2>1. ASSUME NEW x \in Ops, Live(x)', NEW a \in 1 .. Len(tags'[At(x)][Peer(x)])
        PROVE  tags'[At(x)][Peer(x)][a] # TagOf(x)
    <3>1. Live(x) /\ At(x) \in Ranks /\ Peer(x) \in Ranks
      BY <1>1, <2>1
    <3>2. \/ \E b \in 1 .. Len(tags[At(x)][Peer(x)]) :
                tags'[At(x)][Peer(x)][a] = tags[At(x)][Peer(x)][b]
          \/ \E y \in Ops : /\ Live(y) /\ ~Live(y)' /\ At(y) = At(x) /\ Peer(y) = Peer(x)
                            /\ tags'[At(x)][Peer(x)][a] = TagOf(y)
      <4>1. PICK d \in Nat : \E f : NewPoolOf(At(x), Peer(x), d, f)
        BY <1>3, <3>1
      <4>2. PICK f : NewPoolOf(At(x), Peer(x), d, f)
        BY <4>1
      <4> QED BY <4>2 DEF NewPoolOf
    <3> QED BY <2>1, <3>1, <3>2 DEF LiveTags
  <2> QED BY <1>1, <2>1 DEF LiveTags
<1> QED BY <1>2, <1>4, <1>5

-----------------------------------------------------------------------------
(* The steps *)

\* The same when no message leaves its place
LEMMA KeepPlaces ==
    ASSUME TypeInv, TypeOK', OpInv, MatchInv, NoSelf, UNCHANGED <<starts, posted, got>>,
           \A j \in Plans : plan[j] # "none" => tag'[j] = tag[j],
           \A op \in Ops : Coming(op)' <=> Coming(op),
           \A j \in Plans, p \in Ranks : \A n \in Nat : \A t \in {"start", "execute"} :
              On(j, p, n, t)' => On(j, p, n, t)
    PROVE  PostedRight' /\ PostedOrder' /\ MatchRight'
<1> DEFINE s == [o \in Ranks |-> [p \in Ranks |-> 0]]
<1>1. s \in [Ranks -> [Ranks -> Nat]]
  OBVIOUS
<1>2. \A j \in Plans, p \in Ranks : \A n \in Nat : n + s[Owner[j]][p] = n
  BY PlanFacts
<1> HIDE DEF s
<1>3. \A j \in Plans, p \in Ranks : \A n \in Nat : \A t \in {"start", "execute"} :
         On(j, p, n, t)' => On(j, p, n + s[Owner[j]][p], t)
  BY <1>2
<1> QED BY <1>1, <1>3, KeepMatch DEF MatchInv

\* A step of the daemon that takes no message
LEMMA QuietMatch ==
    ASSUME TypeInv, TypeOK', OpInv, MatchInv, NoSelf,
           UNCHANGED <<plan, starts, tag, ctrl, posted, got>>
    PROVE  PostedRight' /\ PostedOrder' /\ MatchRight'
<1>1. \A j, p, n, t : /\ On(j, p, n, t)' <=> On(j, p, n, t)
                      /\ OnItsWay(j, p, t)' <=> OnItsWay(j, p, t)
  BY DEF On, OnItsWay
<1>2. \A op : Coming(op)' <=> Coming(op)
  BY <1>1 DEF Coming
<1> QED BY <1>1, <1>2, KeepPlaces

\* A message that starts nothing is sent.
LEMMA TellMatch ==
    ASSUME TypeInv, TypeOK', OpInv, MatchInv, NoSelf, UNCHANGED <<starts, posted, got>>,
           NEW i \in Plans, NEW type \in {"create", "destroy"}, NEW b,
           \A q \in Receivers(i) : b[q] \in 0 .. NumIds, Tell(i, type, b),
           \A j \in Plans : plan[j] # "none" => tag'[j] = tag[j]
    PROVE  PostedRight' /\ PostedOrder' /\ MatchRight'
<1>1. type \in Types /\ TypeOK /\ type # "start" /\ type # "execute"
  BY DEF Types, TypeInv
<1>2. /\ \A j \in Plans, q \in Ranks : \A n, t :
            On(j, q, n, t)' <=> \/ On(j, q, n, t)
                                \/ /\ j = i /\ q \in Receivers(i) /\ t = type
                                   /\ n = Len(ctrl[Owner[i]][q]) + 1
      /\ \A j \in Plans, q \in Ranks : \A t :
            OnItsWay(j, q, t)' <=> \/ OnItsWay(j, q, t)
                                   \/ j = i /\ q \in Receivers(i) /\ t = type
  <2>1. \A q \in Receivers(i) : b[q] \in 0 .. NumIds
    OBVIOUS
  <2> QED BY ONLY <1>1, <2>1, PushOn, i \in Plans, Tell(i, type, b)
<1>3. \A j \in Plans, p \in Ranks : \A n \in Nat : \A t \in {"start", "execute"} :
         On(j, p, n, t)' => On(j, p, n, t)
  BY <1>1, <1>2
<1>4. \A op \in Ops : Coming(op)' <=> Coming(op)
  BY <1>1, <1>2, OpFacts DEF Coming
<1> QED BY <1>3, <1>4, KeepPlaces

LEMMA PlanCreateMatch ==
    ASSUME TypeInv, TypeOK', CtrlInv, OpInv, MatchInv, NoSelf, NEW i \in Plans, PlanCreate(i)
    PROVE  MatchInv'
<1>1. /\ plan[i] = "none" /\ Tell(i, "create", batch'[i]) /\ Take(i)
      /\ plan' = [plan EXCEPT ![i] = "ready"]
      /\ ost' = [op \in Ops |-> IF op \in Loc(i) THEN "idle" ELSE ost[op]]
      /\ UNCHANGED <<starts, posted, got>>
  BY DEF PlanCreate
<1>2. TypeOK
  BY DEF TypeInv
<1>3. /\ \A j \in Plans : j # i => tag'[j] = tag[j]
      /\ \A q \in Receivers(i) : batch'[i][q] \in 0 .. NumIds
  <2>1. \A j \in Plans : j # i => tag'[j] = tag[j]
    BY <1>1, <1>2, TakeIs
  <2> QED BY <2>1, PlanFacts DEF TypeOK
<1>4. \A j \in Plans : plan[j] # "none" => tag'[j] = tag[j]
  BY <1>1, <1>3
<1>5. TagsHeld'
  <2>1. \A j \in Plans : j # i /\ plan'[j] # "none" => plan[j] # "none"
    BY <1>1, <1>2 DEF TypeOK
  <2>2. \A x \in Ops : x[1] # i /\ Live(x)' => Live(x)
    BY <1>1, LocAre DEF Live
  <2> QED BY <1>1, <2>1, <2>2, TagsTaken DEF MatchInv
<1>6. PostedRight' /\ PostedOrder' /\ MatchRight'
  BY <1>1, <1>3, <1>4, TellMatch
<1> QED BY <1>5, <1>6 DEF MatchInv

LEMMA PlanDestroyMatch ==
    ASSUME TypeInv, TypeOK', CtrlInv, OpInv, MatchInv, NoSelf, NEW i \in Plans, PlanDestroy(i)
    PROVE  MatchInv'
<1> DEFINE o == Owner[i]
<1>1. /\ plan[i] = "ready" /\ Signalled(i) /\ Tell(i, "destroy", batch[i])
      /\ tags' = [tags EXCEPT ![o] = [q \in Ranks |-> Returned(i, q) \o tags[o][q]]]
      /\ plan' = [plan EXCEPT ![i] = "gone"]
      /\ ost' = [op \in Ops |-> IF op \in Loc(i) THEN "freed" ELSE ost[op]]
      /\ UNCHANGED <<starts, tag, posted, got>>
  BY DEF PlanDestroy
<1>2. /\ TypeOK /\ o \in Ranks /\ Len(tag[i]) = Len(Wrts[i])
      /\ \A q \in Receivers(i) : batch[i][q] \in 0 .. NumIds
  <2>1. TypeOK /\ o \in Ranks /\ Receivers(i) \subseteq Ranks
    BY PlanFacts DEF TypeInv
  <2>2. Len(tag[i]) = Len(Wrts[i])
    BY <1>1 DEF TypeInv, Taken, PlansTaken
  <2>3. batch[i] \in [Ranks -> 0 .. NumIds]
    BY <2>1 DEF TypeOK
  <2> QED BY <2>1, <2>2, <2>3
<1>3. \A op \in Loc(i) : Live(op) /\ ~Live(op)' /\ op \in Ops
  <2>1. \A op \in Loc(i) : ost[op] = "idle" /\ op \in Ops /\ op[3] = "loc"
    BY <1>1, QuietPlan, LocAre
  <2> QED BY <1>1, <2>1 DEF Live
<1>4. ASSUME NEW r \in Ranks, NEW q \in Ranks PROVE Returns(r, q)
  <2>1. CASE r # o
    BY <1>1, <1>2, <2>1, ReturnsNothing DEF TypeOK
  <2>2. CASE r = o
    <3>1. tags'[r][q] = Returned(i, q) \o tags[r][q]
      BY <1>1, <1>2, <2>2 DEF TypeOK
    <3> DEFINE s == Returned(i, q)
    <3>2. s \in Seq(Ids)
      BY <1>2, ReturnedIs
    <3>3. PICK k : \A n \in 1 .. Len(s) :
                      /\ k[n] \in Indices(i) /\ Wrts[i][k[n]].dst = q /\ s[n] = tag[i][k[n]]
                      /\ \A m \in 1 .. Len(s) : k[n] = k[m] => n = m
      BY <1>2, ReturnedIs
    <3> HIDE DEF s
    <3> DEFINE f == [n \in 1 .. Len(s) |-> <<i, k[n], "loc">>]
    <3>4. ASSUME NEW n \in 1 .. Len(s)
          PROVE  /\ f[n] \in Loc(i) /\ At(f[n]) = r /\ Peer(f[n]) = q /\ s[n] = TagOf(f[n])
                 /\ \A m \in 1 .. Len(s) : f[n] = f[m] => n = m
      <4>1. k[n] \in Indices(i) /\ Wrts[i][k[n]].dst = q /\ s[n] = tag[i][k[n]]
        BY <3>3
      <4>2. f[n] = <<i, k[n], "loc">>
        OBVIOUS
      <4>3. f[n] \in Ops
        BY <4>1, <4>2, OpsAre
      <4>4. f[n] \in Loc(i) /\ At(f[n]) = r /\ Peer(f[n]) = q
        BY <2>2, <4>1, <4>2, <4>3, LocAre, OpFacts
      <4>5. s[n] = TagOf(f[n])
        BY <4>1, <4>2 DEF TagOf
      <4>6. \A m \in 1 .. Len(s) : f[n] = f[m] => n = m
        BY <3>3
      <4> QED BY <4>4, <4>5, <4>6
    <3> HIDE DEF f
    <3> QED BY <1>3, <3>1, <3>2, <3>4 DEF Returns, s
  <2> QED BY <2>1, <2>2
<1>5. TagsHeld'
  <2>1. \A j \in Plans : plan'[j] # "none" => plan[j] # "none"
    BY <1>1, <1>2 DEF TypeOK
  <2>2. \A x \in Ops : Live(x)' => Live(x)
    BY <1>1, <1>3 DEF Live
  <2> QED BY <1>1, <1>2, <1>4, <2>1, <2>2, TagsReturned DEF MatchInv
<1>6. PostedRight' /\ PostedOrder' /\ MatchRight'
  BY <1>1, <1>2, TellMatch
<1> QED BY <1>5, <1>6 DEF MatchInv

LEMMA RdmaStartMatch ==
    ASSUME TypeInv, TypeInv', CtrlInv, OpInv, MatchInv, NoSelf, NEW i \in Plans, RdmaStart(i)
    PROVE  MatchInv'
<1> DEFINE t == [op \in Loc(i) |-> tag'[i][op[2]]]
<1>1. /\ plan[i] = "none" /\ Tell(i, "execute", batch[i]) /\ Take(i) /\ Post(Owner[i], Loc(i), t)
      /\ plan' = [plan EXCEPT ![i] = "gone"] /\ starts' = [starts EXCEPT ![i] = 1]
      /\ UNCHANGED batch
  BY DEF RdmaStart
<1>2. TypeOK /\ TypeOK'
  BY DEF TypeInv
<1>3. /\ plan'[i] = "gone" /\ Owner[i] \in Ranks
      /\ \A j \in Plans : j # i => plan'[j] = plan[j] /\ starts'[j] = starts[j]
      /\ \A q \in Receivers(i) : batch[i][q] \in 0 .. NumIds
  BY <1>1, <1>2, PlanFacts DEF TypeOK
<1>4. \A j \in Plans : j # i => tag'[j] = tag[j]
  BY <1>1, <1>2, TakeIs
<1>5. Loc(i) \in SUBSET Ops /\ \A op \in Loc(i) : op \in Ops /\ op[1] = i /\ op[3] = "loc"
  BY LocAre
<1>6. \A op \in Loc(i) : t[op] \in Ids /\ t[op] = TagOf(op)'
  <2>1. \A op \in Loc(i) : t[op] = TagOf(op)'
    BY <1>5 DEF TagOf
  <2>2. \A op \in Loc(i) : op[2] \in Indices(i)
    BY <1>5, OpFacts
  <2>3. tag'[i] \in Seq(Ids) /\ Indices(i) = 1 .. Len(tag'[i])
    BY <1>1, <1>2, TakeIs, PlanFacts
  <2>4. \A k \in Indices(i) : tag'[i][k] \in Ids
    BY <2>3, ElementOfSeq
  <2> QED BY <2>1, <2>2, <2>4
<1> HIDE DEF t
<1>7. TagsHeld'
  <2>1. \A x \in Ops : x[1] # i /\ Live(x)' => Live(x)
    BY <1>1, <1>2, <1>3, <1>5, PostActive DEF Live
  <2> QED BY <1>1, <1>3, <2>1, TagsTaken DEF MatchInv
<1>8. \A op \in Ops : op[1] = i => ~HalfStarted(op)
  <2>1. \A op \in Ops : op[1] = i => ~Coming(op)
    BY <1>1, NewPlan, OpFacts DEF Coming
  <2> QED BY <2>1, PartnerFacts DEF HalfStarted
<1>9. \A j, k \in Indices(i) :
         Wrts[i][j].dst = Wrts[i][k].dst /\ tag'[i][j] = tag'[i][k] => j = k
  BY <1>3, <1>7 DEF TagsHeld, PlanTags
<1>10. PostedRight' /\ PostedOrder' /\ MatchRight'
  BY <1>1, <1>3, <1>4, <1>6, <1>8, <1>9, StartMatch DEF MatchInv
<1> QED BY <1>7, <1>10 DEF MatchInv

LEMMA PlanStartMatch ==
    ASSUME TypeInv, TypeInv', CtrlInv, OpInv, MatchInv, NoSelf, NEW i \in Plans, PlanStart(i)
    PROVE  MatchInv'
<1> DEFINE t == Tags(Loc(i))
<1>1. /\ plan[i] = "ready" /\ Signalled(i) /\ Tell(i, "start", batch[i]) /\ Post(Owner[i], Loc(i), t)
      /\ starts' = [starts EXCEPT ![i] = @ + 1] /\ UNCHANGED <<plan, tag, tags>>
  BY DEF PlanStart
<1>2. TypeOK
  BY DEF TypeInv
<1>3. /\ Owner[i] \in Ranks /\ plan[i] # "none"
      /\ \A j \in Plans : j # i => tag'[j] = tag[j] /\ starts'[j] = starts[j]
      /\ \A q \in Receivers(i) : batch[i][q] \in 0 .. NumIds
  BY <1>1, <1>2, PlanFacts DEF TypeOK
<1>4. Loc(i) \in SUBSET Ops /\ \A op \in Loc(i) : op \in Ops /\ op[1] = i /\ op[3] = "loc"
  BY LocAre
<1>5. \A op \in Loc(i) : t[op] \in Ids /\ t[op] = TagOf(op)'
  BY <1>1, <1>3, <1>4, TagFacts DEF Tags, TagOf
<1> HIDE DEF t
<1>6. TagsHeld'
  <2>1. \A op \in Loc(i) : ost[op] = "idle"
    BY <1>1, QuietPlan
  <2>2. \A x \in Ops : Live(x)' => Live(x)
    BY <1>1, <1>2, <1>3, <1>4, <2>1, PostActive DEF Live
  <2> QED BY <1>1, <2>2, TagsSame DEF MatchInv
<1>7. \A op \in Ops : op[1] = i => ~HalfStarted(op)
  <2>1. \A op \in Ops : op[1] = i => ~Coming(op)
    BY <1>1, QuietPlan
  <2> QED BY <2>1, PartnerFacts DEF HalfStarted
<1>8. \A j, k \in Indices(i) :
         Wrts[i][j].dst = Wrts[i][k].dst /\ tag'[i][j] = tag'[i][k] => j = k
  BY <1>1, <1>3, <1>6 DEF TagsHeld, PlanTags
<1>9. PostedRight' /\ PostedOrder' /\ MatchRight'
  BY <1>1, <1>3, <1>5, <1>7, <1>8, StartMatch DEF MatchInv
<1> QED BY <1>6, <1>9 DEF MatchInv

\* A message that starts nothing arrives.
LEMMA PopMatch ==
    ASSUME TypeInv, TypeOK', OpInv, MatchInv, NoSelf, UNCHANGED <<starts, tag, posted, got>>,
           NEW q \in Ranks, NEW r \in Ranks, NEW i, NEW type \in {"create", "destroy"},
           Shifts(q, r, i, type)
    PROVE  PostedRight' /\ PostedOrder' /\ MatchRight'
<1> DEFINE s == [o \in Ranks |-> [p \in Ranks |-> IF o = q /\ p = r THEN 1 ELSE 0]]
<1>1. s \in [Ranks -> [Ranks -> Nat]]
  OBVIOUS
<1>2. \A j \in Plans, p \in Ranks : s[Owner[j]][p] = IF Owner[j] = q /\ p = r THEN 1 ELSE 0
  BY PlanFacts
<1> HIDE DEF s
<1>3. ASSUME NEW j \in Plans, NEW p \in Ranks, NEW n \in Nat, NEW t \in {"start", "execute"},
             On(j, p, n, t)'
      PROVE  On(j, p, n + s[Owner[j]][p], t)
  <2>1. CASE Owner[j] = q /\ p = r
    <3>1. On(j, r, n + 1, t)
      BY <1>3, <2>1 DEF Shifts
    <3> QED BY <1>2, <2>1, <3>1
  <2>2. CASE ~(Owner[j] = q /\ p = r)
    <3>1. On(j, p, n, t) /\ n + 0 = n
      BY <1>3, <2>2 DEF Shifts
    <3> QED BY <1>2, <2>2, <3>1
  <2> QED BY <2>1, <2>2
<1>4. \A op \in Ops : Coming(op)' <=> Coming(op)
  BY OpFacts DEF Coming, Shifts
<1> QED BY <1>1, <1>3, <1>4, KeepMatch DEF MatchInv

\* What the daemon of r does with a message from q: it creates or destroys its
\* half of a plan, or it starts it.
CtrlCase(r, q, i, type) ==
    /\ i \in Plans /\ Front(q, r, i, type) /\ Shifts(q, r, i, type)
    /\ \/ /\ type \in {"create", "destroy"} /\ UNCHANGED <<posted, got, que>>
          /\ \E v : \A op \in Ops : ost'[op] = IF op \in Rmt(i, r) THEN v ELSE ost[op]
       \/ type \in {"start", "execute"} /\ Post(r, Rmt(i, r), Tags(Rmt(i, r)))

LEMMA CtrlCases ==
    ASSUME TypeInv, CtrlInv, NEW r \in Ranks, NEW q \in Ranks, DaemonCtrl(r, q)
    PROVE  \E i, type : CtrlCase(r, q, i, type)
<1> DEFINE m == ctrl[q][r][1]  i == m.plan  type == m.type
<1>1. /\ ctrl[q][r] # <<>> /\ ctrl' = [ctrl EXCEPT ![q][r] = Tail(@)]
      /\ Head(ctrl[q][r]) = m /\ UNCHANGED <<plan, batch, batches>>
      /\ CtrlCreate(r, q, m) \/ CtrlStart(r, q, m) \/ CtrlDestroy(r, q, m) \/ CtrlExecute(r, q, m)
  <2>1. ctrl[q][r] # <<>> /\ ctrl' = [ctrl EXCEPT ![q][r] = Tail(@)]
    BY DEF DaemonCtrl
  <2>2. Head(ctrl[q][r]) = m
    BY <2>1, PopOn DEF TypeInv
  <2> HIDE DEF m
  <2> QED BY <2>1, <2>2 DEF DaemonCtrl, planVars
<1>2. Front(q, r, i, type) /\ Shifts(q, r, i, type)
  BY <1>1, PopShift
<1>3. /\ type # "execute" => m.batch = batch[i][r]
      /\ i \in Plans /\ i # None /\ Owner[i] = q /\ r \in Receivers(i) /\ On(i, r, 1, type)
      /\ type = "start" => i \notin Once
  BY <1>2, ChannelAssumption DEF Front
<1>4. ASSUME type \in {"create", "destroy"}, UNCHANGED <<posted, got, que>>,
             NEW v, \A op \in Ops : ost'[op] = IF op \in Rmt(i, r) THEN v ELSE ost[op]
      PROVE  CtrlCase(r, q, i, type)
  <2> HIDE DEF m, i, type
  <2> QED BY <1>2, <1>3, <1>4 DEF CtrlCase
<1>5. ASSUME type \in {"start", "execute"}, Post(r, Rmt(i, r), Tags(Rmt(i, r)))
      PROVE  CtrlCase(r, q, i, type)
  <2> HIDE DEF m, i, type
  <2> QED BY <1>2, <1>3, <1>5 DEF CtrlCase
<1>6. CASE CtrlCreate(r, q, m)
  <2>1. /\ type = "create" /\ UNCHANGED <<posted, got, que>>
        /\ \A op \in Ops : ost'[op] = IF op \in Rmt(i, r) THEN "idle" ELSE ost[op]
    BY <1>6 DEF CtrlCreate
  <2> HIDE DEF m, i, type
  <2> QED BY <1>4, <2>1
<1>7. CASE CtrlDestroy(r, q, m)
  <2>1. type = "destroy" /\ m.batch = batch[i][r] /\ UNCHANGED <<posted, got, que>>
        /\ slot' = [slot EXCEPT ![r][q][batch[i][r]] = None]
    BY <1>3, <1>7 DEF CtrlDestroy
  <2>2. slot[r][q][batch[i][r]] = i
    <3> HIDE DEF m, i, type
    <3> QED BY <1>1, <1>2, <2>1, PopDestroy
  <2>3. ost' = [op \in Ops |-> IF op \in Rmt(i, r) THEN "freed" ELSE ost[op]]
    BY <1>3, <1>7, <2>1, <2>2 DEF CtrlDestroy
  <2> HIDE DEF m, i, type
  <2>4. \A op \in Ops : ost'[op] = IF op \in Rmt(i, r) THEN "freed" ELSE ost[op]
    BY <2>3
  <2> QED BY <1>4, <2>1, <2>4
<1>8. CASE CtrlStart(r, q, m)
  <2>1. type = "start" /\ m.batch = batch[i][r] /\ i \notin Once
    BY <1>3, <1>8 DEF CtrlStart
  <2>2. HoldsSlot(i, r)
    <3> HIDE DEF m, i, type
    <3>1. \A k \in Nat : ~(k < 1 /\ On(i, r, k, "create"))
      BY <1>3, OnFacts DEF TypeInv
    <3> QED BY <1>3, <2>1, <3>1 DEF CtrlInv, MessagesMeet
  <2>3. slot[r][q][m.batch] = i
    BY <1>3, <2>1, <2>2 DEF HoldsSlot
  <2>4. Post(r, Rmt(slot[r][q][m.batch], r), Tags(Rmt(slot[r][q][m.batch], r)))
    BY <1>3, <1>8, <2>3 DEF CtrlStart
  <2> HIDE DEF m, i, type
  <2> QED BY <1>5, <2>1, <2>3, <2>4
<1>9. CASE CtrlExecute(r, q, m)
  <2>1. type = "execute" /\ Post(r, Rmt(i, r), Tags(Rmt(i, r)))
    BY <1>9 DEF CtrlExecute
  <2> HIDE DEF m, i, type
  <2> QED BY <1>5, <2>1
<1> QED BY <1>1, <1>6, <1>7, <1>8, <1>9

LEMMA DaemonCtrlMatch ==
    ASSUME TypeInv, TypeOK', CtrlInv, OpInv, OpInv', MatchInv, NoSelf,
           NEW r \in Ranks, NEW q \in Ranks, DaemonCtrl(r, q)
    PROVE  MatchInv'
<1>1. UNCHANGED <<plan, starts, tag, tags>>
  BY DEF DaemonCtrl, planVars
<1>2. PICK i, type : CtrlCase(r, q, i, type)
  BY CtrlCases
<1>3. /\ i \in Plans /\ Front(q, r, i, type) /\ Shifts(q, r, i, type)
      /\ Rmt(i, r) \in SUBSET Ops /\ \A op \in Rmt(i, r) : op[3] # "loc"
  BY <1>2, LocAre DEF CtrlCase
<1>4. ASSUME \A op \in Ops : op[3] = "loc" => ost'[op] = ost[op] PROVE TagsHeld'
  <2>1. \A x \in Ops : Live(x)' => Live(x)
    BY <1>4 DEF Live
  <2> QED BY <1>1, <2>1, TagsSame DEF MatchInv
<1>5. CASE type \in {"create", "destroy"}
  <2>1. UNCHANGED <<posted, got>> /\ \A op \in Ops : op[3] = "loc" => ost'[op] = ost[op]
    BY <1>2, <1>3, <1>5 DEF CtrlCase
  <2>2. PostedRight' /\ PostedOrder' /\ MatchRight'
    BY <1>1, <1>3, <1>5, <2>1, PopMatch
  <2> QED BY <1>4, <2>1, <2>2 DEF MatchInv
<1>6. CASE type \in {"start", "execute"}
  <2> DEFINE t == Tags(Rmt(i, r))
  <2>1. Post(r, Rmt(i, r), t) /\ \A op \in Rmt(i, r) : t[op] = TagOf(op)
    BY <1>2, <1>6 DEF CtrlCase, Tags
  <2> HIDE DEF t
  <2>2. \A op \in Ops : op[3] = "loc" => ost'[op] = ost[op]
    BY <1>3, <2>1, PostActive DEF TypeInv
  <2>3. PostedRight' /\ PostedOrder' /\ MatchRight'
    BY <1>1, <1>3, <1>6, <2>1, ArriveMatch DEF MatchInv, TagsHeld
  <2> QED BY <1>4, <2>2, <2>3 DEF MatchInv
<1> QED BY <1>2, <1>5, <1>6 DEF CtrlCase

LEMMA DaemonMatch ==
    ASSUME TypeInv, TypeOK', OpInv, MatchInv, NoSelf, NEW r \in Ranks,
           \/ \E S \in SUBSET Completed(r) : DaemonTest(r, S)
           \/ DaemonEvent(r) \/ DaemonRelease(r)
    PROVE  MatchInv'
<1>1. UNCHANGED <<plan, starts, tag, ctrl, posted, got>>
  BY DEF DaemonTest, DaemonEvent, DaemonRelease, planVars, mpiVars
<1>2. PostedRight' /\ PostedOrder' /\ MatchRight'
  BY <1>1, QuietMatch
<1>3. CASE DaemonEvent(r)
  <2>1. UNCHANGED <<tags, ost>>
    BY <1>3 DEF DaemonEvent, planVars, mpiVars
  <2> QED BY <1>1, <1>2, <2>1, TagsSame DEF MatchInv, Live
<1>4. ASSUME NEW S \in SUBSET Completed(r), DaemonTest(r, S) PROVE MatchInv'
  <2>1. UNCHANGED tags /\ ost' = [op \in Ops |-> IF op \in S THEN "idle" ELSE ost[op]]
    BY <1>4 DEF DaemonTest, planVars
  <2>2. \A x \in Ops : Live(x)' => Live(x)
    BY <2>1 DEF Live, Completed
  <2> QED BY <1>1, <1>2, <2>1, <2>2, TagsSame DEF MatchInv
<1>5. CASE DaemonRelease(r)
  <2>1. PICK x \in Ops : x = dop[r] /\ x \in dset[r]
    BY <1>5 DEF DaemonRelease, TypeInv, TypeOK, Taken, ArraysTaken
  <2>2. /\ tags' = IF FreesTag(x) THEN [tags EXCEPT ![r][Peer(x)] = <<TagOf(x)>> \o @] ELSE tags
        /\ ost' = IF FreesOp(x) THEN [ost EXCEPT ![x] = "freed"] ELSE ost
    BY <1>5, <2>1 DEF DaemonRelease
  <2>3. /\ At(x) = r /\ Peer(x) \in Ranks /\ ost \in [Ops -> {"none", "idle", "active", "freed"}]
        /\ tags \in [Ranks -> [Ranks -> Seq(Ids)]] /\ TypeOK
    BY <2>1, OpFacts DEF OpInv, DaemonsRight, TypeInv, TypeOK
  <2>4. \A y \in Ops : Live(y)' => Live(y)
    BY <2>2, <2>3 DEF Live
  <2>5. CASE FreesTag(x)
    <3>1. x[1] \in Once /\ x[3] = "loc" /\ FreesOp(x) /\ ost[x] = "idle"
      BY <1>5, <2>1, <2>5, DaemonReleaseOp DEF FreesTag, FreesOp
    <3>2. Live(x) /\ ~Live(x)'
      BY <2>2, <2>3, <3>1 DEF Live
    <3>3. TagOf(x) \in Ids
      <4>1. OpRight(x)
        BY <2>1 DEF OpInv
      <4>2. plan[x[1]] # "none"
        BY <3>1, <4>1 DEF OpRight, LifeCycle
      <4> QED BY <2>1, <4>2, TagFacts
    <3>4. ASSUME NEW o \in Ranks, NEW p \in Ranks PROVE Returns(o, p)
      <4>1. CASE o = r /\ p = Peer(x)
        <5> DEFINE s == <<TagOf(x)>>  f == [n \in 1 .. 1 |-> x]
        <5>1. s \in Seq(Ids) /\ Len(s) = 1 /\ s[1] = TagOf(x) /\ f[1] = x
          BY <3>3
        <5>2. tags'[o][p] = s \o tags[o][p]
          BY <2>2, <2>3, <2>5, <4>1
        <5> HIDE DEF s, f
        <5>3. \A n \in 1 .. Len(s) : n = 1
          BY <5>1
        <5>4. \A n \in 1 .. Len(s) : /\ f[n] \in Ops /\ Live(f[n]) /\ ~Live(f[n])'
                                     /\ At(f[n]) = o /\ Peer(f[n]) = p /\ s[n] = TagOf(f[n])
                                     /\ \A l \in 1 .. Len(s) : f[n] = f[l] => n = l
          BY <2>3, <3>2, <4>1, <5>1, <5>3
        <5> QED BY <5>1, <5>2, <5>4 DEF Returns
      <4>2. CASE ~(o = r /\ p = Peer(x))
        <5>1. tags'[o][p] = tags[o][p]
          BY <2>2, <2>3, <2>5, <4>2
        <5> QED BY <2>3, <5>1, ReturnsNothing
      <4> QED BY <4>1, <4>2
    <3>5. TagsHeld'
      BY <1>1, <2>3, <2>4, <3>4, TagsReturned DEF MatchInv
    <3> QED BY <1>2, <3>5 DEF MatchInv
  <2>6. CASE ~FreesTag(x)
    <3>1. TagsHeld'
      BY <1>1, <2>2, <2>4, <2>6, TagsSame DEF MatchInv
    <3> QED BY <1>2, <3>1 DEF MatchInv
  <2> QED BY <2>5, <2>6
<1> QED BY <1>3, <1>4, <1>5

LEMMA InitMatch == Init => MatchInv
<1> SUFFICES ASSUME Init PROVE MatchInv
  OBVIOUS
<1>1. /\ \A i \in Plans : plan[i] = "none" /\ starts[i] = 0
      /\ \A x \in Ops : ~Live(x)
      /\ \A k \in Keys : posted[k] = <<>>
      /\ \A r, q \in Ranks : tags[r][q] = [n \in Ids |-> n]
  BY DEF Init, NewPool, Live
<1>2. TagsHeld
  <2>1. ASSUME NEW r \in Ranks, NEW q \in Ranks
        PROVE  \A a, b \in 1 .. Len(tags[r][q]) : tags[r][q][a] = tags[r][q][b] => a = b
    <3>1. NumIds \in Nat /\ Ids = 1 .. NumIds
      BY ChannelAssumption DEF Ids
    <3>2. tags[r][q] = [n \in 1 .. NumIds |-> n]
      BY <1>1, <3>1
    <3>3. Len(tags[r][q]) = NumIds
      BY <3>1, <3>2
    <3> QED BY <3>2, <3>3
  <2> QED BY <1>1, <2>1 DEF TagsHeld, PlanTags, PoolTags, LiveTags
<1>3. PostedRight /\ PostedOrder
  <2>1. \A k \in Keys : \A a \in 1 .. Len(posted[k]) : FALSE
    BY <1>1
  <2> QED BY <2>1 DEF PostedRight, PostedOrder
<1>4. MatchRight
  BY <1>1, OpFacts DEF MatchRight
<1> QED BY <1>2, <1>3, <1>4 DEF MatchInv

LEMMA StepMatch ==
    ASSUME ~EarlyDestroy, NoSelf, TypeInv, CtrlInv, OpInv, NoError, MatchInv, [Next]_vars
    PROVE  MatchInv'
<1>1. TypeInv' /\ TypeOK' /\ OpInv'
  BY StepType, StepOp DEF TypeInv
<1>2. ASSUME NEW i \in Plans, PlanCreate(i) \/ RdmaStart(i) \/ PlanStart(i) \/ PlanDestroy(i)
      PROVE  MatchInv'
  BY <1>1, <1>2, PlanCreateMatch, RdmaStartMatch, PlanStartMatch, PlanDestroyMatch
<1>3. ASSUME NEW r \in Ranks, NEW q \in Ranks, DaemonCtrl(r, q) PROVE MatchInv'
  BY <1>1, <1>3, DaemonCtrlMatch
<1>4. ASSUME NEW r \in Ranks, NEW S \in SUBSET Completed(r), DaemonTest(r, S) PROVE MatchInv'
  BY <1>1, <1>4, DaemonMatch
<1>5. ASSUME NEW r \in Ranks, DaemonEvent(r) \/ DaemonRelease(r) PROVE MatchInv'
  BY <1>1, <1>5, DaemonMatch
<1>6. CASE UNCHANGED vars
  <2>1. UNCHANGED <<plan, starts, tag, tags, ctrl, posted, got, ost>>
    BY <1>6 DEF vars, planVars, mpiVars
  <2>2. TagsHeld'
    BY <2>1, TagsSame DEF MatchInv, Live
  <2> QED BY <1>1, <2>1, <2>2, QuietMatch DEF MatchInv
<1> QED BY <1>2, <1>3, <1>4, <1>5, <1>6 DEF Next, Daemon

-----------------------------------------------------------------------------
(* Nothing is left half way *)

Right == TypeInv /\ CtrlInv /\ OpInv /\ NoError /\ MatchInv

\* When no daemon has anything to handle, every start has fired the signals of
\* both sides: no send or receive waits for one that never comes, and none was
\* matched with another transfer. For the plans without a transfer of a rank
\* with itself.
THEOREM AllDelivered == ~EarlyDestroy /\ NoSelf => (Spec => []Delivered)
<1> SUFFICES ASSUME ~EarlyDestroy /\ NoSelf PROVE Spec => []Delivered
  OBVIOUS
<1>1. Init => Right
  BY InitType, InitCtrl, InitOp, InitMatch DEF Right
<1>2. Right /\ [Next]_vars => Right'
  BY StepType, StepCtrl, StepOp, StepMatch DEF Right
<1>3. Right => Delivered
  <2> SUFFICES ASSUME Right, \A r \in Ranks : Idle(r), NEW i \in Plans, NEW op \in OpsOf(i)
               PROVE  events[op] = starts[i]
    BY DEF Delivered, Signalled
  <2>1. op \in Ops /\ op[1] = i /\ At(op) \in Ranks /\ OpRight(op)
    BY LocAre, OpFacts DEF Right, OpInv
  <2>2. \A x \in Ops : ~Coming(x) /\ ~Due(x)
    <3> SUFFICES ASSUME NEW x \in Ops PROVE ~Coming(x) /\ ~Due(x)
      OBVIOUS
    <3>1. x[1] \in Plans /\ At(x) \in Ranks /\ Owner[x[1]] \in Ranks
      BY OpFacts, PlanFacts
    <3>2. Len(ctrl[Owner[x[1]]][At(x)]) = 0 /\ dset[At(x)] = {}
      BY <3>1 DEF Idle, Right, OpInv, DaemonsRight
    <3> QED BY <3>2 DEF Coming, Due, OnItsWay
  <2> SUFFICES ASSUME Owed(op) PROVE FALSE
    BY <2>1 DEF OpRight, EventRight
  <2>3. ost[op] = "active" /\ op \in que[At(op)]
    BY <2>1, <2>2, OwedIs DEF Right, OpInv, DaemonsRight
  <2>4. starts[i] > 0
    <3>1. events[op] = starts[i] - 1 /\ events[op] \in Nat /\ starts[i] \in Nat
      BY <2>1 DEF OpRight, EventRight, Right, TypeInv, TypeOK
    <3> QED BY <3>1
  <2>5. got[op] = Partner(op) /\ got[op] # None
    <3>1. ~HalfStarted(op) /\ Partner(op) # None
      BY <2>1, <2>2, PartnerFacts DEF HalfStarted
    <3> QED BY <2>1, <2>4, <3>1 DEF Right, MatchInv, MatchRight
  <2>6. op \in Completed(At(op))
    BY <2>3, <2>5 DEF Completed
  <2> QED BY <2>1, <2>6 DEF Idle
<1> QED BY <1>1, <1>2, <1>3, PTL DEF Spec

-----------------------------------------------------------------------------
(* The MPI channel implements Transfer. *)

\* A receive of the initiator is not over while its send has not been started.
ReceiveWaits ==
    \A op \in Ops : op[3] = "loc" /\ ~IsSend(op) /\ Coming(Partner(op)) => ost[op] = "active"

\* Data is under way until the message that starts the remote half has arrived.
RmtOf(t) == <<t[1], t[2], "rmt">>
ArrivedRight == \A t \in Transfers : Arrived(Receiver(t)) <=> ~Coming(RmtOf(t))

\* What a step does to the contract: it starts a plan, ...
Starts(i) ==
    /\ starts' = [starts EXCEPT ![i] = starts[i] + 1] /\ UNCHANGED events
    /\ \A op \in Ops : op[1] = i => ~Coming(op)
    /\ \A op \in Ops : Coming(op)' <=> Coming(op) \/ (op[1] = i /\ op[3] = "rmt")
    /\ \A op \in Ops : ost'[op] = IF op \in Loc(i) THEN "active" ELSE ost[op]
\* ... or starts the other halves of plan i at receiver r, ...
Moves(i, r) ==
    /\ UNCHANGED <<starts, events>>
    /\ \A op \in Rmt(i, r) : Coming(op)
    /\ \A op \in Ops : Coming(op)' <=> Coming(op) /\ op \notin Rmt(i, r)
    /\ \A op \in Ops : op[3] = "loc" => ost'[op] = ost[op]
\* ... or updates a signal, ...
Fires(x) ==
    /\ events' = [events EXCEPT ![x] = events[x] + 1] /\ Due(x) /\ UNCHANGED <<starts, ost>>
    /\ \A op \in Ops : Coming(op)' <=> Coming(op)
\* ... or does nothing the contract knows of.
Keeps ==
    /\ UNCHANGED <<starts, events>>
    /\ \A op \in Ops : Coming(op)' <=> Coming(op)
    /\ \A op \in Ops : /\ op[3] = "loc" /\ ~IsSend(op) /\ Coming(Partner(op)) /\ ost[op] = "active"
                       => ost'[op] = "active"

LEMMA ComingTell ==
    ASSUME TypeInv, NEW i \in Plans, NEW type \in Types, NEW b,
           \A q \in Receivers(i) : b[q] \in 0 .. NumIds, Tell(i, type, b)
    PROVE  IF type \in {"start", "execute"}
           THEN \A op \in Ops : Coming(op)' <=> Coming(op) \/ (op[1] = i /\ op[3] = "rmt")
           ELSE \A op \in Ops : Coming(op)' <=> Coming(op)
<1>1. \A j \in Plans, q \in Ranks : \A t :
         OnItsWay(j, q, t)' <=> \/ OnItsWay(j, q, t)
                                \/ j = i /\ q \in Receivers(i) /\ t = type
  <2>1. TypeOK /\ \A q \in Receivers(i) : b[q] \in 0 .. NumIds
    BY DEF TypeInv
  <2> QED BY ONLY <2>1, PushOn, i \in Plans, type \in Types, Tell(i, type, b)
<1>2. \A op \in Ops : /\ op[1] \in Plans /\ At(op) \in Ranks
                      /\ op[3] = "rmt" => At(op) \in Receivers(op[1])
  BY OpFacts
<1> QED BY <1>1, <1>2 DEF Coming

LEMMA PlanEffect ==
    ASSUME TypeInv, TypeOK', CtrlInv, OpInv, NEW i \in Plans,
           PlanCreate(i) \/ RdmaStart(i) \/ PlanStart(i) \/ PlanDestroy(i)
    PROVE  Starts(i) \/ Keeps
<1>1. TypeOK /\ Owner[i] \in Ranks /\ Receivers(i) \subseteq Ranks
  BY PlanFacts DEF TypeInv
<1>2. Loc(i) \in SUBSET Ops /\ \A op \in Loc(i) : op[1] = i /\ op \in Ops
  BY LocAre
<1>3. \A q \in Receivers(i) : batch[i][q] \in 0 .. NumIds /\ batch'[i][q] \in 0 .. NumIds
  BY <1>1 DEF TypeOK
<1>4. CASE PlanCreate(i)
  <2>1. /\ plan[i] = "none" /\ Tell(i, "create", batch'[i])
        /\ ost' = [op \in Ops |-> IF op \in Loc(i) THEN "idle" ELSE ost[op]]
        /\ UNCHANGED <<starts, events>>
    BY <1>4 DEF PlanCreate, dmnVars
  <2>2. \A op \in Ops : Coming(op)' <=> Coming(op)
    BY <1>3, <2>1, ComingTell DEF Types
  <2>3. \A op \in Loc(i) : ost[op] = "none"
    BY <1>2, <2>1, NewPlan
  <2> QED BY <2>1, <2>2, <2>3 DEF Keeps
<1>5. CASE PlanDestroy(i)
  <2>1. /\ plan[i] = "ready" /\ Signalled(i) /\ Tell(i, "destroy", batch[i])
        /\ ost' = [op \in Ops |-> IF op \in Loc(i) THEN "freed" ELSE ost[op]]
        /\ UNCHANGED <<starts, events>>
    BY <1>5 DEF PlanDestroy, dmnVars
  <2>2. \A op \in Ops : Coming(op)' <=> Coming(op)
    BY <1>3, <2>1, ComingTell DEF Types
  <2>3. \A op \in Loc(i) : ost[op] = "idle"
    BY <2>1, QuietPlan
  <2> QED BY <2>1, <2>2, <2>3 DEF Keeps
<1>6. CASE RdmaStart(i)
  <2> DEFINE t == [op \in Loc(i) |-> tag'[i][op[2]]]
  <2>1. /\ plan[i] = "none" /\ Tell(i, "execute", batch[i]) /\ Post(Owner[i], Loc(i), t)
        /\ starts' = [starts EXCEPT ![i] = 1] /\ UNCHANGED events
    BY <1>6 DEF RdmaStart, dmnVars
  <2> HIDE DEF t
  <2>2. \A op \in Ops : Coming(op)' <=> Coming(op) \/ (op[1] = i /\ op[3] = "rmt")
    BY <1>3, <2>1, ComingTell DEF Types
  <2>3. starts[i] = 0 /\ \A op \in Ops : op[1] = i => ~Coming(op)
    BY <2>1, NewPlan, OwedIs
  <2>4. \A op \in Ops : ost'[op] = IF op \in Loc(i) THEN "active" ELSE ost[op]
    BY <1>1, <1>2, <2>1, PostActive
  <2> QED BY <2>1, <2>2, <2>3, <2>4 DEF Starts
<1>7. CASE PlanStart(i)
  <2> DEFINE t == Tags(Loc(i))
  <2>1. /\ plan[i] = "ready" /\ Signalled(i) /\ Tell(i, "start", batch[i])
        /\ Post(Owner[i], Loc(i), t)
        /\ starts' = [starts EXCEPT ![i] = starts[i] + 1] /\ UNCHANGED events
    BY <1>7 DEF PlanStart, dmnVars
  <2> HIDE DEF t
  <2>2. \A op \in Ops : Coming(op)' <=> Coming(op) \/ (op[1] = i /\ op[3] = "rmt")
    BY <1>3, <2>1, ComingTell DEF Types
  <2>3. \A op \in Ops : op[1] = i => ~Coming(op)
    BY <2>1, QuietPlan
  <2>4. \A op \in Ops : ost'[op] = IF op \in Loc(i) THEN "active" ELSE ost[op]
    BY <1>1, <1>2, <2>1, PostActive
  <2> QED BY <2>1, <2>2, <2>3, <2>4 DEF Starts
<1> QED BY <1>4, <1>5, <1>6, <1>7

\* What the arrival of a message that starts plan i does
LEMMA ComingPop ==
    ASSUME TypeInv, OpInv', NEW q \in Ranks, NEW r \in Ranks, NEW i, NEW type \in {"start", "execute"},
           Front(q, r, i, type), Shifts(q, r, i, type), UNCHANGED <<starts, events>>,
           NEW t, Post(r, Rmt(i, r), t)
    PROVE  Moves(i, r)
<1>1. i \in Plans /\ On(i, r, 1, type) /\ TypeOK
  BY DEF Front, TypeInv
<1>2. /\ Rmt(i, r) \in SUBSET Ops
      /\ \A op : op \in Rmt(i, r) <=> op \in Ops /\ op[1] = i /\ op[3] = "rmt" /\ At(op) = r
  BY <1>1, LocAre
<1>3. \A op \in Ops : ost'[op] = IF op \in Rmt(i, r) THEN "active" ELSE ost[op]
  BY <1>1, <1>2, PostActive
<1>4. \A op \in Rmt(i, r) : Coming(op)
  BY <1>1, <1>2, OnFacts DEF Coming
<1>5. ASSUME NEW op \in Ops PROVE Coming(op)' <=> Coming(op) /\ op \notin Rmt(i, r)
  <2>1. CASE op \in Rmt(i, r)
    <3>1. ost'[op] = "active"
      BY <1>3, <2>1
    <3>2. OpRight(op)'
      BY DEF OpInv
    <3> QED BY <2>1, <3>1, <3>2 DEF OpRight, OwedOnce
  <2>2. CASE op \notin Rmt(i, r)
    <3>1. op[3] = "rmt" => ~(op[1] = i /\ At(op) = r)
      BY <1>2, <2>2
    <3>2. op[3] = "rmt" => \A u : OnItsWay(op[1], At(op), u)' <=> OnItsWay(op[1], At(op), u)
      BY <3>1, OpFacts DEF Shifts
    <3> QED BY <2>2, <3>2 DEF Coming
  <2> QED BY <2>1, <2>2
<1>6. \A op \in Ops : op[3] = "loc" => ost'[op] = ost[op]
  BY <1>2, <1>3
<1> QED BY <1>4, <1>5, <1>6 DEF Moves

LEMMA CtrlEffect ==
    ASSUME TypeInv, CtrlInv, OpInv, OpInv', NEW r \in Ranks, NEW q \in Ranks, DaemonCtrl(r, q)
    PROVE  Keeps \/ \E i \in Plans : Moves(i, r)
<1>1. UNCHANGED <<starts, events>>
  BY DEF DaemonCtrl, planVars, dmnVars
<1>2. PICK i, type : CtrlCase(r, q, i, type)
  BY CtrlCases
<1>3. /\ i \in Plans /\ Front(q, r, i, type) /\ Shifts(q, r, i, type)
      /\ Rmt(i, r) \in SUBSET Ops /\ \A op \in Rmt(i, r) : op[3] # "loc"
  BY <1>2, LocAre DEF CtrlCase
<1>4. CASE type \in {"create", "destroy"}
  <2>1. \A op \in Ops : op[3] = "loc" => ost'[op] = ost[op]
    BY <1>2, <1>3, <1>4 DEF CtrlCase
  <2>2. \A op \in Ops : Coming(op)' <=> Coming(op)
    BY <1>3, <1>4, OpFacts DEF Coming, Shifts
  <2> QED BY <1>1, <2>1, <2>2 DEF Keeps
<1>5. CASE type \in {"start", "execute"}
  <2> DEFINE t == Tags(Rmt(i, r))
  <2>1. Post(r, Rmt(i, r), t)
    BY <1>2, <1>5 DEF CtrlCase
  <2> HIDE DEF t
  <2> QED BY <1>1, <1>3, <1>5, <2>1, ComingPop
<1> QED BY <1>2, <1>4, <1>5 DEF CtrlCase

LEMMA DaemonEffect ==
    ASSUME TypeInv, OpInv, MatchInv, NEW r \in Ranks,
           \/ \E S \in SUBSET Completed(r) : DaemonTest(r, S)
           \/ DaemonEvent(r) \/ DaemonRelease(r)
    PROVE  Keeps \/ \E x \in Ops : Fires(x)
<1>1. UNCHANGED <<plan, starts, batch, ctrl, slot>>
  BY DEF DaemonTest, DaemonEvent, DaemonRelease, planVars
<1>2. \A op : Coming(op)' <=> Coming(op)
  BY <1>1, QuietOp
<1>3. ASSUME NEW S \in SUBSET Completed(r), DaemonTest(r, S) PROVE Keeps
  <2>1. ost' = [op \in Ops |-> IF op \in S THEN "idle" ELSE ost[op]] /\ UNCHANGED events
    BY <1>3 DEF DaemonTest
  <2>2. \A op \in Ops : op[3] = "loc" /\ ~IsSend(op) /\ Coming(Partner(op)) => op \notin S
    <3> SUFFICES ASSUME NEW op \in Ops, op[3] = "loc", ~IsSend(op), Coming(Partner(op))
                 PROVE  op \notin S
      OBVIOUS
    <3>1. starts[op[1]] > 0 /\ HalfStarted(op)
      BY PartnerFacts, ComingFacts DEF HalfStarted
    <3>2. got[op] = None
      BY <3>1 DEF MatchInv, MatchRight
    <3> QED BY <3>2 DEF Completed
  <2> QED BY <1>1, <1>2, <2>1, <2>2 DEF Keeps
<1>4. CASE DaemonEvent(r)
  <2>1. PICK x \in dset[r] : events' = [events EXCEPT ![x] = @ + 1]
    BY <1>4 DEF DaemonEvent
  <2>2. dpc[r] = "event" /\ UNCHANGED ost
    BY <1>4 DEF DaemonEvent, mpiVars
  <2>3. x \in Ops /\ At(x) = r
    BY DEF TypeInv, TypeOK, OpInv, DaemonsRight
  <2>4. Due(x)
    BY <2>2, <2>3 DEF Due
  <2> QED BY <1>1, <1>2, <2>1, <2>2, <2>3, <2>4 DEF Fires
<1>5. CASE DaemonRelease(r)
  <2>1. PICK x \in Ops : x = dop[r] /\ x \in dset[r]
    BY <1>5 DEF DaemonRelease, TypeInv, TypeOK, Taken, ArraysTaken
  <2>2. ost' = IF FreesOp(x) THEN [ost EXCEPT ![x] = "freed"] ELSE ost
    BY <1>5, <2>1 DEF DaemonRelease
  <2>3. ost[x] = "idle" \/ ~FreesOp(x)
    BY <1>5, <2>1, DaemonReleaseOp DEF FreesOp
  <2>4. ost \in [Ops -> {"none", "idle", "active", "freed"}]
    BY DEF TypeInv, TypeOK
  <2>5. \A op \in Ops : ost[op] = "active" => ost'[op] = "active"
    BY <2>2, <2>3, <2>4
  <2>6. UNCHANGED events
    BY <1>5 DEF DaemonRelease
  <2> QED BY <1>1, <1>2, <2>5, <2>6 DEF Keeps
<1> QED BY <1>3, <1>4, <1>5

LEMMA StepEffect ==
    ASSUME ~EarlyDestroy, Right, [Next]_vars
    PROVE  \/ \E i \in Plans : Starts(i)
           \/ \E i \in Plans, r \in Ranks : Moves(i, r)
           \/ \E x \in Ops : Fires(x)
           \/ Keeps
<1>0. TypeInv /\ CtrlInv /\ OpInv /\ MatchInv /\ NoError
  BY DEF Right
<1>1. TypeInv' /\ TypeOK' /\ OpInv'
  BY <1>0, StepType, StepOp DEF TypeInv
<1>2. ASSUME NEW i \in Plans, PlanCreate(i) \/ RdmaStart(i) \/ PlanStart(i) \/ PlanDestroy(i)
      PROVE  Starts(i) \/ Keeps
  BY <1>0, <1>1, <1>2, PlanEffect
<1>3. ASSUME NEW r \in Ranks, NEW q \in Ranks, DaemonCtrl(r, q)
      PROVE  Keeps \/ \E i \in Plans : Moves(i, r)
  BY <1>0, <1>1, <1>3, CtrlEffect
<1>4. ASSUME NEW r \in Ranks, \/ \E S \in SUBSET Completed(r) : DaemonTest(r, S)
                              \/ DaemonEvent(r) \/ DaemonRelease(r)
      PROVE  Keeps \/ \E x \in Ops : Fires(x)
  BY <1>0, <1>4, DaemonEffect
<1>5. CASE UNCHANGED vars
  <2>1. UNCHANGED <<plan, starts, batch, ctrl, slot, ost, events>>
    BY <1>5 DEF vars, planVars, mpiVars, dmnVars
  <2>2. \A op : Coming(op)' <=> Coming(op)
    BY <1>0, <2>1, QuietOp
  <2> QED BY <2>1, <2>2 DEF Keeps
<1> QED BY <1>2, <1>3, <1>4, <1>5 DEF Next, Daemon

LEMMA StepReceive ==
    ASSUME ~EarlyDestroy, Right, ReceiveWaits, [Next]_vars PROVE ReceiveWaits'
<1> SUFFICES ASSUME NEW op \in Ops, op[3] = "loc", ~IsSend(op), Coming(Partner(op))'
             PROVE  ost'[op] = "active"
  BY DEF ReceiveWaits
<1>1. Partner(op) \in Ops /\ Partner(op)[1] = op[1]
  BY PartnerFacts
<1>2. Coming(Partner(op)) => ost[op] = "active"
  BY DEF ReceiveWaits
<1>3. ASSUME NEW i \in Plans, Starts(i) PROVE ost'[op] = "active"
  <2>1. op[1] = i => op \in Loc(i)
    BY LocAre
  <2>2. op[1] # i => Coming(Partner(op)) /\ op \notin Loc(i)
    BY <1>1, <1>3, LocAre DEF Starts
  <2> QED BY <1>2, <1>3, <2>1, <2>2 DEF Starts
<1>4. ASSUME NEW i \in Plans, NEW r \in Ranks, Moves(i, r) PROVE ost'[op] = "active"
  BY <1>1, <1>2, <1>4 DEF Moves
<1>5. ASSUME NEW x \in Ops, Fires(x) PROVE ost'[op] = "active"
  BY <1>1, <1>2, <1>5 DEF Fires
<1>6. CASE Keeps
  BY <1>1, <1>2, <1>6 DEF Keeps
<1> QED BY <1>3, <1>4, <1>5, <1>6, StepEffect

LEMMA ReceiverFacts ==
    ASSUME NEW t \in Transfers
    PROVE  /\ Receiver(t) \in Ops /\ Receiver(t)[1] = t[1] /\ Receiver(t)[2] = t[2]
           /\ ~IsSend(Receiver(t)) /\ RmtOf(t) \in Ops /\ RmtOf(t)[1] = t[1]
           /\ Receiver(t)[3] = "rmt" => Receiver(t) = RmtOf(t)
           /\ Receiver(t)[3] = "loc" => Partner(Receiver(t)) = RmtOf(t)
           /\ t = <<t[1], t[2]>> /\ t[1] \in Plans /\ t[2] \in Indices(t[1])
           /\ \A op \in Ops : TransferOf(op) = t <=> op[1] = t[1] /\ op[2] = t[2]
<1>1. PICK x \in Ops : t = <<x[1], x[2]>>
  BY DEF Transfers, TransferOf
<1>2. /\ t = <<t[1], t[2]>> /\ t[1] = x[1] /\ t[2] = x[2]
      /\ t[1] \in Plans /\ t[2] \in Indices(t[1])
  BY <1>1, OpFacts
<1>3. \A op \in Ops : TransferOf(op) = t <=> op[1] = t[1] /\ op[2] = t[2]
  BY <1>2 DEF TransferOf
<1>4. RmtOf(t) \in Ops /\ RmtOf(t)[1] = t[1]
  BY <1>2, OpsAre DEF RmtOf
<1>5. \E op \in Ops : TransferOf(op) = t /\ ~IsSend(op)
  <2>1. TransferOf(x) = t /\ TransferOf(Partner(x)) = t /\ Partner(x) \in Ops
        /\ (IsSend(Partner(x)) <=> ~IsSend(x))
    BY <1>2, <1>3, PartnerFacts
  <2> QED BY <2>1
<1>6. Receiver(t) \in Ops /\ TransferOf(Receiver(t)) = t /\ ~IsSend(Receiver(t))
  BY <1>5, Zenon DEF Receiver
<1>7. /\ Receiver(t)[3] = "rmt" => Receiver(t) = RmtOf(t)
      /\ Receiver(t)[3] = "loc" => Partner(Receiver(t)) = RmtOf(t)
  BY <1>3, <1>6, OpsAre DEF RmtOf, Partner
<1> QED BY <1>2, <1>3, <1>4, <1>6, <1>7

LEMMA ArrivedIs == Right /\ ReceiveWaits => ArrivedRight
<1> SUFFICES ASSUME Right, ReceiveWaits, NEW t \in Transfers
             PROVE  Arrived(Receiver(t)) <=> ~Coming(RmtOf(t))
  BY DEF ArrivedRight
<1> DEFINE op == Receiver(t)
<1>1. /\ op \in Ops /\ ~IsSend(op) /\ op[3] \in {"loc", "rmt"}
      /\ op[3] = "rmt" => op = RmtOf(t) /\ Partner(op)[3] = "loc"
      /\ op[3] = "loc" => Partner(op) = RmtOf(t)
  BY ReceiverFacts, OpFacts, PartnerFacts
<1> HIDE DEF op
<1>2. HalfStarted(op) <=> Coming(RmtOf(t))
  BY <1>1 DEF HalfStarted, Coming
<1>3. OpRight(op) /\ op[1] \in Plans /\ starts[op[1]] \in Nat /\ events[op] \in Nat
  BY <1>1, OpFacts DEF Right, OpInv, TypeInv, TypeOK
<1>4. Current(op) <=> ost[op] = "active" \/ Due(op)
  BY DEF Current, Due
<1>5. CASE HalfStarted(op)
  <2>1. CASE op[3] = "rmt"
    <3>1. Coming(op)
      BY <1>1, <1>2, <1>5, <2>1
    <3>2. Owed(op) /\ ~Current(op)
      BY <1>3, <1>4, <3>1, OwedIs DEF OpRight, OwedOnce
    <3> QED BY <1>2, <1>5, <3>2 DEF Arrived, op
  <2>2. CASE op[3] = "loc"
    <3>1. ost[op] = "active" /\ Coming(Partner(op))
      BY <1>1, <1>2, <1>5, <2>2 DEF ReceiveWaits
    <3>2. starts[op[1]] > 0
      BY <1>1, <3>1, ComingFacts, PartnerFacts DEF Right
    <3>3. got[op] = None /\ Partner(op) # None
      BY <1>1, <1>5, <2>2, <3>2, PartnerFacts DEF Right, MatchInv, MatchRight
    <3> QED BY <1>2, <1>5, <3>1, <3>3, OwedIs DEF Arrived, op
  <2> QED BY <1>1, <2>1, <2>2
<1>6. CASE ~HalfStarted(op)
  <2> SUFFICES ASSUME Owed(op) PROVE Current(op) /\ got[op] = Partner(op)
    BY <1>2, <1>6 DEF Arrived, op
  <2>1. starts[op[1]] > 0
    BY <1>3 DEF OpRight, EventRight
  <2>2. got[op] = Partner(op)
    BY <1>1, <1>6, <2>1 DEF Right, MatchInv, MatchRight
  <2>3. Current(op)
    BY <1>4, <1>6, OwedIs DEF HalfStarted
  <2> QED BY <2>2, <2>3
<1> QED BY <1>5, <1>6

\* The state of the contract
Started == [t \in Transfers |-> starts[t[1]]]
Moved   == [t \in Transfers |-> starts[t[1]] - IF Arrived(Receiver(t)) THEN 0 ELSE 1]
Told    == [e \in Ends |-> events[OpOf(e)]]

\* Data that has been started and not moved is what a message will start.
MovedRight == \A t \in Transfers :
    /\ starts[t[1]] \in Nat /\ Moved[t] \in Int
    /\ Coming(RmtOf(t)) => Moved[t] = starts[t[1]] - 1
    /\ ~Coming(RmtOf(t)) => Moved[t] = starts[t[1]]

LEMMA MovedIs == Right /\ ReceiveWaits => MovedRight
<1> SUFFICES ASSUME Right, ReceiveWaits, NEW t \in Transfers
             PROVE  /\ starts[t[1]] \in Nat /\ Moved[t] \in Int
                    /\ Coming(RmtOf(t)) => Moved[t] = starts[t[1]] - 1
                    /\ ~Coming(RmtOf(t)) => Moved[t] = starts[t[1]]
  BY DEF MovedRight
<1> DEFINE d == IF Arrived(Receiver(t)) THEN 0 ELSE 1
<1>1. starts[t[1]] \in Nat
  <2>1. t[1] \in Plans
    BY ReceiverFacts, OpFacts
  <2> QED BY <2>1 DEF Right, TypeInv, TypeOK
<1>2. Arrived(Receiver(t)) <=> ~Coming(RmtOf(t))
  BY ArrivedIs DEF ArrivedRight
<1>3. Moved[t] = starts[t[1]] - d
  BY DEF Moved
<1>4. (d = 0 /\ ~Coming(RmtOf(t))) \/ (d = 1 /\ Coming(RmtOf(t)))
  BY <1>2, Zenon
<1> HIDE DEF d
<1> QED BY <1>1, <1>3, <1>4

LEMMA EndFacts ==
    ASSUME NEW e \in Ends
    PROVE  /\ OpOf(e) \in Ops /\ TransferOf(OpOf(e)) = e[1] /\ OpOf(e)[3] = e[2] /\ e[1] \in Transfers
           /\ e[1][1] = OpOf(e)[1] /\ e = <<e[1], e[2]>>
           /\ RmtOf(e[1]) = IF OpOf(e)[3] = "rmt" THEN OpOf(e) ELSE Partner(OpOf(e))
<1>1. PICK x \in Ops : e = <<TransferOf(x), x[3]>>
  BY DEF Ends
<1>2. x = <<x[1], x[2], x[3]>> /\ x[3] \in {"loc", "rmt"}
  BY OpsAre
<1>3. e[1] = <<x[1], x[2]>> /\ e[2] = x[3] /\ OpOf(e) = x
  BY <1>1, <1>2 DEF TransferOf, OpOf
<1> QED BY <1>1, <1>2, <1>3 DEF Transfers, TransferOf, RmtOf, Partner

LEMMA RmtFacts ==
    ASSUME NEW t \in Transfers
    PROVE  /\ t = <<t[1], t[2]>> /\ t[1] \in Plans /\ RmtOf(t) \in Ops /\ RmtOf(t)[1] = t[1]
           /\ RmtOf(t)[3] = "rmt" /\ TransferOf(RmtOf(t)) = t
<1>1. PICK x \in Ops : t = <<x[1], x[2]>>
  BY DEF Transfers, TransferOf
<1> QED BY <1>1, OpsAre DEF RmtOf, TransferOf

LEMMA StartsMaps ==
    ASSUME TypeInv, MovedRight, MovedRight', NEW i \in Plans, Starts(i)
    PROVE  Contract!Start({t \in Transfers : t[1] = i})
<1> DEFINE T == {t \in Transfers : t[1] = i}
<1>0. starts \in [Plans -> Nat]
  BY DEF TypeInv, TypeOK
<1>1. Started' = Contract!More(Started, T)
  <2>1. ASSUME NEW t \in Transfers
        PROVE  starts'[t[1]] = IF t \in T THEN starts[t[1]] + 1 ELSE starts[t[1]]
    BY <1>0, RmtFacts DEF Starts
  <2> HIDE DEF T
  <2> QED BY <2>1 DEF Started, Contract!More
<1>2. ASSUME NEW t \in Transfers PROVE Moved'[t] = Moved[t]
  <2>1. CASE t[1] = i
    <3>1. ~Coming(RmtOf(t)) /\ Coming(RmtOf(t))' /\ starts'[t[1]] = starts[t[1]] + 1
      BY <1>0, <2>1, RmtFacts DEF Starts
    <3> QED BY <3>1 DEF MovedRight
  <2>2. CASE t[1] # i
    <3>1. (Coming(RmtOf(t))' <=> Coming(RmtOf(t))) /\ starts'[t[1]] = starts[t[1]]
      BY <1>0, <2>2, RmtFacts DEF Starts
    <3> QED BY <3>1 DEF MovedRight
  <2> QED BY <2>1, <2>2
<1>3. Moved' = Moved
  BY <1>2 DEF Moved
<1>4. Told' = Told
  BY DEF Told, Starts
<1> QED BY <1>1, <1>3, <1>4 DEF Contract!Start, Started, Moved, Told

LEMMA MovesMaps ==
    ASSUME MovedRight, MovedRight', NEW i \in Plans, NEW r \in Ranks, Moves(i, r)
    PROVE  Contract!Move({t \in Transfers : RmtOf(t) \in Rmt(i, r)})
<1> DEFINE T == {t \in Transfers : RmtOf(t) \in Rmt(i, r)}
<1>1. ASSUME NEW t \in Transfers
      PROVE  /\ t \in T => Moved[t] < Started[t]
             /\ Moved'[t] = IF t \in T THEN Moved[t] + 1 ELSE Moved[t]
  <2>1. starts'[t[1]] = starts[t[1]] /\ Started[t] = starts[t[1]] /\ starts[t[1]] \in Nat
    BY DEF Moves, Started, MovedRight
  <2>2. CASE t \in T
    <3>1. Coming(RmtOf(t)) /\ ~Coming(RmtOf(t))'
      BY <2>2, RmtFacts DEF Moves
    <3> QED BY <2>1, <2>2, <3>1 DEF MovedRight
  <2>3. CASE t \notin T
    <3>1. Coming(RmtOf(t))' <=> Coming(RmtOf(t))
      BY <2>3, RmtFacts DEF Moves
    <3> QED BY <2>1, <2>3, <3>1 DEF MovedRight
  <2> QED BY <2>2, <2>3
<1> HIDE DEF T
<1>2. Moved' = Contract!More(Moved, T)
  BY <1>1 DEF Moved, Contract!More
<1>3. Started' = Started /\ Told' = Told
  BY DEF Moves, Started, Told
<1>4. \A t \in T : t \in Transfers
  BY DEF T
<1>5. Contract!Move(T)
  BY <1>1, <1>2, <1>3, <1>4 DEF Contract!Move, Started, Moved, Told
<1> QED BY <1>5 DEF T

LEMMA FiresMaps ==
    ASSUME Right, ReceiveWaits, MovedRight, MovedRight', NEW x \in Ops, Fires(x)
    PROVE  Contract!Fire(<<TransferOf(x), x[3]>>)
<1> DEFINE e == <<TransferOf(x), x[3]>>
<1>1. e \in Ends /\ OpOf(e) = x /\ e[1] \in Transfers /\ e[1] = TransferOf(x) /\ e[1][1] = x[1]
  BY OpsAre DEF Ends, OpOf, Transfers, TransferOf
<1> HIDE DEF e
<1>2. /\ starts[x[1]] \in Nat /\ events[x] = starts[x[1]] - 1
      /\ ost[x] = "idle" /\ ~Coming(x) /\ events \in [Ops -> Nat]
  <2>1. Due(x) /\ OpRight(x) /\ x[1] \in Plans
    BY OpFacts DEF Fires, Right, OpInv
  <2>2. Owed(x)
    BY <2>1, OwedIs
  <2> QED BY <2>1, <2>2 DEF OpRight, EventRight, OwedOnce, Right, TypeInv, TypeOK
<1>3. Started[e[1]] = starts[x[1]] /\ Told[e] = events[x]
  BY <1>1 DEF Started, Told
<1>4. Told[e] < IF e \in RecvEnds THEN Moved[e[1]] ELSE Started[e[1]]
  <2>1. CASE e \in RecvEnds
    <3>1. ~IsSend(x)
      BY <1>1, <2>1 DEF RecvEnds
    <3>2. ~Coming(RmtOf(e[1]))
      <4>1. RmtOf(e[1]) = IF x[3] = "rmt" THEN x ELSE Partner(x)
        BY <1>1, EndFacts
      <4>2. x[3] = "loc" => ~Coming(Partner(x))
        BY <1>2, <3>1 DEF ReceiveWaits
      <4> QED BY <1>2, <4>1, <4>2, OpFacts
    <3>3. Moved[e[1]] = starts[x[1]]
      BY <1>1, <3>2 DEF MovedRight
    <3> QED BY <1>2, <1>3, <2>1, <3>3
  <2>2. CASE e \notin RecvEnds
    BY <1>2, <1>3, <2>2
  <2> QED BY <2>1, <2>2
<1>5. Told' = Contract!More(Told, {e})
  <2>1. ASSUME NEW d \in Ends
        PROVE  events'[OpOf(d)] = IF d = e THEN events[OpOf(d)] + 1 ELSE events[OpOf(d)]
    <3>1. OpOf(d) \in Ops /\ (OpOf(d) = x <=> d = e)
      BY <1>1, EndFacts
    <3> QED BY <1>2, <3>1 DEF Fires
  <2> QED BY <2>1 DEF Told, Contract!More
<1>6. Started' = Started
  BY DEF Fires, Started
<1>7. Moved' = Moved
  <2>1. ASSUME NEW t \in Transfers PROVE Moved'[t] = Moved[t]
    BY RmtFacts DEF Fires, MovedRight
  <2> QED BY <2>1 DEF Moved
<1>8. Contract!Fire(e)
  BY <1>4, <1>5, <1>6, <1>7 DEF Contract!Fire, Contract!Due, Started, Moved, Told
<1> QED BY <1>8 DEF e

LEMMA KeepsMaps ==
    ASSUME MovedRight, MovedRight', Keeps
    PROVE  UNCHANGED <<Started, Moved, Told>>
<1>1. Started' = Started /\ Told' = Told
  BY DEF Keeps, Started, Told
<1>2. ASSUME NEW t \in Transfers PROVE Moved'[t] = Moved[t]
  BY RmtFacts DEF Keeps, MovedRight
<1>3. Moved' = Moved
  BY <1>2 DEF Moved
<1> QED BY <1>1, <1>3

LEMMA InitMaps == Init => ReceiveWaits /\ Contract!Init
<1> SUFFICES ASSUME Init PROVE ReceiveWaits /\ Contract!Init
  OBVIOUS
<1>1. /\ \A i \in Plans : starts[i] = 0
      /\ \A op \in Ops : events[op] = 0 /\ ~Coming(op)
  <2>1. \A q, r \in Ranks : ctrl[q][r] = <<>>
    BY DEF Init
  <2>2. ASSUME NEW op \in Ops PROVE ~Coming(op)
    <3>1. Len(ctrl[Owner[op[1]]][At(op)]) = 0
      BY <2>1, OpFacts, PlanFacts
    <3> QED BY <3>1 DEF Coming, OnItsWay
  <2> QED BY <2>2 DEF Init
<1>2. ReceiveWaits
  BY <1>1, PartnerFacts DEF ReceiveWaits
<1>3. MovedRight
  BY <1>2, MovedIs, InitType, InitCtrl, InitOp, InitMatch DEF Right
<1>4. \A t \in Transfers : Started[t] = 0 /\ Moved[t] = 0
  BY <1>1, <1>3, RmtFacts DEF MovedRight, Started
<1>5. \A e \in Ends : Told[e] = 0
  BY <1>1, EndFacts DEF Told
<1>6. /\ Started = [t \in Transfers |-> 0]
      /\ Moved = [t \in Transfers |-> 0]
      /\ Told = [e \in Ends |-> 0]
  BY <1>4, <1>5 DEF Started, Moved, Told
<1>7. Contract!Init
  BY <1>6 DEF Contract!Init, Started, Moved, Told
<1> QED BY <1>2, <1>7

LEMMA StepMaps ==
    ASSUME ~EarlyDestroy, Right, ReceiveWaits, MovedRight, MovedRight', [Next]_vars
    PROVE  [Contract!Next]_(Contract!vars)
<1>1. ASSUME NEW i \in Plans, Starts(i) PROVE Contract!Next
  <2>1. {t \in Transfers : t[1] = i} \in SUBSET Transfers
    OBVIOUS
  <2> QED BY <1>1, <2>1, StartsMaps DEF Contract!Next, Right
<1>2. ASSUME NEW i \in Plans, NEW r \in Ranks, Moves(i, r) PROVE Contract!Next
  <2>1. {t \in Transfers : RmtOf(t) \in Rmt(i, r)} \in SUBSET Transfers
    OBVIOUS
  <2> QED BY <1>2, <2>1, MovesMaps DEF Contract!Next
<1>3. ASSUME NEW x \in Ops, Fires(x) PROVE Contract!Next
  <2>1. <<TransferOf(x), x[3]>> \in Ends
    BY DEF Ends
  <2> QED BY <1>3, <2>1, FiresMaps DEF Contract!Next
<1>4. CASE Keeps
  BY <1>4, KeepsMaps DEF Contract!vars, Started, Moved, Told
<1> QED BY <1>1, <1>2, <1>3, <1>4, StepEffect

\* The MPI channel moves the data of every start once, tells the receiving end
\* only when the data is there, and tells each end exactly once: a call that
\* starts a plan is a Start of all its transfers, the arrival of a control
\* message that starts their other halves is a Move, and DaemonEvent is a Fire.
THEOREM ChannelImplementsTransfer ==
    ~EarlyDestroy /\ NoSelf => (Spec => ImplementsTransfer)
<1> SUFFICES ASSUME ~EarlyDestroy /\ NoSelf PROVE Spec => ImplementsTransfer
  OBVIOUS
<1>1. Init => Right /\ ReceiveWaits /\ Contract!Init
  BY InitType, InitCtrl, InitOp, InitMatch, InitMaps DEF Right
<1>2. Right /\ ReceiveWaits /\ [Next]_vars => Right' /\ ReceiveWaits'
  BY StepType, StepCtrl, StepOp, StepMatch, StepReceive DEF Right
<1>3. Right /\ ReceiveWaits => MovedRight
  BY MovedIs
<1>4. /\ Right /\ ReceiveWaits /\ MovedRight /\ MovedRight' /\ [Next]_vars
      => [Contract!Next]_(Contract!vars)
  BY StepMaps
<1> QED BY <1>1, <1>2, <1>3, <1>4, PTL DEF Spec, ImplementsTransfer, Contract!Safety

-----------------------------------------------------------------------------
(* What uri_mpi_channel_close leaves *)

CloseTypes ==
    /\ cp \in [Ranks -> {"run", "barrier", "stop", "stopping", "reduce", "probe", "tested", "closed"}]
    /\ smp \in [Ranks -> BOOLEAN] /\ most \in [Ranks -> BOOLEAN]

\* r has had the result of a reduction.
Agreed(r) == cp[r] \in {"probe", "tested", "closed"}

\* A rank that waits for the others has told them of its requests.
SampleRight == \A r \in Ranks : cp[r] = "reduce" => dpc[r] = "probe" /\ (smp[r] \/ que[r] = {})

\* The ranks agree on whether a pass is the last one.
PassesAgree ==
    \A r \in Ranks : Agreed(r) => \A q \in Ranks : /\ Agreed(q) \/ cp[q] = "reduce"
                                                   /\ most[q] <=> most[r]
\* In the last pass only receiving halves of puts may be started.
LastPass ==
    \A r \in Ranks : Agreed(r) /\ ~most[r] => \A q \in Ranks :
        /\ Agreed(q)
        /\ \A op \in que[q] \cup dset[q] : op[3] = "rmt" /\ ~IsSend(op)
ClosedLast == \A r \in Ranks : Closed(r) => ~most[r]

CloseInv == CloseTypes /\ SampleRight /\ PassesAgree /\ LastPass /\ ClosedLast

\* A step that the closing takes with the channel as it is.
LEMMA CloseSame ==
    ASSUME CloseInv, DaemonsRight, UNCHANGED <<que, dset, dpc>>,
           CloseTypes', NEW r \in Ranks,
           \A q \in Ranks : q # r => cp'[q] = cp[q] /\ smp'[q] = smp[q],
           UNCHANGED most,
           \/ ~Agreed(r) /\ ~Agreed(r)' /\ (cp[r] = "reduce" => cp'[r] = "reduce" /\ smp'[r] = smp[r])
           \/ Agreed(r) /\ Agreed(r)' /\ (cp'[r] = "closed" => ~most[r])
           \/ Agreed(r) /\ most[r] /\ cp'[r] = "reduce",
           cp[r] # "reduce" /\ cp'[r] = "reduce" => dpc[r] = "probe" /\ (smp'[r] \/ que[r] = {})
    PROVE  CloseInv'
<1>1. \A q \in Ranks : q # r => (Agreed(q)' <=> Agreed(q)) /\ cp'[q] = cp[q] /\ smp'[q] = smp[q]
  BY DEF Agreed
<1>2. SampleRight'
  BY <1>1 DEF CloseInv, SampleRight, Agreed
<1>3. PassesAgree'
  BY <1>1 DEF CloseInv, PassesAgree, Agreed
<1>4. LastPass'
  BY <1>1 DEF CloseInv, LastPass, PassesAgree, Agreed
<1>5. ClosedLast'
  BY <1>1 DEF CloseInv, ClosedLast, Closed, Agreed
<1> QED BY <1>2, <1>3, <1>4, <1>5 DEF CloseInv

\* A step of the channel on rank r, which is not in a reduction.
LEMMA ChannelClose ==
    ASSUME CloseInv, NEW r \in Ranks, cp[r] # "reduce", CloseTypes', UNCHANGED <<smp, most>>,
           \A q \in Ranks : q # r => /\ cp'[q] = cp[q] /\ que'[q] = que[q] /\ dset'[q] = dset[q]
                                     /\ dpc'[q] = dpc[q],
           cp'[r] # "reduce" /\ (Agreed(r)' <=> Agreed(r)) /\ (Closed(r)' <=> Closed(r)),
           Agreed(r) /\ ~most[r] =>
               \A op \in que'[r] \cup dset'[r] : op[3] = "rmt" /\ ~IsSend(op)
    PROVE  CloseInv'
<1>1. \A q \in Ranks : (Agreed(q)' <=> Agreed(q)) /\ (Closed(q)' <=> Closed(q))
                       /\ (cp'[q] = "reduce" <=> cp[q] = "reduce")
  BY DEF Agreed, Closed
<1>2. SampleRight'
  BY <1>1 DEF CloseInv, SampleRight
<1>3. PassesAgree'
  BY <1>1 DEF CloseInv, PassesAgree
<1>4. LastPass'
  <2> SUFFICES ASSUME NEW p \in Ranks, Agreed(p), ~most[p], NEW q \in Ranks
               PROVE  /\ Agreed(q)
                      /\ \A op \in que'[q] \cup dset'[q] : op[3] = "rmt" /\ ~IsSend(op)
    BY <1>1 DEF LastPass
  <2>1. /\ Agreed(q) /\ ~most[q]
        /\ \A op \in que[q] \cup dset[q] : op[3] = "rmt" /\ ~IsSend(op)
    BY DEF CloseInv, LastPass, PassesAgree
  <2> QED BY <2>1
<1>5. ClosedLast'
  BY <1>1 DEF CloseInv, ClosedLast
<1> QED BY <1>2, <1>3, <1>4, <1>5 DEF CloseInv

\* A control message of the last pass starts no send: the get it would belong
\* to is not over on the rank that sent it.
LEMMA CtrlClose ==
    ASSUME Right, ReceiveWaits, CloseInv, CloseTypes', NEW r \in Ranks, NEW q \in Ranks, Ctrl(r, q)
    PROVE  CloseInv'
<1>1. TypeInv /\ TypeOK /\ CtrlInv /\ DaemonsRight /\ DaemonCtrl(r, q) /\ UNCHANGED closeVars
      /\ cp[r] \in Probing /\ UNCHANGED <<dset, dpc>>
  BY DEF Right, TypeInv, OpInv, Ctrl, DaemonCtrl, dmnVars
<1>2. PICK i, type : CtrlCase(r, q, i, type)
  BY <1>1, CtrlCases
<1>3. /\ i \in Plans /\ Front(q, r, i, type)
      /\ \A op \in Rmt(i, r) : op \in Ops /\ op[3] = "rmt" /\ op[1] = i /\ At(op) = r
  BY <1>2, LocAre DEF CtrlCase
<1>4. CASE UNCHANGED que
  <2>1. Agreed(r) /\ ~most[r] => \A op \in que'[r] \cup dset'[r] : op[3] = "rmt" /\ ~IsSend(op)
    BY <1>1, <1>4 DEF CloseInv, LastPass
  <2> QED BY <1>1, <1>4, <2>1, ChannelClose DEF closeVars, Probing, Agreed, Closed
<1>5. CASE type \in {"start", "execute"} /\ Post(r, Rmt(i, r), Tags(Rmt(i, r)))
  <2> DEFINE S == Rmt(i, r)
  <2>1. que' = [que EXCEPT ![r] = que[r] \cup S]
    BY <1>5 DEF Post
  <2>2. ASSUME NEW op \in S, Agreed(r), ~most[r] PROVE op[3] = "rmt" /\ ~IsSend(op)
    <3>1. Coming(op) /\ op \in Ops /\ op[3] = "rmt"
      BY <1>1, <1>3, <1>5, OnFacts DEF Coming, Front
    <3>2. ASSUME IsSend(op) PROVE FALSE
      <4>1. /\ Partner(op) \in Ops /\ Partner(op)[3] = "loc" /\ ~IsSend(Partner(op))
            /\ Partner(Partner(op)) = op /\ At(Partner(op)) \in Ranks
        BY <3>1, <3>2, PartnerFacts, OpFacts
      <4>2. Partner(op) \in que[At(Partner(op))]
        BY <1>1, <3>1, <4>1 DEF ReceiveWaits, DaemonsRight
      <4> QED BY <2>2, <4>1, <4>2 DEF CloseInv, LastPass
    <3> QED BY <3>1, <3>2
  <2> HIDE DEF S
  <2>3. que \in [Ranks -> SUBSET Ops]
    BY <1>1 DEF TypeOK
  <2>4. Agreed(r) /\ ~most[r] => \A op \in que'[r] \cup dset'[r] : op[3] = "rmt" /\ ~IsSend(op)
    BY <1>1, <2>1, <2>2, <2>3 DEF CloseInv, LastPass
  <2>5. \A p \in Ranks : p # r => que'[p] = que[p]
    BY <2>1, <2>3
  <2> QED BY <1>1, <2>4, <2>5, ChannelClose DEF closeVars, Probing, Agreed, Closed
<1> QED BY <1>2, <1>4, <1>5 DEF CtrlCase

LEMMA DaemonClose ==
    ASSUME Right, CloseInv, CloseTypes', NEW r \in Ranks,
           (\E S \in SUBSET Completed(r) : Test(r, S)) \/ Signal(r)
    PROVE  CloseInv'
<1>1. TypeOK /\ DaemonsRight
  BY DEF Right, TypeInv, OpInv
<1>2. ASSUME NEW S \in SUBSET Completed(r), Test(r, S) PROVE CloseInv'
  <2>1. /\ cp[r] \in Probing /\ UNCHANGED <<smp, most>>
        /\ que' = [que EXCEPT ![r] = que[r] \ S] /\ dset' = [dset EXCEPT ![r] = S]
        /\ dpc' = [dpc EXCEPT ![r] = "event"] /\ cp' = [cp EXCEPT ![r] = Tested(cp[r])]
    BY <1>2 DEF Test, DaemonTest, Go
  <2>2. S \subseteq que[r]
    BY DEF Completed
  <2>3. Agreed(r) /\ ~most[r] => \A op \in que'[r] \cup dset'[r] : op[3] = "rmt" /\ ~IsSend(op)
    <3>1. que'[r] \cup dset'[r] \subseteq que[r] \cup dset[r]
      BY <1>1, <2>1, <2>2 DEF TypeOK
    <3> QED BY <3>1 DEF CloseInv, LastPass
  <2>4. /\ cp[r] # "reduce" /\ cp'[r] # "reduce"
        /\ (Agreed(r)' <=> Agreed(r)) /\ (Closed(r)' <=> Closed(r))
    BY <2>1 DEF Probing, Agreed, Closed, Tested, CloseInv, CloseTypes
  <2>5. \A q \in Ranks : q # r => /\ cp'[q] = cp[q] /\ que'[q] = que[q] /\ dset'[q] = dset[q]
                                  /\ dpc'[q] = dpc[q]
    BY <1>1, <2>1 DEF TypeOK, CloseInv, CloseTypes
  <2> QED BY <2>1, <2>3, <2>4, <2>5, ChannelClose
<1>3. CASE Signal(r)
  <2>1. UNCHANGED closeVars /\ UNCHANGED que /\ dpc[r] # "probe"
        /\ (\E p : dpc' = [dpc EXCEPT ![r] = p])
        /\ (\E D : dset' = [dset EXCEPT ![r] = D] /\ D \subseteq dset[r])
    <3>1. CASE DaemonEvent(r)
      <4>1. dset' = [dset EXCEPT ![r] = dset[r]]
        BY <1>1, <3>1 DEF DaemonEvent, TypeOK
      <4> QED BY <1>3, <3>1, <4>1 DEF Signal, DaemonEvent, mpiVars
    <3>2. CASE DaemonRelease(r)
      <4>1. dset' = [dset EXCEPT ![r] = dset[r] \ {dop[r]}]
        BY <3>2 DEF DaemonRelease
      <4>2. \E p : dpc' = [dpc EXCEPT ![r] = p]
        BY <3>2 DEF DaemonRelease
      <4>3. UNCHANGED que /\ dpc[r] = "release"
        BY <3>2 DEF DaemonRelease
      <4> QED BY <1>3, <4>1, <4>2, <4>3 DEF Signal
    <3> QED BY <1>3, <3>1, <3>2 DEF Signal
  <2>2. cp[r] # "reduce"
    BY <2>1 DEF CloseInv, SampleRight
  <2>3. dset'[r] \subseteq dset[r]
    BY <1>1, <2>1 DEF TypeOK
  <2>4. Agreed(r) /\ ~most[r] => \A op \in que'[r] \cup dset'[r] : op[3] = "rmt" /\ ~IsSend(op)
    BY <2>1, <2>3 DEF CloseInv, LastPass
  <2>5. \A q \in Ranks : q # r => que'[q] = que[q] /\ dset'[q] = dset[q] /\ dpc'[q] = dpc[q]
    BY <1>1, <2>1 DEF TypeOK
  <2> QED BY <2>1, <2>2, <2>4, <2>5, ChannelClose DEF closeVars, Agreed, Closed
<1> QED BY <1>2, <1>3

LEMMA AppClose ==
    ASSUME TypeOK, CloseInv, CloseTypes', NEW i \in Plans, App(i) PROVE CloseInv'
<1> DEFINE r == Owner[i]
<1>1. /\ r \in Ranks /\ cp[r] = "run" /\ UNCHANGED <<cp, smp, most>>
      /\ UNCHANGED <<dset, dpc>>
  BY PlanFacts DEF App, PlanCreate, RdmaStart, PlanStart, PlanDestroy, dmnVars
<1>2. \E S : que' = [que EXCEPT ![r] = S]
  <2>1. UNCHANGED que \/ que' = [que EXCEPT ![r] = que[r] \cup Loc(i)]
    BY DEF App, PlanCreate, RdmaStart, PlanStart, PlanDestroy, Post
  <2>2. UNCHANGED que => que' = [que EXCEPT ![r] = que[r]]
    BY DEF TypeOK
  <2> QED BY <2>1, <2>2
<1> HIDE DEF r
<1>3. \A q \in Ranks : q # r => que'[q] = que[q]
  BY <1>2 DEF TypeOK
<1> QED BY <1>1, <1>3, ChannelClose DEF Agreed, Closed

LEMMA CloseStep ==
    ASSUME DaemonsRight, CloseInv, CloseTypes', NEW r \in Ranks,
           Finalize(r) \/ Main(r) \/ CtrlSent(r)
    PROVE  CloseInv'
<1>1. UNCHANGED <<que, dset, dpc>> /\ UNCHANGED most
  BY DEF Finalize, Main, Leave, Stopped, TestNone, PassEnd, CtrlSent, vars, mpiVars, dmnVars
<1>2. cp \in [Ranks -> {"run", "barrier", "stop", "stopping", "reduce", "probe", "tested", "closed"}]
      /\ smp \in [Ranks -> BOOLEAN]
  BY DEF CloseInv, CloseTypes
<1>3. CASE Finalize(r)
  <2>1. cp[r] = "run" /\ cp' = [cp EXCEPT ![r] = "barrier"] /\ UNCHANGED smp
    BY <1>3 DEF Finalize, Go
  <2>2. cp'[r] = "barrier" /\ \A q \in Ranks : q # r => cp'[q] = cp[q]
    BY <1>2, <2>1
  <2> QED BY <1>1, <2>1, <2>2, CloseSame DEF Agreed
<1>4. CASE Leave(r)
  <2>1. /\ cp[r] = "barrier" /\ UNCHANGED smp
        /\ cp' = [cp EXCEPT ![r] = IF dpc[r] = "probe" THEN "stop" ELSE "stopping"]
    BY <1>4 DEF Leave, Go
  <2>2. cp'[r] \in {"stop", "stopping"} /\ \A q \in Ranks : q # r => cp'[q] = cp[q]
    BY <1>2, <2>1
  <2> QED BY <1>1, <2>1, <2>2, CloseSame DEF Agreed
<1>5. CASE Stopped(r)
  <2>1. /\ cp[r] \in {"stop", "stopping"} /\ dpc[r] = "probe"
        /\ cp' = [cp EXCEPT ![r] = "reduce"] /\ smp' = [smp EXCEPT ![r] = Pending(r)]
    BY <1>5 DEF Stopped, Go
  <2>2. /\ cp'[r] = "reduce" /\ smp'[r] = Pending(r)
        /\ \A q \in Ranks : q # r => cp'[q] = cp[q] /\ smp'[q] = smp[q]
    BY <1>2, <2>1
  <2>3. smp'[r] \/ que[r] = {}
    BY <2>2 DEF Pending
  <2> QED BY <1>1, <2>1, <2>2, <2>3, CloseSame DEF Agreed
<1>6. CASE TestNone(r)
  <2>1. cp[r] = "probe" /\ cp' = [cp EXCEPT ![r] = "tested"] /\ UNCHANGED smp
    BY <1>6 DEF TestNone, Go
  <2>2. cp'[r] = "tested" /\ \A q \in Ranks : q # r => cp'[q] = cp[q]
    BY <1>2, <2>1
  <2> QED BY <1>1, <2>1, <2>2, CloseSame DEF Agreed
<1>7. CASE PassEnd(r)
  <2>1. /\ cp[r] = "tested" /\ dpc[r] = "probe"
        /\ cp' = [cp EXCEPT ![r] = IF most[r] THEN "reduce" ELSE "closed"]
        /\ smp' = [smp EXCEPT ![r] = Pending(r)]
    BY <1>7 DEF PassEnd, Go
  <2>2. /\ cp'[r] = (IF most[r] THEN "reduce" ELSE "closed") /\ smp'[r] = Pending(r)
        /\ \A q \in Ranks : q # r => cp'[q] = cp[q] /\ smp'[q] = smp[q]
    BY <1>2, <2>1
  <2>3. smp'[r] \/ que[r] = {}
    BY <2>2 DEF Pending
  <2> QED BY <1>1, <2>1, <2>2, <2>3, CloseSame DEF Agreed
<1>8. CASE CtrlSent(r)
  <2>1. UNCHANGED <<cp, smp>>
    BY <1>8 DEF CtrlSent
  <2>2. Agreed(r)' <=> Agreed(r)
    BY <2>1 DEF Agreed
  <2>3. cp[r] = "closed" => ~most[r]
    BY DEF CloseInv, ClosedLast, Closed
  <2>4. Agreed(r) => cp[r] # "reduce"
    BY DEF Agreed
  <2> QED BY <1>1, <2>1, <2>2, <2>3, <2>4, CloseSame
<1> QED BY <1>3, <1>4, <1>5, <1>6, <1>7, <1>8 DEF Main

\* The ranks learn whether any of them had a request.
LEMMA AllReduceClose ==
    ASSUME DaemonsRight, CloseInv, CloseTypes', AllReduce PROVE CloseInv'
<1>1. /\ \A r \in Ranks : cp[r] = "reduce" /\ cp'[r] = "probe"
      /\ \A r \in Ranks : most'[r] = Reduced(r)
      /\ UNCHANGED <<que, dset, dpc, smp>>
  BY DEF AllReduce, vars, mpiVars, dmnVars
<1>2. \A r \in Ranks : most'[r] <=> \E q \in Ranks : smp[q]
  BY <1>1 DEF Reduced
<1>3. SampleRight' /\ PassesAgree' /\ ClosedLast'
  BY <1>1, <1>2 DEF SampleRight, PassesAgree, ClosedLast, Agreed, Closed
<1>4. LastPass'
  <2> SUFFICES ASSUME NEW r \in Ranks, ~most'[r], NEW q \in Ranks
               PROVE  Agreed(q)' /\ que'[q] \cup dset'[q] = {}
    BY DEF LastPass
  <2>1. ~smp[q]
    BY <1>2
  <2>2. que[q] = {} /\ dset[q] = {}
    BY <1>1, <2>1 DEF CloseInv, SampleRight, DaemonsRight
  <2> QED BY <1>1, <2>2 DEF Agreed
<1> QED BY <1>3, <1>4 DEF CloseInv

LEMMA CloseTypesStep == CloseTypes /\ [CNext]_allVars => CloseTypes'
<1> SUFFICES ASSUME CloseTypes, CNext PROVE CloseTypes'
  <2>1. CloseTypes /\ UNCHANGED allVars => CloseTypes'
    BY DEF CloseTypes, allVars, closeVars
  <2> QED BY <2>1
<1>1. CASE UNCHANGED <<cp, smp, most>>
  BY <1>1 DEF CloseTypes
<1>2. ASSUME NEW r \in Ranks, Finalize(r) \/ Leave(r) \/ TestNone(r) PROVE CloseTypes'
  BY <1>2 DEF CloseTypes, Finalize, Leave, TestNone, Go
<1>3. ASSUME NEW r \in Ranks, Stopped(r) \/ PassEnd(r) PROVE CloseTypes'
  <2>1. Pending(r) \in BOOLEAN
    BY DEF Pending, CloseTypes
  <2>2. UNCHANGED most /\ smp' = [smp EXCEPT ![r] = Pending(r)]
    BY <1>3 DEF Stopped, PassEnd
  <2>3. cp' = [cp EXCEPT ![r] = "reduce"] \/ cp' = [cp EXCEPT ![r] = "closed"]
    BY <1>3 DEF Stopped, PassEnd, Go
  <2> HIDE DEF Pending
  <2> QED BY <2>1, <2>2, <2>3 DEF CloseTypes
<1>4. ASSUME NEW r \in Ranks, NEW S, Test(r, S) PROVE CloseTypes'
  BY <1>4 DEF CloseTypes, Test, Go, Tested
<1>5. CASE AllReduce
  BY <1>5 DEF CloseTypes, AllReduce, Reduced
<1>6. ASSUME NEW r \in Ranks, NEW q \in Ranks, Ctrl(r, q) \/ Signal(r) \/ CtrlSent(r) PROVE CloseTypes'
  BY <1>1, <1>6 DEF Ctrl, Signal, CtrlSent, closeVars
<1>7. ASSUME NEW i \in Plans, App(i) PROVE CloseTypes'
  BY <1>1, <1>7 DEF App
<1> QED BY <1>2, <1>3, <1>4, <1>5, <1>6, <1>7 DEF CNext, Main

LEMMA CloseInvStep ==
    ASSUME Right, ReceiveWaits, CloseInv, [CNext]_allVars PROVE CloseInv'
<1>1. TypeOK /\ DaemonsRight /\ CloseTypes'
  BY CloseTypesStep DEF Right, TypeInv, OpInv, CloseInv
<1>2. ASSUME NEW i \in Plans, App(i) PROVE CloseInv'
  BY <1>1, <1>2, AppClose
<1>3. ASSUME NEW r \in Ranks, Finalize(r) \/ Main(r) \/ CtrlSent(r) PROVE CloseInv'
  BY <1>1, <1>3, CloseStep
<1>4. ASSUME NEW r \in Ranks, NEW q \in Ranks, Ctrl(r, q) PROVE CloseInv'
  BY <1>1, <1>4, CtrlClose
<1>5. ASSUME NEW r \in Ranks, (\E S \in SUBSET Completed(r) : Test(r, S)) \/ Signal(r) PROVE CloseInv'
  BY <1>1, <1>5, DaemonClose
<1>6. CASE AllReduce
  BY <1>1, <1>6, AllReduceClose
<1>7. CASE UNCHANGED allVars
  <2>1. UNCHANGED <<cp, smp, most, que, dset, dpc>>
    BY <1>7 DEF allVars, vars, closeVars, mpiVars, dmnVars
  <2> QED BY <1>1, <2>1 DEF CloseInv, SampleRight, PassesAgree, LastPass, ClosedLast, Agreed, Closed
<1> QED BY <1>2, <1>3, <1>4, <1>5, <1>6, <1>7 DEF CNext

\* The channel's own invariants hold while it is closed.
LEMMA ChannelStep == ASSUME [CNext]_allVars PROVE [Next]_vars
BY DEF CNext, App, Finalize, Main, Leave, Stopped, TestNone, PassEnd, Ctrl, Test, Signal,
       CtrlSent, AllReduce, Next, Daemon, allVars

\* A rank that frees its communicators has no send in its array, leaves no
\* other rank with a receive that it owes a send, and has finished what it
\* started but for the receiving halves of its puts: uri_mpi_channel_close
\* needs no pass after the one in which every array was found empty.
THEOREM ChannelClosesCleanly == ~EarlyDestroy /\ NoSelf => (CSpec => []CleanClose)
<1> SUFFICES ASSUME ~EarlyDestroy /\ NoSelf PROVE CSpec => []CleanClose
  OBVIOUS
<1> DEFINE Inv == Right /\ ReceiveWaits /\ CloseInv
<1>1. CInit => Inv
  <2> SUFFICES ASSUME CInit PROVE Inv
    OBVIOUS
  <2>1. Init /\ Right /\ ReceiveWaits
    BY InitType, InitCtrl, InitOp, InitMatch, InitMaps DEF CInit, Right
  <2>2. CloseInv
    BY DEF CInit, CloseInv, CloseTypes, SampleRight, PassesAgree, LastPass, ClosedLast, Agreed, Closed
  <2> QED BY <2>1, <2>2
<1>2. Inv /\ [CNext]_allVars => Inv'
  <2> SUFFICES ASSUME Inv, [CNext]_allVars PROVE Inv'
    OBVIOUS
  <2>1. [Next]_vars
    BY ChannelStep
  <2>2. Right' /\ ReceiveWaits'
    BY <2>1, StepType, StepCtrl, StepOp, StepMatch, StepReceive DEF Right
  <2> QED BY <2>2, CloseInvStep
<1>3. Inv => CleanClose
  <2> SUFFICES ASSUME Right, ReceiveWaits, CloseInv PROVE CleanClose
    OBVIOUS
  <2>1. DaemonsRight /\ \A op \in Ops : OpRight(op)
    BY DEF Right, OpInv
  <2>2. ASSUME NEW r \in Ranks, Closed(r), NEW q \in Ranks, NEW op \in que[q] \cup dset[q]
        PROVE  op[3] = "rmt" /\ ~IsSend(op)
    BY <2>2 DEF CloseInv, ClosedLast, LastPass, Closed, Agreed
  <2>3. AllSent
    BY <2>2 DEF AllSent
  <2>4. NoOrphan
    <3> SUFFICES ASSUME NEW op \in Ops, Closed(Peer(op)), op \in que[At(op)], ~IsSend(op)
                 PROVE  got[op] # None
      BY DEF NoOrphan
    <3>1. op[3] = "rmt" /\ ost[op] = "active" /\ Partner(op) # None /\ Partner(op)[3] # "rmt"
      BY <2>1, <2>2, OpFacts, PartnerFacts DEF DaemonsRight
    <3>2. ~Coming(op) /\ ~Coming(Partner(op)) /\ Owed(op)
      BY <2>1, <3>1, OwedIs DEF OpRight, OwedOnce, Coming
    <3>3. starts[op[1]] > 0
      <4>1. events[op] \in Nat /\ starts[op[1]] \in Nat
        BY OpFacts DEF Right, TypeInv, TypeOK
      <4>2. events[op] = starts[op[1]] - 1
        BY <2>1, <3>2 DEF OpRight, EventRight
      <4> QED BY <4>1, <4>2
    <3>4. ~HalfStarted(op)
      BY <3>2 DEF HalfStarted
    <3>5. got[op] = Partner(op)
      BY <3>3, <3>4 DEF Right, MatchInv, MatchRight
    <3> QED BY <3>1, <3>5
  <2>5. OwnDone
    <3> SUFFICES ASSUME NEW op \in Ops, Closed(Owner[op[1]]), op[3] = "loc" \/ IsGet(op), Owed(op)
                 PROVE  FALSE
      BY <2>1 DEF OwnDone, OpRight, EventRight
    <3>1. op[3] = "rmt" => IsSend(op)
      BY DEF IsSend, IsGet
    <3>2. At(op) \in Ranks /\ Owner[op[1]] \in Ranks
      BY OpFacts, PlanFacts
    <3>3. op \notin que[At(op)] \cup dset[At(op)]
      <4>1. ~(op[3] = "rmt" /\ ~IsSend(op))
        BY <3>1
      <4> QED BY <2>2, <3>2, <4>1
    <3>4. ost[op] # "active" /\ ~Due(op)
      BY <2>1, <3>2, <3>3, OwedIs DEF DaemonsRight
    <3>5. Coming(op) /\ op[3] = "rmt"
      BY <3>4, OwedIs DEF Coming
    <3>6. /\ Partner(op) \in Ops /\ Partner(op)[3] = "loc" /\ ~IsSend(Partner(op))
          /\ Partner(Partner(op)) = op /\ At(Partner(op)) \in Ranks
      BY <3>1, <3>5, PartnerFacts, OpFacts
    <3>7. Partner(op) \in que[At(Partner(op))]
      BY <2>1, <3>5, <3>6 DEF ReceiveWaits, DaemonsRight
    <3>8. Partner(op)[3] = "rmt"
      BY <2>2, <3>2, <3>6, <3>7
    <3> QED BY <3>6, <3>8
  <2> QED BY <2>3, <2>4, <2>5 DEF CleanClose
<1> QED BY <1>1, <1>2, <1>3, PTL DEF CSpec
================================================================================
