---------------------------- MODULE VerbsOpen_proofs ----------------------------
(***************************************************************************)
(* For any number of ranks, whatever numbers the devices hand out and on   *)
(* fabrics with and without lids: a rank whose opening has returned finds  *)
(* every peer ready, and completions are counted for the right rank        *)
(* (VerbsOpen). For any number of openings, threads and signals: the flag  *)
(* pool hands out each of its entries once, and the index in a message     *)
(* names the signal its sender meant (VerbsFlags).                         *)
(***************************************************************************)
EXTENDS VerbsFlags, FiniteSetTheorems, TLAPS

\* 1 when the gids are exchanged, which moves the later statements
Gid == IF \A r \in Ranks : lid[r] = 0 THEN 1 ELSE 0

-----------------------------------------------------------------------------
(* The inductive invariant *)

Types ==
    /\ lid \in [Ranks -> Nat]
    /\ \A r, q \in Ranks : lid[r] = 0 <=> lid[q] = 0
    /\ \A q \in Ranks : lid[q] = 0 \/ lid[q] = q + 1
    /\ done \in [Ranks -> 0 .. 8 + Gid]
    /\ inside \in [Ranks -> BOOLEAN]
    /\ state \in [Ranks -> [Ranks -> {"reset", "init", "rts"}]]
    /\ srq \in [Ranks -> BOOLEAN]
    /\ DOMAIN qp = Ranks /\ DOMAIN qp2rank = Ranks
    /\ DOMAIN numList = Ranks /\ DOMAIN lidList = Ranks /\ DOMAIN gidList = Ranks
    /\ \A r \in Ranks : inside[r] => done[r] \notin {0, 4 + Gid, 8 + Gid}
    /\ DOMAIN dest = Ranks /\ \A r \in Ranks : DOMAIN dest[r] = Ranks

\* No rank is further than the collective call that another is to enter.
Together ==
    \A r, q \in Ranks : \A n \in {2, 3, 3 + Gid, 4 + Gid, 6 + Gid, 7 + Gid, 8 + Gid} :
        done[r] >= n => done[q] >= n - 1

Created ==
    \A r \in Ranks : done[r] >= 1 =>
        /\ qp[r] \in [Ranks -> Numbers]
        /\ \A p, q \in Ranks : qp[r][p] = qp[r][q] => p = q
        /\ qp2rank[r] = RankOf(qp[r])
        /\ srq[r]

Exchanged ==
    \A r \in Ranks :
        /\ done[r] >= 2 => numList[r] = NumbersFor(r)
        /\ done[r] >= 3 => lidList[r] = lid
        /\ Gid = 1 /\ done[r] >= 4 => gidList[r] = [q \in Ranks |-> q]

Connected ==
    \A r, q \in Ranks :
        /\ state[r][q] = "rts" => done[r] >= 4 + Gid /\ dest[r][q] = <<q, qp[q][r]>>
        /\ state[r][q] # "rts" => done[r] < 5 + Gid /\ dest[r][q] = <<>>

IInv == Types /\ Together /\ Created /\ Exchanged /\ Connected

-----------------------------------------------------------------------------
(* The statement a rank is at *)

LEMMA GidType == Gid \in {0, 1} BY DEF Gid

LEMMA AtIs ==
    ASSUME Types, NEW r \in Ranks
    PROVE  /\ AsksGid(r) <=> Gid = 1
           /\ Opened(r) <=> done[r] = 8 + Gid
           /\ At(r) = "create" <=> done[r] = 0
           /\ At(r) = "numbers" <=> done[r] = 1
           /\ At(r) = "lids" <=> done[r] = 2
           /\ At(r) = "gids" <=> Gid = 1 /\ done[r] = 3
           /\ At(r) = "connect" <=> done[r] = 4 + Gid
           /\ Collective(At(r)) <=> done[r] \notin {0, 4 + Gid, 8 + Gid}
<1>1. AsksGid(r) <=> Gid = 1
  BY DEF AsksGid, Gid, Types
<1>2. done[r] \in 0 .. 8 + Gid BY DEF Types
<1>3. CASE Gid = 1
  <2>1. Open(r) = <<"create", "numbers", "lids", "gids", "mtu", "connect", "pool", "barrier", "barrier">>
    BY <1>1, <1>3 DEF Open
  <2>2. Len(Open(r)) = 9 BY <2>1
  <2>3. done[r] \in 0 .. 9 BY <1>2, <1>3
  <2> QED BY <1>1, <1>3, <2>1, <2>2, <2>3 DEF Opened, At, Collective
<1>4. CASE Gid = 0
  <2>1. Open(r) = <<"create", "numbers", "lids", "mtu", "connect", "pool", "barrier", "barrier">>
    BY <1>1, <1>4 DEF Open
  <2>2. Len(Open(r)) = 8 BY <2>1
  <2>3. done[r] \in 0 .. 8 BY <1>2, <1>4
  <2> QED BY <1>1, <1>4, <2>1, <2>2, <2>3 DEF Opened, At, Collective
<1> QED BY <1>3, <1>4, GidType

-----------------------------------------------------------------------------
(* The invariant is inductive *)

LEMMA InitInv == Init => IInv
<1> SUFFICES ASSUME Init PROVE IInv
  OBVIOUS
<1> USE OpenAssumption, GidType DEF Init, Ranks
<1>1. Types BY DEF Types, Lids
<1>2. Together BY DEF Together
<1>3. Created BY DEF Created
<1>4. Exchanged BY DEF Exchanged
<1>5. Connected BY DEF Connected
<1> QED BY <1>1, <1>2, <1>3, <1>4, <1>5 DEF IInv

\* An action that keeps the ports keeps the numbering of the statements.
LEMMA SameGid == lid' = lid => Gid' = Gid BY DEF Gid

LEMMA CreateInv ==
    ASSUME IInv, NEW r \in Ranks, Create(r) PROVE IInv'
<1>1. At(r) = "create" /\ done[r] = 0 BY AtIs DEF Create, IInv
<1>2. PICK nums \in [Ranks -> Numbers] :
          IsInjective(nums) /\ qp' = [qp EXCEPT ![r] = nums]
            /\ qp2rank' = [qp2rank EXCEPT ![r] = RankOf(nums)]
  BY DEF Create
<1>3. Gid' = Gid BY SameGid DEF Create
<1>4. lid' = lid /\ numList' = numList /\ lidList' = lidList /\ gidList' = gidList
        /\ dest' = dest /\ inside' = inside
        /\ done' = [done EXCEPT ![r] = @ + 1] /\ srq' = [srq EXCEPT ![r] = TRUE]
        /\ state' = [state EXCEPT ![r] = [q \in Ranks |-> "init"]]
  BY DEF Create, Complete, lists
<1>5. Types'
  BY <1>1, <1>2, <1>3, <1>4, GidType DEF Types, IInv
<1>6. Together'
  BY <1>1, <1>3, <1>4, GidType DEF Together, IInv, Types
<1>7. Created'
  <2> SUFFICES ASSUME NEW s \in Ranks, done'[s] >= 1
               PROVE  /\ qp'[s] \in [Ranks -> Numbers]
                      /\ \A p, q \in Ranks : qp'[s][p] = qp'[s][q] => p = q
                      /\ qp2rank'[s] = RankOf(qp'[s])
                      /\ srq'[s]
    BY DEF Created, RankOf
  <2>1. CASE s = r
    BY <2>1, <1>2, <1>4 DEF IInv, Types, IsInjective
  <2>2. CASE s # r
    BY <2>2, <1>2, <1>4 DEF IInv, Types, Created
  <2> QED BY <2>1, <2>2
<1>8. Exchanged'
  <2> SUFFICES ASSUME NEW s \in Ranks
               PROVE  /\ done'[s] >= 2 => numList'[s] = [q \in Ranks |-> qp'[q][s]]
                      /\ done'[s] >= 3 => lidList'[s] = lid'
                      /\ Gid' = 1 /\ done'[s] >= 4 => gidList'[s] = [q \in Ranks |-> q]
    BY DEF Exchanged, NumbersFor
  <2>1. done'[s] >= 2 => s # r /\ done[s] >= 2
    BY <1>1, <1>4 DEF IInv, Types
  <2>2. done[s] >= 2 => done[r] >= 1
    BY DEF IInv, Together
  <2>3. done'[s] = done[s] \/ s = r BY <1>4 DEF IInv, Types
  <2>4. done'[s] < 2
    BY <2>1, <2>2, <1>1, <1>4 DEF IInv, Types
  <2> QED BY <2>4, <1>4 DEF IInv, Types
<1>9. Connected'
  <2>1. \A s, q \in Ranks : state[s][q] # "rts" BY <1>1, GidType DEF IInv, Connected, Together, Types
  <2> QED BY <2>1, <1>1, <1>3, <1>4, GidType DEF Connected, IInv, Types
<1> QED BY <1>5, <1>6, <1>7, <1>8, <1>9 DEF IInv

LEMMA EnterInv ==
    ASSUME IInv, NEW r \in Ranks, Enter(r) PROVE IInv'
<1>1. Gid' = Gid BY SameGid DEF Enter
<1>2. done[r] \notin {0, 4 + Gid, 8 + Gid} BY AtIs DEF Enter, IInv
<1>3. /\ lid' = lid /\ qp' = qp /\ qp2rank' = qp2rank /\ numList' = numList /\ lidList' = lidList
      /\ gidList' = gidList /\ state' = state /\ dest' = dest /\ srq' = srq /\ done' = done
      /\ inside' = [inside EXCEPT ![r] = TRUE]
  BY DEF Enter, lists
<1>4. Types' BY <1>1, <1>2, <1>3, GidType DEF Types, IInv
<1>5. Together' BY <1>1, <1>3 DEF Together, IInv
<1>6. Created' BY <1>3 DEF Created, IInv, RankOf
<1>7. Exchanged' BY <1>1, <1>3 DEF Exchanged, IInv, NumbersFor
<1>8. Connected' BY <1>1, <1>3 DEF Connected, IInv
<1> QED BY <1>4, <1>5, <1>6, <1>7, <1>8 DEF IInv

LEMMA LeaveInv ==
    ASSUME IInv, NEW r \in Ranks, Leave(r) PROVE IInv'
<1>1. done[r] \notin {0, 4 + Gid, 8 + Gid} BY DEF Leave, IInv, Types
<1>2. Gid' = Gid BY SameGid DEF Leave
<1>3. /\ lid' = lid /\ qp' = qp /\ qp2rank' = qp2rank /\ state' = state /\ dest' = dest /\ srq' = srq
      /\ done' = [done EXCEPT ![r] = @ + 1] /\ inside' = [inside EXCEPT ![r] = FALSE]
  BY DEF Leave, Complete
<1>4. \A q \in Ranks : done[q] >= done[r]
  BY DEF Leave, IInv, Types
<1>5. /\ At(r) = "numbers" <=> done[r] = 1
      /\ At(r) = "lids" <=> done[r] = 2
      /\ At(r) = "gids" <=> Gid = 1 /\ done[r] = 3
  BY AtIs DEF IInv
<1>6. /\ numList' = IF done[r] = 1 THEN [numList EXCEPT ![r] = NumbersFor(r)] ELSE numList
      /\ lidList' = IF done[r] = 2 THEN [lidList EXCEPT ![r] = lid] ELSE lidList
      /\ gidList' = IF Gid = 1 /\ done[r] = 3
                    THEN [gidList EXCEPT ![r] = [q \in Ranks |-> q]] ELSE gidList
  BY <1>5 DEF Leave
<1>7. Types'
  <2>1. done' \in [Ranks -> 0 .. 8 + Gid] /\ inside' \in [Ranks -> BOOLEAN]
    <3>1. done \in [Ranks -> 0 .. 8 + Gid] /\ inside \in [Ranks -> BOOLEAN]
      BY DEF Types, IInv
    <3>2. done[r] + 1 \in 0 .. 8 + Gid
      BY <1>1, <3>1, GidType
    <3> QED BY <1>3, <3>1, <3>2
  <2>2. \A s \in Ranks : inside'[s] => done'[s] \notin {0, 4 + Gid, 8 + Gid}
    BY <1>3 DEF Types, IInv
  <2>3. DOMAIN numList' = Ranks /\ DOMAIN lidList' = Ranks /\ DOMAIN gidList' = Ranks
    BY <1>6 DEF Types, IInv
  <2> QED BY <2>1, <2>2, <2>3, <1>2, <1>3 DEF Types, IInv
<1>8. Together'
  BY <1>1, <1>2, <1>3, <1>4, GidType DEF Together, IInv, Types
<1>9. Created'
  BY <1>1, <1>3 DEF Created, IInv, Types, RankOf
<1>10. Exchanged'
  <2> SUFFICES ASSUME NEW s \in Ranks
               PROVE  /\ done'[s] >= 2 => numList'[s] = [q \in Ranks |-> qp'[q][s]]
                      /\ done'[s] >= 3 => lidList'[s] = lid'
                      /\ Gid' = 1 /\ done'[s] >= 4 => gidList'[s] = [q \in Ranks |-> q]
    BY DEF Exchanged, NumbersFor
  <2>1. CASE s = r
    <3>1. done[r] \in 1 .. 7 + Gid /\ done'[r] = done[r] + 1
      BY <1>1, <1>3, GidType DEF IInv, Types
    <3>2. done'[r] >= 2 => numList'[r] = NumbersFor(r)
      BY <3>1, <1>6 DEF IInv, Types, Exchanged
    <3>3. done'[r] >= 3 => lidList'[r] = lid
      BY <3>1, <1>6 DEF IInv, Types, Exchanged
    <3>4. Gid = 1 /\ done'[r] >= 4 => gidList'[r] = [q \in Ranks |-> q]
      BY <3>1, <1>6 DEF IInv, Types, Exchanged
    <3> QED BY <2>1, <3>2, <3>3, <3>4, <1>2, <1>3 DEF NumbersFor
  <2>2. CASE s # r
    <3>1. done'[s] = done[s] BY <2>2, <1>3 DEF IInv, Types
    <3>2. numList'[s] = numList[s] /\ lidList'[s] = lidList[s] /\ gidList'[s] = gidList[s]
      BY <2>2, <1>6 DEF IInv, Types
    <3> QED BY <3>1, <3>2, <1>2, <1>3 DEF IInv, Exchanged, NumbersFor
  <2> QED BY <2>1, <2>2
<1>11. Connected'
  BY <1>1, <1>2, <1>3, GidType DEF Connected, IInv, Types
<1> QED BY <1>7, <1>8, <1>9, <1>10, <1>11 DEF IInv

LEMMA ConnectInv ==
    ASSUME IInv, NEW r \in Ranks, Connect(r) PROVE IInv'
<1>1. done[r] = 4 + Gid BY AtIs DEF Connect, IInv
<1>2. Gid' = Gid BY SameGid DEF Connect
<1>3. PICK q \in Ranks :
          /\ state[r][q] = "init" /\ \A p \in 0 .. q - 1 : state[r][p] = "rts"
          /\ state' = [state EXCEPT ![r][q] = "rts"]
          /\ dest' = [dest EXCEPT ![r][q] = <<Address(r, q), numList[r][q]>>]
          /\ IF q = Size - 1 THEN Complete(r) ELSE UNCHANGED done
  BY DEF Connect
<1>4. /\ lid' = lid /\ qp' = qp /\ qp2rank' = qp2rank /\ numList' = numList /\ lidList' = lidList
      /\ gidList' = gidList /\ srq' = srq /\ inside' = inside
  BY DEF Connect, lists
<1>5. done' = IF q = Size - 1 THEN [done EXCEPT ![r] = 5 + Gid] ELSE done
  BY <1>1, <1>3, GidType DEF Complete, IInv, Types
<1>6. Types'
  BY <1>1, <1>2, <1>3, <1>4, <1>5, GidType DEF Types, IInv
<1>7. Together'
  BY <1>1, <1>2, <1>4, <1>5, GidType DEF Together, IInv, Types
<1>8. Created'
  BY <1>1, <1>4, <1>5, GidType DEF Created, IInv, Types, RankOf
<1>9. Exchanged'
  BY <1>1, <1>2, <1>4, <1>5, GidType DEF Exchanged, IInv, Types, NumbersFor
<1>10. Address(r, q) = q /\ numList[r][q] = qp[q][r]
  <2>1. lidList[r] = lid /\ numList[r] = NumbersFor(r) /\ (Gid = 1 => gidList[r] = [p \in Ranks |-> p])
    BY <1>1, GidType DEF IInv, Exchanged
  <2>2. lid[q] = 0 => Gid = 1 BY DEF Gid, IInv, Types
  <2>3. q \in Int BY OpenAssumption DEF Ranks
  <2> QED BY <2>1, <2>2, <2>3 DEF Address, NumbersFor, IInv, Types
<1>11. Connected'
  <2> SUFFICES ASSUME NEW s \in Ranks, NEW p \in Ranks
               PROVE  /\ state'[s][p] = "rts" => done'[s] >= 4 + Gid /\ dest'[s][p] = <<p, qp[p][s]>>
                      /\ state'[s][p] # "rts" => done'[s] < 5 + Gid /\ dest'[s][p] = <<>>
    BY <1>2, <1>4 DEF Connected
  <2>1. CASE s # r
    BY <2>1, <1>3, <1>5 DEF IInv, Types, Connected
  <2>2. CASE s = r /\ p = q
    BY <2>2, <1>1, <1>3, <1>5, <1>10, GidType DEF IInv, Types
  <2>3. CASE s = r /\ p # q
    <3>1. state'[r][p] = state[r][p] /\ dest'[r][p] = dest[r][p]
      BY <2>3, <1>3 DEF IInv, Types
    <3>2. q = Size - 1 => state[r][p] = "rts"
      BY <2>3, <1>3, OpenAssumption DEF Ranks
    <3> QED BY <2>3, <3>1, <3>2, <1>1, <1>5, GidType DEF IInv, Types, Connected
  <2> QED BY <2>1, <2>2, <2>3
<1> QED BY <1>6, <1>7, <1>8, <1>9, <1>11 DEF IInv

LEMMA StutterInv == IInv /\ UNCHANGED vars => IInv'
<1> SUFFICES ASSUME IInv, UNCHANGED vars PROVE IInv'
  OBVIOUS
<1>1. Gid' = Gid BY SameGid DEF vars
<1> QED BY <1>1 DEF vars, lists, IInv, Types, Together, Created, Exchanged, Connected, NumbersFor, RankOf

-----------------------------------------------------------------------------
(* Theorems *)

LEMMA Inductive == Spec => []IInv
<1>1. IInv /\ [Next]_vars => IInv'
  BY CreateInv, EnterInv, LeaveInv, ConnectInv, StutterInv DEF Next
<1> QED BY InitInv, <1>1, PTL DEF Spec

LEMMA ReadyWhenOpened == IInv => PeersReady
<1> SUFFICES ASSUME IInv, NEW r \in Ranks, Opened(r), NEW q \in Ranks
             PROVE  /\ dest[r][q] = <<q, qp[q][r]>> /\ dest[q][r] = <<r, qp[r][q]>>
                    /\ state[q][r] = "rts" /\ srq[q]
  BY DEF PeersReady
<1>1. done[r] = 8 + Gid BY AtIs DEF IInv
<1>2. done[q] >= 7 + Gid BY <1>1, GidType DEF IInv, Together
<1>3. state[r][q] = "rts" /\ state[q][r] = "rts"
  BY <1>1, <1>2, GidType DEF IInv, Connected, Types
<1> QED BY <1>2, <1>3, GidType DEF IInv, Connected, Created, Types

LEMMA PeerOfCompletion == IInv => CountedForPeer
<1> SUFFICES ASSUME IInv, NEW r \in Ranks, NEW q \in Ranks, dest[r][q] # <<>>
             PROVE  qp2rank[r][qp[r][q]] = dest[r][q][1]
  BY DEF CountedForPeer
<1>1. done[r] >= 4 + Gid /\ dest[r][q] = <<q, qp[q][r]>>
  BY DEF IInv, Connected
<1>2. qp[r] \in [Ranks -> Numbers] /\ qp2rank[r] = RankOf(qp[r])
        /\ \A p \in Ranks : qp[r][p] = qp[r][q] => p = q
  BY <1>1, GidType DEF IInv, Created, Types
<1>3. RankOf(qp[r])[qp[r][q]] = q
  BY <1>2 DEF RankOf
<1> QED BY <1>1, <1>2, <1>3

\* A rank whose opening has returned finds every peer connected to it and
\* ready to receive: the collective calls after the connecting hold it back.
THEOREM OpenedPeersReady == Spec => []PeersReady
BY Inductive, ReadyWhenOpened, PTL

\* qp2rank and the connections agree: what completes is counted for the rank
\* it was sent to.
THEOREM CompletionsCountedForPeer == Spec => []CountedForPeer
BY Inductive, PeerOfCompletion, PTL

-----------------------------------------------------------------------------
(* Signals of the flag pool (VerbsFlags) *)

\* The openings only go forward; a rank is one pool ahead of what it has told.
PoolsRight ==
    /\ opens \in [Ranks -> Nat] /\ pool \in [Ranks -> Nat]
    /\ DOMAIN base = Ranks
    /\ \A r \in Ranks : /\ pool[r] <= opens[r] /\ opens[r] <= pool[r] + 1 /\ opens[r] <= Opens
                        /\ base[r] = [q \in Ranks |-> pool[r]]

\* One thread at most of a rank is inside the lock, and none before unr_init
\* has opened all channels.
LockRight ==
    /\ pc \in [Threads -> {"idle", "take", "count"}]
    /\ lock \in [Ranks -> Threads \cup {None}]
    /\ \A th \in Threads : pc[th] # "idle" => InitDone(Home[th]) /\ lock[Home[th]] = th

\* The entries handed out are those below `used`, and the one that the holder
\* of the lock has taken and not counted.
UsedRight ==
    /\ used \in [Ranks -> 0 .. NumFlags]
    /\ \A r \in Ranks : /\ ~InitDone(r) => used[r] <= 1
                        /\ opens[r] > 0 => used[r] >= 1
    /\ \A th \in Threads : pc[th] = "count" => used[Home[th]] < NumFlags

\* A thread's i-th signal
SignalRight(th, i) ==
    /\ mine[th][i][1] = Home[th] /\ mine[th][i][2] = Opens
    /\ mine[th][i][3] >= 1 /\ InitDone(Home[th])
    /\ IF pc[th] = "count" /\ i = Len(mine[th])
       THEN mine[th][i][3] = used[Home[th]] ELSE mine[th][i][3] < used[Home[th]]

MineRight ==
    /\ DOMAIN mine = Threads
    /\ \A th \in Threads :
         /\ mine[th] \in Seq(Ranks \X Nat \X Nat)
         /\ \A i \in 1 .. Len(mine[th]) : SignalRight(th, i)
         /\ pc[th] = "count" => Len(mine[th]) > 0

\* The signals in use are the entries 1 .. used - 1 of each rank's last pool.
CounterRight ==
    DOMAIN counter = {f \in Ranks \X {Opens} \X (1 .. NumFlags) : f[3] < used[f[1]]}

NetRight == \A e \in net : e.flag \in DOMAIN counter /\ e.flag[1] = e.at /\ e.idx = e.flag[3]

ErrRight == err = "full" => \E r \in Ranks : InitDone(r) /\ used[r] = NumFlags

FlagInv ==
    /\ PoolsRight /\ LockRight /\ UsedRight /\ MineRight /\ SignalsApart /\ CounterRight
    /\ NetRight /\ ErrRight

LEMMA FlagInit == FInit => IInv /\ FlagInv
<1> SUFFICES ASSUME FInit PROVE IInv /\ FlagInv
  OBVIOUS
<1>1. IInv BY InitInv DEF FInit
<1>2. /\ opens = [r \in Ranks |-> 0] /\ pool = [r \in Ranks |-> 0]
      /\ base = [r \in Ranks |-> [q \in Ranks |-> 0]]
      /\ used = [r \in Ranks |-> 0] /\ lock = [r \in Ranks |-> None]
      /\ pc = [th \in Threads |-> "idle"] /\ mine = [th \in Threads |-> <<>>]
      /\ counter = <<>> /\ net = {} /\ err = "no"
  BY DEF FInit
<1>3. \A r \in Ranks : ~InitDone(r)
  BY <1>2, FlagsAssumption DEF InitDone
<1>4. PoolsRight BY <1>2, FlagsAssumption DEF PoolsRight
<1>5. LockRight BY <1>2 DEF LockRight
<1>6. UsedRight BY <1>2, <1>3, FlagsAssumption DEF UsedRight
<1>7. MineRight BY <1>2 DEF MineRight
<1>8. SignalsApart BY <1>2 DEF SignalsApart
<1>9. CounterRight
  <2>1. \A f \in Ranks \X {Opens} \X (1 .. NumFlags) : ~(f[3] < used[f[1]])
    BY <1>2, FlagsAssumption
  <2>2. DOMAIN counter = {} BY <1>2
  <2> QED BY <2>1, <2>2 DEF CounterRight
<1>10. NetRight /\ ErrRight BY <1>2 DEF NetRight, ErrRight
<1> QED BY <1>1, <1>4, <1>5, <1>6, <1>7, <1>8, <1>9, <1>10 DEF FlagInv

\* What VerbsFlags adds to the openings takes no step that VerbsOpen does not.
LEMMA FlagsOpen ==
    ASSUME FNext PROVE [Next]_vars
<1>1. ASSUME NEW r \in Ranks, Opening(r) PROVE [Next]_vars
  BY <1>1 DEF Opening, Next
<1>2. ASSUME NEW r \in Ranks, InitPool(r) PROVE [Next]_vars
  BY <1>2 DEF InitPool, Next
<1>3. ASSUME NEW r \in Ranks, Gather(r) PROVE [Next]_vars
  BY <1>3 DEF Gather, Next
<1>4. ASSUME NEW th \in Threads, AllocLock(th) \/ AllocTake(th) \/ AllocCount(th)
      PROVE  UNCHANGED vars
  BY <1>4 DEF AllocLock, AllocTake, AllocCount
<1>5. ASSUME NEW r, NEW q, NEW lf, NEW rf, NEW sz, Send(r, q, lf, rf, sz) PROVE UNCHANGED vars
  BY <1>5 DEF Send
<1>6. ASSUME NEW e, Progress(e) PROVE UNCHANGED vars
  BY <1>6 DEF Progress
<1> QED BY <1>1, <1>2, <1>3, <1>4, <1>5, <1>6 DEF FNext, OpenStep

LEMMA OpenInv ==
    ASSUME IInv, [Next]_vars PROVE IInv'
BY CreateInv, EnterInv, LeaveInv, ConnectInv, StutterInv DEF Next

\* A rank that has opened takes no further step of the opening.
LEMMA OpenedStays ==
    ASSUME IInv, [Next]_vars, NEW r \in Ranks, Opened(r) PROVE Opened(r)'
<1>1. done[r] = 8 + Gid BY AtIs DEF IInv
<1>4. done \in [Ranks -> Int] BY GidType DEF IInv, Types
<1>5. done'[r] = done[r]
  <2>1. ASSUME NEW s \in Ranks, Create(s) PROVE done'[r] = done[r]
    <3>1. done[s] = 0 BY <2>1, AtIs DEF Create, IInv
    <3> QED BY <2>1, <3>1, <1>1, <1>4, GidType DEF Create, Complete
  <2>2. ASSUME NEW s \in Ranks, Enter(s) PROVE done'[r] = done[r]
    BY <2>2 DEF Enter
  <2>3. ASSUME NEW s \in Ranks, Leave(s) PROVE done'[r] = done[r]
    <3>1. done[s] # 8 + Gid BY <2>3 DEF Leave, IInv, Types
    <3> QED BY <2>3, <3>1, <1>1, <1>4 DEF Leave, Complete
  <2>4. ASSUME NEW s \in Ranks, Connect(s) PROVE done'[r] = done[r]
    <3>1. done[s] = 4 + Gid BY <2>4, AtIs DEF Connect, IInv
    <3>2. s # r BY <3>1, <1>1, GidType
    <3> QED BY <2>4, <3>2, <1>4 DEF Connect, Complete
  <2> QED BY <2>1, <2>2, <2>3, <2>4 DEF Next, vars
<1>6. lid' = lid BY DEF Next, Create, Enter, Leave, Connect, vars
<1> QED BY <1>5, <1>6 DEF Opened, Open, AsksGid

-----------------------------------------------------------------------------
(* The steps of the flag pool preserve its invariant *)

\* What a step that leaves the pools alone keeps
LEMMA DoneStays ==
    ASSUME IInv, [Next]_vars, pool' = pool, NEW r \in Ranks, InitDone(r) PROVE InitDone(r)'
BY OpenedStays DEF InitDone

LEMMA OpeningFlags ==
    ASSUME IInv, FlagInv, [Next]_vars, UNCHANGED flagVars PROVE FlagInv'
<1>1. /\ opens' = opens /\ pool' = pool /\ base' = base /\ used' = used /\ lock' = lock
      /\ pc' = pc /\ mine' = mine /\ counter' = counter /\ net' = net /\ err' = err
  BY DEF flagVars, initVars, allocVars, useVars
<1>2. \A r \in Ranks : InitDone(r) => InitDone(r)' BY <1>1, DoneStays
<1>3. Home \in [Threads -> Ranks] BY FlagsAssumption
<1>4. PoolsRight' BY <1>1 DEF FlagInv, PoolsRight
<1>5. LockRight' BY <1>1, <1>2, <1>3 DEF FlagInv, LockRight
<1>6. UsedRight' BY <1>1, <1>2 DEF FlagInv, UsedRight
<1>7. MineRight' BY <1>1, <1>2, <1>3 DEF FlagInv, MineRight, SignalRight
<1>8. SignalsApart' BY <1>1 DEF FlagInv, SignalsApart
<1>9. CounterRight' /\ NetRight' BY <1>1 DEF FlagInv, CounterRight, NetRight
<1>10. ErrRight' BY <1>1, <1>2 DEF FlagInv, ErrRight
<1> QED BY <1>4, <1>5, <1>6, <1>7, <1>8, <1>9, <1>10 DEF FlagInv

\* No signal of a rank is in use before its unr_init has opened all channels.
LEMMA NothingUsed ==
    ASSUME FlagInv, NEW r \in Ranks, ~InitDone(r)
    PROVE  /\ \A th \in Threads : Home[th] = r => pc[th] = "idle" /\ mine[th] = <<>>
           /\ \A f \in DOMAIN counter : f[1] # r
<1>1. ASSUME NEW th \in Threads, Home[th] = r PROVE pc[th] = "idle" /\ mine[th] = <<>>
  <2>1. pc[th] = "idle" BY <1>1 DEF FlagInv, LockRight
  <2>2. mine[th] \in Seq(Ranks \X Nat \X Nat) /\ ~(1 \in 1 .. Len(mine[th]))
    BY <1>1 DEF FlagInv, MineRight, SignalRight
  <2>3. Len(mine[th]) = 0 BY <2>2
  <2> QED BY <2>1, <2>2, <2>3
<1>2. ASSUME NEW f \in DOMAIN counter, f[1] = r PROVE FALSE
  <2>1. f \in Ranks \X {Opens} \X (1 .. NumFlags) /\ f[3] < used[r]
    BY <1>2 DEF FlagInv, CounterRight
  <2>2. used[r] <= 1 BY DEF FlagInv, UsedRight
  <2>3. used[r] \in Int /\ f[3] \in 1 .. NumFlags
    BY <2>1, FlagsAssumption DEF FlagInv, UsedRight
  <2> QED BY <2>1, <2>2, <2>3
<1> QED BY <1>1, <1>2

LEMMA InitPoolFlags ==
    ASSUME IInv, FlagInv, [Next]_vars, NEW r \in Ranks, InitPool(r) PROVE FlagInv'
<1>1. /\ opens' = [opens EXCEPT ![r] = @ + 1] /\ used' = [used EXCEPT ![r] = 1]
      /\ pool' = pool /\ base' = base /\ lock' = lock
      /\ pc' = pc /\ mine' = mine /\ counter' = counter /\ net' = net /\ err' = err
      /\ opens[r] = pool[r] /\ opens[r] < Opens /\ err = "no"
  BY DEF InitPool, FirstFree
<1>2. \A q \in Ranks : InitDone(q) => InitDone(q)' BY <1>1, DoneStays
<1>3. Home \in [Threads -> Ranks] /\ Opens \in Nat /\ NumFlags \in Nat \ {0} BY FlagsAssumption
<1>4. opens \in [Ranks -> Nat] /\ pool \in [Ranks -> Nat] /\ used \in [Ranks -> 0 .. NumFlags]
  BY DEF FlagInv, PoolsRight, UsedRight
<1>5. ~InitDone(r) /\ ~InitDone(r)' BY <1>1, <1>3, <1>4 DEF InitDone
<1>6. \A th \in Threads : Home[th] = r => pc[th] = "idle" /\ mine[th] = <<>>
  BY <1>5, NothingUsed
<1>7. \A f \in DOMAIN counter : f[1] # r BY <1>5, NothingUsed
<1>8. PoolsRight' BY <1>1, <1>3, <1>4 DEF FlagInv, PoolsRight
<1>9. LockRight' BY <1>1, <1>2, <1>3 DEF FlagInv, LockRight
<1>10. UsedRight'
  <2>1. used' \in [Ranks -> 0 .. NumFlags] BY <1>1, <1>3, <1>4
  <2>2. ASSUME NEW q \in Ranks
        PROVE  (~InitDone(q)' => used'[q] <= 1) /\ (opens'[q] > 0 => used'[q] >= 1)
    BY <1>1, <1>2, <1>3, <1>4 DEF FlagInv, UsedRight
  <2>3. ASSUME NEW th \in Threads, pc'[th] = "count" PROVE used'[Home[th]] < NumFlags
    <3>1. Home[th] # r BY <2>3, <1>1, <1>6
    <3> QED BY <3>1, <2>3, <1>1, <1>3, <1>4 DEF FlagInv, UsedRight
  <2> QED BY <2>1, <2>2, <2>3 DEF UsedRight
<1>11. MineRight'
  <2>1. \A th \in Threads : Home[th] # r => used'[Home[th]] = used[Home[th]]
    BY <1>1, <1>3, <1>4
  <2>2. \A th \in Threads : Home[th] = r => Len(mine[th]) = 0 BY <1>6
  <2>3. ASSUME NEW th \in Threads, NEW i \in 1 .. Len(mine[th]) PROVE SignalRight(th, i)'
    <3>1. Home[th] # r /\ Home[th] \in Ranks BY <2>2, <2>3, <1>3
    <3>2. SignalRight(th, i) BY DEF FlagInv, MineRight
    <3> QED BY <3>1, <3>2, <2>1, <1>1, <1>2 DEF SignalRight
  <2> QED BY <2>3, <1>1 DEF FlagInv, MineRight
<1>12. SignalsApart' BY <1>1 DEF FlagInv, SignalsApart
<1>13. CounterRight'
  <2>1. \A f \in Ranks \X {Opens} \X (1 .. NumFlags) : f[1] = r => ~(f[3] < used'[r])
    BY <1>1, <1>3, <1>4
  <2>2. \A f \in Ranks \X {Opens} \X (1 .. NumFlags) :
            f[1] # r => used'[f[1]] = used[f[1]]
    BY <1>1, <1>4
  <2>3. DOMAIN counter = {f \in Ranks \X {Opens} \X (1 .. NumFlags) : f[3] < used[f[1]]}
    BY DEF FlagInv, CounterRight
  <2>4. DOMAIN counter = {f \in Ranks \X {Opens} \X (1 .. NumFlags) : f[3] < used'[f[1]]}
    BY <2>1, <2>2, <2>3, <1>7
  <2> QED BY <2>4, <1>1 DEF CounterRight
<1>14. NetRight' BY <1>1 DEF FlagInv, NetRight
<1>15. ErrRight' BY <1>1 DEF ErrRight
<1> QED BY <1>8, <1>9, <1>10, <1>11, <1>12, <1>13, <1>14, <1>15 DEF FlagInv

LEMMA GatherFlags ==
    ASSUME IInv, FlagInv, [Next]_vars, NEW r \in Ranks, Gather(r) PROVE FlagInv'
<1>1. /\ pool' = [pool EXCEPT ![r] = opens[r]]
      /\ base' = [base EXCEPT ![r] = [q \in Ranks |-> opens[r]]]
      /\ opens' = opens /\ used' = used /\ lock' = lock
      /\ pc' = pc /\ mine' = mine /\ counter' = counter /\ net' = net /\ err' = err
      /\ pool[r] < opens[r] /\ err = "no"
  BY DEF Gather, allocVars
<1>2. Home \in [Threads -> Ranks] /\ Opens \in Nat /\ NumFlags \in Nat \ {0} BY FlagsAssumption
<1>3. opens \in [Ranks -> Nat] /\ pool \in [Ranks -> Nat] /\ used \in [Ranks -> 0 .. NumFlags]
  BY DEF FlagInv, PoolsRight, UsedRight
<1>4. opens[r] <= Opens BY DEF FlagInv, PoolsRight
<1>5. ~InitDone(r) BY <1>1, <1>2, <1>3, <1>4 DEF InitDone
<1>6. \A q \in Ranks : InitDone(q) => InitDone(q)'
  <2> SUFFICES ASSUME NEW q \in Ranks, InitDone(q) PROVE InitDone(q)'
    OBVIOUS
  <2>1. pool'[q] = pool[q] BY <1>1, <1>3, <1>5
  <2> QED BY <2>1, OpenedStays DEF InitDone
<1>7. PoolsRight'
  <2>1. DOMAIN base = Ranks /\ \A q \in Ranks :
            /\ pool[q] <= opens[q] /\ opens[q] <= pool[q] + 1 /\ opens[q] <= Opens
            /\ base[q] = [p \in Ranks |-> pool[q]]
    BY DEF FlagInv, PoolsRight
  <2>2. pool' \in [Ranks -> Nat] /\ DOMAIN base' = Ranks BY <1>1, <1>3, <2>1
  <2>3. ASSUME NEW q \in Ranks
        PROVE  /\ pool'[q] <= opens[q] /\ opens[q] <= pool'[q] + 1 /\ opens[q] <= Opens
               /\ base'[q] = [p \in Ranks |-> pool'[q]]
    <3>1. CASE q = r BY <3>1, <1>1, <1>3, <2>1
    <3>2. CASE q # r
      <4>1. pool'[q] = pool[q] /\ base'[q] = base[q] BY <3>2, <1>1, <1>3, <2>1
      <4> QED BY <4>1, <2>1
    <3> QED BY <3>1, <3>2
  <2> QED BY <2>2, <2>3, <1>1, <1>3 DEF PoolsRight
<1>8. LockRight' BY <1>1, <1>2, <1>6 DEF FlagInv, LockRight
<1>9. UsedRight' BY <1>1, <1>6 DEF FlagInv, UsedRight
<1>10. MineRight' BY <1>1, <1>2, <1>6 DEF FlagInv, MineRight, SignalRight
<1>11. SignalsApart' BY <1>1 DEF FlagInv, SignalsApart
<1>12. CounterRight' /\ NetRight' BY <1>1 DEF FlagInv, CounterRight, NetRight
<1>13. ErrRight' BY <1>1 DEF ErrRight
<1> QED BY <1>7, <1>8, <1>9, <1>10, <1>11, <1>12, <1>13 DEF FlagInv

LEMMA DomainOfSeq == ASSUME NEW S, NEW s \in Seq(S) PROVE DOMAIN s = 1 .. Len(s)
OBVIOUS

\* Two threads of a rank are not both inside the lock.
LEMMA OneInside ==
    ASSUME FlagInv, NEW s \in Threads, NEW t \in Threads, Home[s] = Home[t],
           pc[s] # "idle", pc[t] # "idle"
    PROVE  s = t
BY DEF FlagInv, LockRight

LEMMA AllocLockFlags ==
    ASSUME IInv, FlagInv, [Next]_vars, NEW th \in Threads, AllocLock(th) PROVE FlagInv'
<1>1. /\ lock' = [lock EXCEPT ![Home[th]] = th] /\ pc' = [pc EXCEPT ![th] = "take"]
      /\ opens' = opens /\ pool' = pool /\ base' = base /\ used' = used
      /\ mine' = mine /\ counter' = counter /\ net' = net /\ err' = err
      /\ lock[Home[th]] = None /\ InitDone(Home[th]) /\ err = "no" /\ pc[th] = "idle"
  BY DEF AllocLock, initVars
<1>2. \A r \in Ranks : InitDone(r) => InitDone(r)' BY <1>1, DoneStays
<1>3. Home \in [Threads -> Ranks] /\ None \notin Threads BY FlagsAssumption
<1>4. pc \in [Threads -> {"idle", "take", "count"}] /\ lock \in [Ranks -> Threads \cup {None}]
  BY DEF FlagInv, LockRight
<1>5. PoolsRight' BY <1>1 DEF FlagInv, PoolsRight
<1>6. LockRight'
  <2>1. ASSUME NEW s \in Threads, pc'[s] # "idle"
        PROVE  InitDone(Home[s])' /\ lock'[Home[s]] = s
    <3>1. CASE s = th BY <3>1, <1>1, <1>2, <1>3, <1>4
    <3>2. CASE s # th
      <4>1. pc[s] # "idle" BY <3>2, <2>1, <1>1, <1>4
      <4>2. InitDone(Home[s]) /\ lock[Home[s]] = s BY <4>1 DEF FlagInv, LockRight
      <4>3. Home[s] # Home[th] BY <4>2, <1>1, <1>3
      <4> QED BY <4>2, <4>3, <1>1, <1>2, <1>3, <1>4
    <3> QED BY <3>1, <3>2
  <2> QED BY <2>1, <1>1, <1>3, <1>4 DEF LockRight
<1>7. \A s \in Threads : pc'[s] = "count" => pc[s] = "count" BY <1>1, <1>4
<1>8. UsedRight' BY <1>1, <1>2, <1>7 DEF FlagInv, UsedRight
<1>9. MineRight'
  <2>1. ASSUME NEW s \in Threads, NEW i \in 1 .. Len(mine[s]) PROVE SignalRight(s, i)'
    <3>1. SignalRight(s, i) BY DEF FlagInv, MineRight
    <3>2. pc'[s] = "count" <=> pc[s] = "count" BY <1>1, <1>4
    <3> QED BY <3>1, <3>2, <1>1, <1>2, <1>3 DEF SignalRight
  <2> QED BY <2>1, <1>1, <1>7 DEF FlagInv, MineRight
<1>10. SignalsApart' BY <1>1 DEF FlagInv, SignalsApart
<1>11. CounterRight' /\ NetRight' BY <1>1 DEF FlagInv, CounterRight, NetRight
<1>12. ErrRight' BY <1>1 DEF ErrRight
<1> QED BY <1>5, <1>6, <1>8, <1>9, <1>10, <1>11, <1>12 DEF FlagInv

LEMMA AllocTakeFlags ==
    ASSUME IInv, FlagInv, [Next]_vars, NEW th \in Threads, AllocTake(th) PROVE FlagInv'
<1>1. /\ opens' = opens /\ pool' = pool /\ base' = base /\ used' = used /\ lock' = lock
      /\ counter' = counter /\ net' = net /\ err = "no" /\ pc[th] = "take"
  BY DEF AllocTake, initVars
<1>2. \A r \in Ranks : InitDone(r) => InitDone(r)' BY <1>1, DoneStays
<1>3. Home \in [Threads -> Ranks] /\ Opens \in Nat /\ NumFlags \in Nat \ {0} BY FlagsAssumption
<1>4. pc \in [Threads -> {"idle", "take", "count"}] /\ used \in [Ranks -> 0 .. NumFlags]
  BY DEF FlagInv, LockRight, UsedRight
<1>5. InitDone(Home[th]) BY <1>1 DEF FlagInv, LockRight
<1>6. PoolsRight' /\ CounterRight' /\ NetRight'
  BY <1>1 DEF FlagInv, PoolsRight, CounterRight, NetRight
<1>7. CASE UsedUp(Home[th])
  <2>1. mine' = mine /\ pc' = pc BY <1>7 DEF AllocTake
  <2>2. LockRight' BY <2>1, <1>1, <1>2, <1>3 DEF FlagInv, LockRight
  <2>3. UsedRight' BY <2>1, <1>1, <1>2 DEF FlagInv, UsedRight
  <2>4. MineRight' BY <2>1, <1>1, <1>2, <1>3 DEF FlagInv, MineRight, SignalRight
  <2>5. SignalsApart' BY <2>1 DEF FlagInv, SignalsApart
  <2>6. ErrRight' BY <1>1, <1>2, <1>3, <1>5, <1>7 DEF ErrRight, UsedUp
  <2> QED BY <1>6, <2>2, <2>3, <2>4, <2>5, <2>6 DEF FlagInv
<1>8. CASE ~UsedUp(Home[th])
  <2> DEFINE f == <<Home[th], pool[Home[th]], used[Home[th]]>>
  <2>1. /\ mine' = [mine EXCEPT ![th] = Append(mine[th], f)]
        /\ pc' = [pc EXCEPT ![th] = "count"] /\ err' = err
    BY <1>8 DEF AllocTake, Flag
  <2>2. /\ used[Home[th]] < NumFlags /\ used[Home[th]] >= 1 /\ pool[Home[th]] = Opens
        /\ Home[th] \in Ranks /\ used[Home[th]] \in Nat
    <3>1. Home[th] \in Ranks /\ pool[Home[th]] = Opens /\ Opens > 0
      BY <1>3, <1>5, FlagsAssumption DEF InitDone
    <3>2. opens[Home[th]] > 0 BY <3>1, <1>3 DEF FlagInv, PoolsRight
    <3> QED BY <3>1, <3>2, <1>3, <1>4, <1>8 DEF FlagInv, UsedRight, UsedUp
  <2>3. LockRight'
    <3>1. \A s \in Threads : pc'[s] # "idle" => pc[s] # "idle" BY <2>1, <1>1, <1>4
    <3> QED BY <3>1, <2>1, <1>1, <1>2, <1>3, <1>4 DEF FlagInv, LockRight
  <2>4. UsedRight'
    <3>1. \A s \in Threads : pc'[s] = "count" => s = th \/ pc[s] = "count" BY <2>1, <1>4
    <3> QED BY <3>1, <2>2, <1>1, <1>2 DEF FlagInv, UsedRight
  <2>5. f \in Ranks \X Nat \X Nat /\ f[1] = Home[th] /\ f[2] = Opens /\ f[3] = used[Home[th]]
    BY <2>2, <1>3
  <2> HIDE DEF f
  <2>6. mine[th] \in Seq(Ranks \X Nat \X Nat) /\ DOMAIN mine = Threads
    BY DEF FlagInv, MineRight
  <2>7. /\ mine'[th] = Append(mine[th], f) /\ mine'[th] \in Seq(Ranks \X Nat \X Nat)
        /\ Len(mine'[th]) = Len(mine[th]) + 1 /\ mine'[th][Len(mine[th]) + 1] = f
        /\ \A i \in 1 .. Len(mine[th]) : mine'[th][i] = mine[th][i]
        /\ Len(mine[th]) \in Nat
    BY <2>1, <2>5, <2>6
  <2>8. \A s \in Threads : s # th => mine'[s] = mine[s] /\ pc'[s] = pc[s]
    BY <2>1, <2>6, <1>4
  \* what the others have is below `used`, and so is what this thread had
  <2>9. ASSUME NEW s \in Threads, NEW i \in 1 .. Len(mine[s]) PROVE mine[s][i] # f
    <3>1. SignalRight(s, i) BY DEF FlagInv, MineRight
    <3>2. CASE Home[s] # Home[th] BY <3>1, <3>2, <2>5 DEF SignalRight
    <3>3. CASE Home[s] = Home[th]
      <4>1. pc[s] # "count" BY <3>3, <1>1, OneInside
      <4>2. mine[s][i][3] < used[Home[th]] BY <4>1, <3>1, <3>3 DEF SignalRight
      <4> QED BY <4>2, <2>2, <2>5
    <3> QED BY <3>2, <3>3
  <2>10. MineRight'
    <3>1. ASSUME NEW s \in Threads, NEW i \in 1 .. Len(mine'[s]) PROVE SignalRight(s, i)'
      <4>1. CASE s # th
        <5>1. SignalRight(s, i) BY <4>1, <2>8 DEF FlagInv, MineRight
        <5> QED BY <5>1, <4>1, <2>8, <1>1, <1>2, <1>3 DEF SignalRight
      <4>2. CASE s = th /\ i # Len(mine'[th])
        <5>1. i \in 1 .. Len(mine[th]) BY <4>2, <2>7
        <5>2. SignalRight(th, i) BY <5>1 DEF FlagInv, MineRight
        <5>3. mine[th][i][3] < used[Home[th]] BY <5>2, <1>1 DEF SignalRight
        <5> QED BY <5>1, <5>2, <5>3, <4>2, <2>7, <1>1, <1>2, <1>3 DEF SignalRight
      <4>3. CASE s = th /\ i = Len(mine'[th])
        <5>1. mine'[s][i] = f BY <4>3, <2>7
        <5>2. pc'[th] = "count" BY <2>1, <1>4
        <5> QED BY <5>1, <5>2, <4>3, <2>2, <2>5, <1>1, <1>2, <1>5 DEF SignalRight
      <4> QED BY <4>1, <4>2, <4>3
    <3>2. ASSUME NEW s \in Threads
          PROVE  mine'[s] \in Seq(Ranks \X Nat \X Nat) /\ (pc'[s] = "count" => Len(mine'[s]) > 0)
      <4>1. CASE s = th
        <5>1. Len(mine'[th]) > 0 BY <2>7
        <5> QED BY <5>1, <4>1, <2>7
      <4>2. CASE s # th BY <4>2, <2>8 DEF FlagInv, MineRight
      <4> QED BY <4>1, <4>2
    <3>3. DOMAIN mine' = Threads BY <2>1, <2>6
    <3> QED BY <3>1, <3>2, <3>3 DEF MineRight
  <2>11. SignalsApart'
    <3> SUFFICES ASSUME NEW s \in Threads, NEW t \in Threads,
                        NEW i \in DOMAIN mine'[s], NEW j \in DOMAIN mine'[t],
                        mine'[s][i] = mine'[t][j]
                 PROVE  s = t /\ i = j
      BY DEF SignalsApart
    <3>1. \A u \in Threads : DOMAIN mine'[u] = 1 .. Len(mine'[u]) /\ DOMAIN mine[u] = 1 .. Len(mine[u])
      <4>1. \A u \in Threads : /\ mine'[u] \in Seq(Ranks \X Nat \X Nat)
                                /\ mine[u] \in Seq(Ranks \X Nat \X Nat)
        BY <2>10 DEF FlagInv, MineRight
      <4> QED BY <4>1, DomainOfSeq
    <3>2. \A u \in Threads : \A k \in DOMAIN mine'[u] :
              \/ k \in 1 .. Len(mine[u]) /\ mine'[u][k] = mine[u][k]
              \/ u = th /\ k = Len(mine[th]) + 1 /\ mine'[u][k] = f
      <4> SUFFICES ASSUME NEW u \in Threads, NEW k \in DOMAIN mine'[u]
                   PROVE  \/ k \in 1 .. Len(mine[u]) /\ mine'[u][k] = mine[u][k]
                          \/ u = th /\ k = Len(mine[th]) + 1 /\ mine'[u][k] = f
        OBVIOUS
      <4>1. k \in 1 .. Len(mine'[u]) BY <3>1
      <4>2. CASE u # th BY <4>1, <4>2, <2>8
      <4>3. CASE u = th BY <4>1, <4>3, <2>7
      <4> QED BY <4>2, <4>3
    <3>3. \A k \in 1 .. Len(mine[s]) : k \in DOMAIN mine[s] BY <3>1
    <3>4. \A k \in 1 .. Len(mine[t]) : k \in DOMAIN mine[t] BY <3>1
    <3> QED BY <3>2, <3>3, <3>4, <2>9 DEF FlagInv, SignalsApart
  <2>12. ErrRight' BY <2>1, <1>1 DEF ErrRight
  <2> QED BY <1>6, <2>3, <2>4, <2>10, <2>11, <2>12 DEF FlagInv
<1> QED BY <1>7, <1>8

LEMMA AllocCountFlags ==
    ASSUME IInv, FlagInv, [Next]_vars, NEW th \in Threads, AllocCount(th) PROVE FlagInv'
<1> DEFINE r == Home[th]
           f == Last(mine[th])
<1>1. /\ used' = [used EXCEPT ![r] = @ + 1] /\ lock' = [lock EXCEPT ![r] = None]
      /\ pc' = [pc EXCEPT ![th] = "idle"]
      /\ DOMAIN counter' = DOMAIN counter \cup {f}
      /\ opens' = opens /\ pool' = pool /\ base' = base /\ mine' = mine
      /\ net' = net /\ err' = err /\ err = "no" /\ pc[th] = "count"
  BY DEF AllocCount, initVars
<1>2. \A q \in Ranks : InitDone(q) => InitDone(q)' BY <1>1, DoneStays
<1>3. Home \in [Threads -> Ranks] /\ Opens \in Nat /\ NumFlags \in Nat \ {0} BY FlagsAssumption
<1>4. /\ pc \in [Threads -> {"idle", "take", "count"}] /\ used \in [Ranks -> 0 .. NumFlags]
      /\ lock \in [Ranks -> Threads \cup {None}]
  BY DEF FlagInv, LockRight, UsedRight
<1>5. InitDone(r) /\ used[r] < NumFlags /\ r \in Ranks /\ used[r] \in Nat
  BY <1>1, <1>3, <1>4 DEF FlagInv, LockRight, UsedRight
\* its last signal is the entry it counts
<1>6. f \in Ranks \X {Opens} \X (1 .. NumFlags) /\ f[1] = r /\ f[3] = used[r]
  <2>1. mine[th] \in Seq(Ranks \X Nat \X Nat) /\ Len(mine[th]) > 0
    BY <1>1 DEF FlagInv, MineRight
  <2>2. Len(mine[th]) \in 1 .. Len(mine[th]) /\ mine[th][Len(mine[th])] \in Ranks \X Nat \X Nat
    BY <2>1
  <2>3. f = mine[th][Len(mine[th])] BY DEF Last
  <2>4. SignalRight(th, Len(mine[th])) BY <2>2 DEF FlagInv, MineRight
  <2>5. f[1] = r /\ f[2] = Opens /\ f[3] >= 1 /\ f[3] = used[r]
    BY <2>3, <2>4, <1>1 DEF SignalRight
  <2>6. f \in Ranks \X Nat \X Nat BY <2>2, <2>3
  <2> HIDE DEF f
  <2> QED BY <2>5, <2>6, <1>3, <1>5
<1> HIDE DEF r, f
<1>7. used'[r] = used[r] + 1 /\ \A q \in Ranks : q # r => used'[q] = used[q]
  BY <1>1, <1>4, <1>5
<1>8. \A s \in Threads : pc'[s] # "idle" => s # th /\ pc[s] = pc'[s] /\ Home[s] # r
  <2> SUFFICES ASSUME NEW s \in Threads, pc'[s] # "idle"
               PROVE  s # th /\ pc[s] = pc'[s] /\ Home[s] # r
    OBVIOUS
  <2>1. s # th /\ pc[s] = pc'[s] BY <1>1, <1>4
  <2> QED BY <2>1, <1>1, OneInside DEF r
<1>9. PoolsRight' BY <1>1 DEF FlagInv, PoolsRight
<1>10. LockRight'
  <2>1. pc' \in [Threads -> {"idle", "take", "count"}] /\ lock' \in [Ranks -> Threads \cup {None}]
    BY <1>1, <1>4
  <2>2. ASSUME NEW s \in Threads, pc'[s] # "idle"
        PROVE  InitDone(Home[s])' /\ lock'[Home[s]] = s
    <3>1. pc[s] # "idle" /\ Home[s] # r BY <2>2, <1>8
    <3>2. InitDone(Home[s]) /\ lock[Home[s]] = s BY <3>1 DEF FlagInv, LockRight
    <3> QED BY <3>1, <3>2, <1>1, <1>2, <1>3, <1>4
  <2> QED BY <2>1, <2>2 DEF LockRight
<1>11. UsedRight'
  <2>1. used' \in [Ranks -> 0 .. NumFlags]
    <3>1. used[r] + 1 \in 0 .. NumFlags BY <1>3, <1>5
    <3> QED BY <3>1, <1>1, <1>4
  <2>2. ASSUME NEW q \in Ranks
        PROVE  (~InitDone(q)' => used'[q] <= 1) /\ (opens'[q] > 0 => used'[q] >= 1)
    <3>1. CASE q = r BY <3>1, <1>2, <1>5, <1>7
    <3>2. CASE q # r BY <3>2, <1>1, <1>2, <1>7 DEF FlagInv, UsedRight
    <3> QED BY <3>1, <3>2
  <2>3. ASSUME NEW s \in Threads, pc'[s] = "count" PROVE used'[Home[s]] < NumFlags
    <3>1. pc[s] = "count" /\ Home[s] # r /\ Home[s] \in Ranks BY <2>3, <1>3, <1>8
    <3> QED BY <3>1, <1>7 DEF FlagInv, UsedRight
  <2> QED BY <2>1, <2>2, <2>3 DEF UsedRight
<1>12. MineRight'
  <2>1. ASSUME NEW s \in Threads, NEW i \in 1 .. Len(mine[s]) PROVE SignalRight(s, i)'
    <3>1. SignalRight(s, i) BY DEF FlagInv, MineRight
    <3>2. CASE Home[s] = r
      <4>1. pc'[s] # "count" BY <3>2, <1>8
      <4>2. mine[s][i][3] = used[r] \/ mine[s][i][3] < used[r]
        BY <3>1, <3>2 DEF SignalRight
      <4>3. mine[s][i][3] \in Nat
        <5>1. mine[s] \in Seq(Ranks \X Nat \X Nat) BY DEF FlagInv, MineRight
        <5>2. mine[s][i] \in Ranks \X Nat \X Nat BY <5>1
        <5> QED BY <5>2
      <4>4. mine[s][i][3] < used'[r] BY <4>2, <4>3, <1>5, <1>7
      <4> QED BY <4>1, <4>4, <3>1, <3>2, <1>1, <1>2, <1>5 DEF SignalRight
    <3>3. CASE Home[s] # r
      <4>1. pc'[s] = "count" <=> pc[s] = "count" BY <3>3, <1>1, <1>4 DEF r
      <4>2. used'[Home[s]] = used[Home[s]] BY <3>3, <1>3, <1>7
      <4> QED BY <4>1, <4>2, <3>1, <1>1, <1>2, <1>3 DEF SignalRight
    <3> QED BY <3>2, <3>3
  <2>2. \A s \in Threads : pc'[s] = "count" => pc[s] = "count" BY <1>8
  <2> QED BY <2>1, <2>2, <1>1 DEF FlagInv, MineRight
<1>13. SignalsApart' BY <1>1 DEF FlagInv, SignalsApart
<1>14. CounterRight'
  <2> DEFINE U == Ranks \X {Opens} \X (1 .. NumFlags)
  <2>1. DOMAIN counter = {g \in U : g[3] < used[g[1]]} BY DEF FlagInv, CounterRight
  <2>2. ASSUME NEW g \in U
        PROVE  g[3] < used'[g[1]] <=> g[3] < used[g[1]] \/ g = f
    <3>1. /\ g = <<g[1], g[2], g[3]>> /\ g[1] \in Ranks /\ g[2] = Opens /\ g[3] \in 1 .. NumFlags
          /\ f = <<f[1], f[2], f[3]>> /\ f[2] = Opens
      BY <1>6
    <3>2. CASE g[1] # r
      <4>1. used'[g[1]] = used[g[1]] BY <3>1, <3>2, <1>7
      <4> QED BY <4>1, <3>2, <1>6
    <3>3. CASE g[1] = r
      <4>1. g = f <=> g[3] = used[r] BY <3>1, <3>3, <1>6
      <4>2. g[3] \in Int BY <3>1, <1>3
      <4> QED BY <4>1, <4>2, <3>3, <1>5, <1>7
    <3> QED BY <3>2, <3>3
  <2>3. f \in U BY <1>6
  <2> HIDE DEF U
  <2>4. DOMAIN counter' = {g \in U : g[3] < used'[g[1]]}
    BY <2>1, <2>2, <2>3, <1>1
  <2> QED BY <2>4 DEF CounterRight, U
<1>15. NetRight' BY <1>1 DEF FlagInv, NetRight
<1>16. ErrRight' BY <1>1 DEF ErrRight
<1> QED BY <1>9, <1>10, <1>11, <1>12, <1>13, <1>14, <1>15, <1>16 DEF FlagInv

\* Signals in use are the entries of the last pool, on ranks whose unr_init has
\* opened all channels.
LEMMA InUse ==
    ASSUME FlagInv, NEW f \in DOMAIN counter
    PROVE  /\ f = <<f[1], Opens, f[3]>> /\ f[1] \in Ranks /\ f[3] \in 1 .. NumFlags
           /\ InitDone(f[1]) /\ base[f[1]] = [q \in Ranks |-> Opens]
<1>1. f \in Ranks \X {Opens} \X (1 .. NumFlags)
  BY DEF FlagInv, CounterRight
<1>2. f = <<f[1], Opens, f[3]>> /\ f[1] \in Ranks /\ f[3] \in 1 .. NumFlags
  BY <1>1
<1>3. InitDone(f[1]) BY <1>2, NothingUsed
<1> QED BY <1>2, <1>3 DEF InitDone, FlagInv, PoolsRight

LEMMA SendFlags ==
    ASSUME IInv, FlagInv, [Next]_vars, NEW r \in Ranks, NEW q \in Ranks, NEW sz,
           NEW lf \in Signals(r) \cup {None}, NEW rf \in Signals(q) \cup {None},
           Send(r, q, lf, rf, sz)
    PROVE  FlagInv'
<1>1. /\ opens' = opens /\ pool' = pool /\ base' = base /\ used' = used /\ lock' = lock
      /\ pc' = pc /\ mine' = mine /\ counter' = counter
      /\ err' = err \/ err' = "assert"
  BY DEF Send, initVars, allocVars
<1>2. \A p \in Ranks : InitDone(p) => InitDone(p)' BY <1>1, DoneStays
<1>3. Home \in [Threads -> Ranks] BY FlagsAssumption
<1>4. \A e \in net' \ net : e.flag \in DOMAIN counter /\ e.flag[1] = e.at /\ e.idx = e.flag[3]
  <2> SUFFICES ASSUME NEW e \in net' \ net
               PROVE  e.flag \in DOMAIN counter /\ e.flag[1] = e.at /\ e.idx = e.flag[3]
    OBVIOUS
  <2>1. PICK j : \/ e = [at |-> r, idx |-> Index(lf), flag |-> lf, msg |-> sent, part |-> j] /\ lf # None
                 \/ e = [at |-> q, idx |-> Index(rf), flag |-> rf, msg |-> sent, part |-> j] /\ rf # None
    BY DEF Send
  <2> QED BY <2>1 DEF Index, Signals
<1>5. PoolsRight' BY <1>1 DEF FlagInv, PoolsRight
<1>6. LockRight' BY <1>1, <1>2, <1>3 DEF FlagInv, LockRight
<1>7. UsedRight' BY <1>1, <1>2 DEF FlagInv, UsedRight
<1>8. MineRight' BY <1>1, <1>2, <1>3 DEF FlagInv, MineRight, SignalRight
<1>9. SignalsApart' BY <1>1 DEF FlagInv, SignalsApart
<1>10. CounterRight' BY <1>1 DEF FlagInv, CounterRight
<1>11. NetRight' BY <1>1, <1>4 DEF FlagInv, NetRight
<1>12. ErrRight' BY <1>1, <1>2 DEF FlagInv, ErrRight
<1> QED BY <1>5, <1>6, <1>7, <1>8, <1>9, <1>10, <1>11, <1>12 DEF FlagInv

LEMMA ProgressFlags ==
    ASSUME IInv, FlagInv, [Next]_vars, NEW e \in net, Progress(e) PROVE FlagInv'
<1>1. /\ opens' = opens /\ pool' = pool /\ base' = base /\ used' = used /\ lock' = lock
      /\ pc' = pc /\ mine' = mine /\ err' = err /\ net' \subseteq net
      /\ DOMAIN counter' = DOMAIN counter
  BY DEF Progress, initVars, allocVars
<1>2. \A p \in Ranks : InitDone(p) => InitDone(p)' BY <1>1, DoneStays
<1>3. Home \in [Threads -> Ranks] BY FlagsAssumption
<1>4. PoolsRight' BY <1>1 DEF FlagInv, PoolsRight
<1>5. LockRight' BY <1>1, <1>2, <1>3 DEF FlagInv, LockRight
<1>6. UsedRight' BY <1>1, <1>2 DEF FlagInv, UsedRight
<1>7. MineRight' BY <1>1, <1>2, <1>3 DEF FlagInv, MineRight, SignalRight
<1>8. SignalsApart' BY <1>1 DEF FlagInv, SignalsApart
<1>9. CounterRight' /\ NetRight' BY <1>1 DEF FlagInv, CounterRight, NetRight
<1>10. ErrRight' BY <1>1, <1>2 DEF FlagInv, ErrRight
<1> QED BY <1>4, <1>5, <1>6, <1>7, <1>8, <1>9, <1>10 DEF FlagInv

LEMMA FlagStep ==
    ASSUME IInv, FlagInv, [FNext]_allVars PROVE IInv' /\ FlagInv'
<1>1. [Next]_vars BY FlagsOpen DEF allVars
<1>2. CASE UNCHANGED allVars BY <1>1, <1>2, OpeningFlags, OpenInv DEF allVars
<1>3. ASSUME NEW r \in Ranks, Opening(r) PROVE FlagInv'
  BY <1>1, <1>3, OpeningFlags DEF Opening
<1>4. ASSUME NEW r \in Ranks, InitPool(r) PROVE FlagInv'
  BY <1>1, <1>4, InitPoolFlags
<1>5. ASSUME NEW r \in Ranks, Gather(r) PROVE FlagInv'
  BY <1>1, <1>5, GatherFlags
<1>6. ASSUME NEW th \in Threads, AllocLock(th) \/ AllocTake(th) \/ AllocCount(th) PROVE FlagInv'
  BY <1>1, <1>6, AllocLockFlags, AllocTakeFlags, AllocCountFlags
<1>7. ASSUME NEW r \in Ranks, NEW q \in Ranks, NEW sz \in Sizes,
             NEW lf \in Signals(r) \cup {None}, NEW rf \in Signals(q) \cup {None},
             Send(r, q, lf, rf, sz)
      PROVE  FlagInv'
  BY <1>1, <1>7, SendFlags
<1>8. ASSUME NEW e \in net, Progress(e) PROVE FlagInv'
  BY <1>1, <1>8, ProgressFlags
<1> QED BY <1>1, <1>2, <1>3, <1>4, <1>5, <1>6, <1>7, <1>8, OpenInv DEF FNext, OpenStep

LEMMA FlagsInductive == FSpec => [](IInv /\ FlagInv)
<1>1. (IInv /\ FlagInv) /\ [FNext]_allVars => (IInv /\ FlagInv)' BY FlagStep
<1> QED BY FlagInit, <1>1, PTL DEF FSpec

\* The ranks find each other ready as well while their flag pools are made
\* between the statements of the opening and signals are used after it.
THEOREM ReadyWithFlagPools == FSpec => [](PeersReady /\ CountedForPeer)
BY FlagsInductive, ReadyWhenOpened, PeerOfCompletion, PTL

\* Threads of a rank that ask the pool for signals at the same time never get
\* the same one, and uru_flag_pool_alloc finds the pool used up only when each
\* of its entries but the reserved one has been handed out.
THEOREM PoolGivesEachOnce == FSpec => []SignalsExact
<1>1. IInv /\ FlagInv => SignalsExact
  <2> SUFFICES ASSUME FlagInv, err = "full"
               PROVE  \E r \in Ranks : Cardinality(Signals(r)) = NumFlags - 1
    BY DEF SignalsExact, FullWhenFull, FlagInv
  <2>1. PICK r \in Ranks : used[r] = NumFlags BY DEF FlagInv, ErrRight
  <2>2. NumFlags \in Nat \ {0} BY FlagsAssumption
  <2>3. Signals(r) = {<<r, Opens, n>> : n \in 1 .. NumFlags - 1}
    <3> DEFINE U == Ranks \X {Opens} \X (1 .. NumFlags)
    <3>1. DOMAIN counter = {f \in U : f[3] < used[f[1]]} BY DEF FlagInv, CounterRight
    <3>2. ASSUME NEW f \in Signals(r) PROVE f \in {<<r, Opens, n>> : n \in 1 .. NumFlags - 1}
      <4>1. f \in U /\ f[1] = r /\ f[3] < NumFlags BY <3>1, <2>1 DEF Signals
      <4>2. f = <<r, Opens, f[3]>> /\ f[3] \in 1 .. NumFlags BY <4>1
      <4> QED BY <4>1, <4>2, <2>2
    <3>3. ASSUME NEW n \in 1 .. NumFlags - 1 PROVE <<r, Opens, n>> \in Signals(r)
      BY <3>1, <2>1, <2>2 DEF Signals
    <3> QED BY <3>2, <3>3
  <2> DEFINE F == [n \in 1 .. NumFlags - 1 |-> <<r, Opens, n>>]
  <2>4. F \in Bijection(1 .. NumFlags - 1, Signals(r))
    BY <2>3 DEF Bijection, Injection, IsInjective, Surjection
  <2>5. ExistsBijection(1 .. NumFlags - 1, Signals(r)) BY <2>4 DEF ExistsBijection
  <2> QED BY <2>2, <2>5, FS_CountingElements
<1> QED BY FlagsInductive, <1>1, PTL

\* Over one verbs channel between nodes, no assertion of uri_verbs_event_fill
\* fails: every signal is of the pool whose address the ranks got last, and a
\* message that is not divided adds -1.
LEMMA NoAssertStep ==
    ASSUME IInv, FlagInv, NumChannels["inter"] = 1, [FNext]_allVars, err # "assert"
    PROVE  err' # "assert"
<1>1. ASSUME NEW r \in Ranks, NEW q \in Ranks, NEW sz \in Sizes,
             NEW lf \in Signals(r) \cup {None}, NEW rf \in Signals(q) \cup {None},
             Send(r, q, lf, rf, sz)
      PROVE  err' # "assert"
  <2> DEFINE parts == DivSize("inter", sz, 0)
             used_ == {j \in DOMAIN parts : parts[j] # 0}
             add == SigAddArr(parts)
  <2>1. DOMAIN parts = {0}
    <3>1. DOMAIN parts = Channels("inter") BY DEF DivSize
    <3> QED BY <3>1 DEF Channels
  <2>2. ASSUME NEW j \in used_ PROVE add[j] = -1
    <3>1. used_ = {0} /\ j = 0 BY <2>1, <2>2
    <3>2. Cardinality(used_) = 1 BY <3>1, FS_Singleton
    <3>3. (CHOOSE i \in used_ : \A k \in used_ : i <= k) = 0 BY <3>1
    <3> HIDE DEF parts
    <3>4. add[0] = -1 + W * (Cardinality(used_) - 1)
      BY <3>1, <3>3, <2>1 DEF SigAddArr
    <3>5. W \in Nat BY SplitAssumption
    <3> QED BY <3>1, <3>2, <3>4, <3>5
  <2>3. lf # None => lf[1] = r /\ lf[2] = base[r][r]
    BY InUse DEF Signals
  <2>4. rf # None => rf[1] = q /\ rf[2] = base[r][q]
    <3> SUFFICES ASSUME rf # None PROVE rf[1] = q /\ rf[2] = base[r][q]
      OBVIOUS
    <3>1. rf[1] = q /\ rf[2] = Opens BY InUse DEF Signals
    <3>2. InitDone(r) BY <1>1 DEF Send
    <3> QED BY <3>1, <3>2 DEF InitDone, FlagInv, PoolsRight
  <2> HIDE DEF add, used_
  <2>5. \A j \in used_ : /\ lf # None => Fits(r, r, lf, add[j])
                         /\ rf # None => Fits(r, q, rf, add[j])
    BY <2>2, <2>3, <2>4 DEF Fits
  <2> QED BY <2>5, <1>1 DEF Send, add, used_
<1>2. ASSUME NEW r \in Ranks, Opening(r) \/ InitPool(r) \/ Gather(r) PROVE err' = err
  BY <1>2 DEF Opening, InitPool, Gather, flagVars, useVars
<1>3. ASSUME NEW th \in Threads, AllocLock(th) \/ AllocTake(th) \/ AllocCount(th)
      PROVE  err' # "assert"
  BY <1>3 DEF AllocLock, AllocTake, AllocCount
<1>4. ASSUME NEW e \in net, Progress(e) PROVE err' = err
  BY <1>4 DEF Progress
<1>5. CASE UNCHANGED allVars BY <1>5 DEF allVars, flagVars, useVars
<1> QED BY <1>1, <1>2, <1>3, <1>4, <1>5 DEF FNext, OpenStep

\* The 32-bit index that a message carries names, on the rank that handles the
\* event, the signal its sender meant, and is never that of no signal.
THEOREM IndexNamesSignal == NumChannels["inter"] = 1 => (FSpec => []RightSignal)
<1> SUFFICES ASSUME NumChannels["inter"] = 1 PROVE FSpec => []RightSignal
  OBVIOUS
<1>1. FInit => err # "assert" BY DEF FInit
<1>2. IInv /\ FlagInv /\ [FNext]_allVars /\ err # "assert" => (err # "assert")'
  BY NoAssertStep
<1>3. IInv /\ FlagInv /\ err # "assert" => RightSignal
  <2> SUFFICES ASSUME FlagInv, NEW e \in net PROVE e.idx # 0 /\ Decoded(e.at, e.idx) = e.flag
    BY DEF RightSignal
  <2>1. e.flag \in DOMAIN counter /\ e.flag[1] = e.at /\ e.idx = e.flag[3]
    BY DEF FlagInv, NetRight
  <2>2. /\ e.flag = <<e.flag[1], Opens, e.flag[3]>> /\ e.flag[1] \in Ranks
        /\ e.flag[3] \in 1 .. NumFlags /\ base[e.flag[1]] = [q \in Ranks |-> Opens]
    BY <2>1, InUse
  <2>3. base[e.at][e.at] = Opens BY <2>1, <2>2
  <2>4. NumFlags \in Nat BY FlagsAssumption
  <2> QED BY <2>1, <2>2, <2>3, <2>4 DEF Decoded
<1> QED BY FlagsInductive, <1>1, <1>2, <1>3, PTL DEF FSpec
================================================================================
