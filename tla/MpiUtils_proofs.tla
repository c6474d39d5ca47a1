---------------------------- MODULE MpiUtils_proofs ----------------------------
(* Proofs about the two utilities of the MPI channel (uri_mpi_utils.c): the  *)
(* pools of tags and batch ids, for every number of ranks, and the array of  *)
(* outstanding requests, for every number of requests and every batch size.  *)
EXTENDS MpiIntPool, MpiReqQueue, FiniteSetTheorems, FunctionTheorems, SequenceTheorems, TLAPS

-----------------------------------------------------------------------------
(* The pools *)

\* Encoding is injective in the number ...
LEMMA EncodeNumber ==
    ASSUME NEW r \in Ranks, NEW m \in Nat, NEW k \in Nat
    PROVE  /\ Encode(r, m) \in Nat
           /\ Encode(r, m) = Encode(r, k) => m = k
           /\ Decode(r, Encode(r, m)) = m
BY PoolSizes, Z3 DEF Encode, Decode, Ranks

\* ... and in the rank: the code adds the rank to a multiple of the size.
LEMMA EncodeRank ==
    ASSUME NEW q \in Ranks, NEW r \in Ranks, NEW m \in Nat, NEW k \in Nat,
           Encode(q, m) = Encode(r, k)
    PROVE  q = r
BY PoolSizes, Z3 DEF Encode, Ranks

\* The part of PoolExact about one rank.
ExactAt(r) ==
    /\ \A j, k \in 1 .. Len(recycle[r]) : recycle[r][j] = recycle[r][k] => j = k
    /\ \A k \in 1 .. Len(recycle[r]) :
         /\ recycle[r][k] \in 1 .. max[r] - 1
         /\ Encode(r, recycle[r][k]) \notin held[r]
    /\ \A x \in held[r] : \E n \in 1 .. max[r] - 1 : x = Encode(r, n)
    /\ ~halted[r] => \A n \in 1 .. max[r] - 1 : OnStack(r, n) \/ Encode(r, n) \in held[r]

\* The invariant, rank by rank.
LEMMA PoolExactAt == PoolExact <=> \A r \in Ranks : ExactAt(r)
BY DEF PoolExact, ExactAt

\* An operation of rank r leaves the pools of the other ranks alone.
LEMMA OtherRanks ==
    ASSUME PoolInv, NEW r \in Ranks, Get(r) \/ \E x \in held[r] : Return(r, x),
           NEW q \in Ranks, q # r
    PROVE  ExactAt(q)'
<1>1. /\ max'[q] = max[q] /\ recycle'[q] = recycle[q]
      /\ held'[q] = held[q] /\ halted'[q] = halted[q]
  BY DEF PoolInv, TypeOK, Get, GetRecycled, GetNew, Return
<1> QED
  BY <1>1 DEF PoolInv, PoolExact, ExactAt, OnStack

\* uri_mpi_int_pool_get takes the top of the stack
LEMMA GetRecycledInv ==
    ASSUME PoolInv, NEW r \in Ranks, GetRecycled(r)
    PROVE  TypeOK' /\ ExactAt(r)'
<1> DEFINE s == recycle[r]
           top == Last(s)
<1>1. s \in Seq(Nat) /\ s # <<>> /\ Len(s) \in Nat /\ Len(s) > 0 /\ top \in Nat
  BY DEF PoolInv, TypeOK, GetRecycled, Last
<1>2. /\ recycle'[r] \in Seq(Nat)
      /\ Len(recycle'[r]) = Len(s) - 1
      /\ \A k \in 1 .. Len(s) - 1 : recycle'[r][k] = s[k]
  <2>1. recycle'[r] = SubSeq(s, 1, Len(s) - 1)
    BY DEF PoolInv, TypeOK, GetRecycled, Front
  <2>2. /\ SubSeq(s, 1, Len(s) - 1) \in Seq(Nat)
        /\ Len(SubSeq(s, 1, Len(s) - 1)) = Len(s) - 1
        /\ \A k \in 1 .. Len(s) - 1 : SubSeq(s, 1, Len(s) - 1)[k] = s[k]
    <3>1. \A k \in 1 .. Len(s) - 1 : s[k] \in Nat
      BY <1>1
    <3>2. Len(s) - 1 \in Int /\ 1 \in Int
      BY <1>1
    <3> HIDE DEF s
    <3>3. /\ SubSeq(s, 1, Len(s) - 1) \in Seq(Nat)
          /\ Len(SubSeq(s, 1, Len(s) - 1)) =
                 IF 1 <= Len(s) - 1 THEN Len(s) - 1 - 1 + 1 ELSE 0
          /\ \A k \in 1 .. Len(s) - 1 - 1 + 1 : SubSeq(s, 1, Len(s) - 1)[k] = s[1 + k - 1]
      BY <3>1, <3>2, SubSeqProperties
    <3>4. Len(SubSeq(s, 1, Len(s) - 1)) = Len(s) - 1
      <4> DEFINE L == Len(s)
                 M == Len(SubSeq(s, 1, L - 1))
      <4>1. M = (IF 1 <= L - 1 THEN L - 1 - 1 + 1 ELSE 0) /\ L \in Nat /\ L > 0
        BY <1>1, <3>3
      <4> HIDE DEF L, M
      <4>2. M = L - 1
        BY <4>1
      <4> QED
        BY <4>2 DEF L, M
    <3>5. \A k \in 1 .. Len(s) - 1 : k \in 1 .. Len(s) - 1 - 1 + 1 /\ 1 + k - 1 = k
      BY <1>1
    <3> QED
      BY <3>3, <3>4, <3>5
  <2> QED
    BY <2>1, <2>2
<1>3. held'[r] = held[r] \cup {Encode(r, top)} /\ max' = max /\ halted' = halted
  BY DEF PoolInv, TypeOK, GetRecycled
<1>4. TypeOK'
  <2>1. Encode(r, top) \in Nat
    BY <1>1, EncodeNumber
  <2>2. held' \in [Ranks -> SUBSET Nat]
    BY <2>1 DEF PoolInv, TypeOK, GetRecycled
  <2>3. recycle' \in [Ranks -> Seq(Nat)]
    <3>1. recycle' = [recycle EXCEPT ![r] = recycle'[r]]
      BY DEF PoolInv, TypeOK, GetRecycled
    <3> QED
      BY <3>1, <1>2 DEF PoolInv, TypeOK
  <2> QED
    BY <1>3, <2>2, <2>3 DEF PoolInv, TypeOK
<1>5. /\ \A j, k \in 1 .. Len(s) : s[j] = s[k] => j = k
      /\ \A k \in 1 .. Len(s) : s[k] \in 1 .. max[r] - 1 /\ Encode(r, s[k]) \notin held[r]
      /\ \A x \in held[r] : \E n \in 1 .. max[r] - 1 : x = Encode(r, n)
      /\ max[r] \in Nat /\ ~halted[r]
      /\ \A n \in 1 .. max[r] - 1 : OnStack(r, n) \/ Encode(r, n) \in held[r]
  BY DEF PoolInv, PoolExact, TypeOK, GetRecycled
<1>6. top = s[Len(s)] /\ Len(s) \in 1 .. Len(s) /\ top \in 1 .. max[r] - 1
  BY <1>1, <1>5 DEF Last
<1> HIDE DEF s, top
<1>7. \A k \in 1 .. Len(s) - 1 : s[k] # top
  <2> TAKE k \in 1 .. Len(s) - 1
  <2>1. k \in 1 .. Len(s) /\ k # Len(s)
    BY <1>1
  <2> QED
    BY <2>1, <1>5, <1>6
<1>8. \A k \in 1 .. Len(s) - 1 : Encode(r, s[k]) \notin held'[r]
  <2> TAKE k \in 1 .. Len(s) - 1
  <2>1. k \in 1 .. Len(s) /\ s[k] \in Nat
    BY <1>1, <1>5
  <2>2. Encode(r, s[k]) # Encode(r, top)
    BY <2>1, <1>1, <1>7, EncodeNumber
  <2> QED
    BY <2>1, <2>2, <1>3, <1>5
<1>9. ASSUME NEW n \in 1 .. max[r] - 1
      PROVE  OnStack(r, n)' \/ Encode(r, n) \in held'[r]
  <2>1. CASE Encode(r, n) \in held[r]
    BY <2>1, <1>3
  <2>2. CASE OnStack(r, n)
    <3>1. PICK k \in 1 .. Len(s) : s[k] = n
      BY <2>2 DEF OnStack, s
    <3>2. CASE k = Len(s)
      BY <3>1, <3>2, <1>3, <1>6
    <3>3. CASE k # Len(s)
      <4>1. k \in 1 .. Len(s) - 1
        BY <3>3, <1>1
      <4>2. k \in 1 .. Len(recycle'[r]) /\ recycle'[r][k] = n
        BY <4>1, <3>1, <1>2
      <4> QED
        BY <4>2 DEF OnStack
    <3> QED
      BY <3>2, <3>3
  <2> QED
    BY <2>1, <2>2, <1>5
<1>10. \A x \in held'[r] : \E n \in 1 .. max[r] - 1 : x = Encode(r, n)
  BY <1>3, <1>5, <1>6
<1>11. \A j, k \in 1 .. Len(recycle'[r]) : recycle'[r][j] = recycle'[r][k] => j = k
  <2> TAKE j, k \in 1 .. Len(recycle'[r])
  <2>1. j \in 1 .. Len(s) - 1 /\ k \in 1 .. Len(s) - 1
    BY <1>2
  <2>2. j \in 1 .. Len(s) /\ k \in 1 .. Len(s)
    BY <2>1, <1>1
  <2> QED
    BY <2>1, <2>2, <1>2, <1>5
<1>12. \A k \in 1 .. Len(recycle'[r]) :
         recycle'[r][k] \in 1 .. max'[r] - 1 /\ Encode(r, recycle'[r][k]) \notin held'[r]
  <2> TAKE k \in 1 .. Len(recycle'[r])
  <2>1. k \in 1 .. Len(s) - 1
    BY <1>2
  <2>2. k \in 1 .. Len(s)
    BY <2>1, <1>1
  <2> QED
    BY <2>1, <2>2, <1>2, <1>3, <1>5, <1>8
<1> QED
  BY <1>3, <1>4, <1>9, <1>10, <1>11, <1>12 DEF ExactAt

\* uri_mpi_int_pool_get increments max
LEMMA GetNewInv ==
    ASSUME PoolInv, NEW r \in Ranks, GetNew(r)
    PROVE  TypeOK' /\ ExactAt(r)'
<1>1. /\ recycle[r] = <<>> /\ recycle' = recycle /\ Len(recycle'[r]) = 0
      /\ max[r] \in Nat \ {0} /\ max'[r] = max[r] + 1
      /\ max' \in [Ranks -> Nat \ {0}] /\ held[r] \subseteq Nat /\ ~halted[r]
  BY DEF PoolInv, TypeOK, GetNew
<1>2. /\ \A x \in held[r] : \E n \in 1 .. max[r] - 1 : x = Encode(r, n)
      /\ \A n \in 1 .. max[r] - 1 : Encode(r, n) \in held[r]
  BY <1>1 DEF PoolInv, PoolExact, OnStack
<1>3. CASE max[r] + 1 < Limit
  <2>1. held' = [held EXCEPT ![r] = @ \cup {Encode(r, max[r])}] /\ halted' = halted
    BY <1>3 DEF GetNew
  <2>2. Encode(r, max[r]) \in Nat
    BY <1>1, EncodeNumber
  <2>3. held'[r] = held[r] \cup {Encode(r, max[r])} /\ held' \in [Ranks -> SUBSET Nat]
    BY <2>1, <2>2 DEF PoolInv, TypeOK
  <2>4. \A x \in held'[r] : \E n \in 1 .. max'[r] - 1 : x = Encode(r, n)
    <3> TAKE x \in held'[r]
    <3>1. CASE x = Encode(r, max[r])
      BY <3>1, <1>1
    <3>2. CASE x \in held[r]
      BY <3>2, <1>1, <1>2
    <3> QED
      BY <3>1, <3>2, <2>3
  <2>5. \A n \in 1 .. max'[r] - 1 : Encode(r, n) \in held'[r]
    <3> TAKE n \in 1 .. max'[r] - 1
    <3>1. n \in 1 .. max[r] - 1 \/ n = max[r]
      BY <1>1
    <3> QED
      BY <3>1, <1>2, <2>3
  <2> QED
    BY <1>1, <2>1, <2>3, <2>4, <2>5 DEF PoolInv, TypeOK, ExactAt
<1>4. CASE ~(max[r] + 1 < Limit)
  <2>1. held' = held /\ halted'[r] = TRUE /\ halted' \in [Ranks -> BOOLEAN]
    BY <1>4 DEF GetNew, PoolInv, TypeOK
  <2>2. \A x \in held'[r] : \E n \in 1 .. max'[r] - 1 : x = Encode(r, n)
    BY <1>1, <1>2, <2>1
  <2> QED
    BY <1>1, <2>1, <2>2 DEF PoolInv, TypeOK, ExactAt
<1> QED
  BY <1>3, <1>4

\* uri_mpi_int_pool_return pushes the decoded number
LEMMA ReturnInv ==
    ASSUME PoolInv, NEW r \in Ranks, NEW x \in held[r], Return(r, x)
    PROVE  TypeOK' /\ ExactAt(r)'
<1> DEFINE s == recycle[r]
           d == Decode(r, x)
<1>1. /\ s \in Seq(Nat) /\ Len(s) \in Nat /\ max[r] \in Nat /\ max' = max
      /\ halted' = halted /\ held'[r] = held[r] \ {x} /\ ~halted[r]
      /\ held' \in [Ranks -> SUBSET Nat]
  BY DEF PoolInv, TypeOK, Return
<1>2. /\ \A j, k \in 1 .. Len(s) : s[j] = s[k] => j = k
      /\ \A k \in 1 .. Len(s) : s[k] \in 1 .. max[r] - 1 /\ Encode(r, s[k]) \notin held[r]
      /\ \A y \in held[r] : \E n \in 1 .. max[r] - 1 : y = Encode(r, n)
      /\ \A n \in 1 .. max[r] - 1 : OnStack(r, n) \/ Encode(r, n) \in held[r]
  BY <1>1 DEF PoolInv, PoolExact
<1>3. d \in 1 .. max[r] - 1 /\ d \in Nat /\ x = Encode(r, d)
  <2>1. PICK n \in 1 .. max[r] - 1 : x = Encode(r, n)
    BY <1>2
  <2>2. n \in Nat
    BY <1>1
  <2> QED
    BY <2>1, <2>2, EncodeNumber
<1>4. recycle' = [recycle EXCEPT ![r] = Append(s, d)]
  BY DEF Return
<1>5. /\ Append(s, d) \in Seq(Nat) /\ Len(Append(s, d)) = Len(s) + 1
      /\ \A k \in 1 .. Len(s) : Append(s, d)[k] = s[k]
      /\ Append(s, d)[Len(s) + 1] = d
  BY <1>1, <1>3
<1>6. recycle'[r] = Append(s, d) /\ recycle' \in [Ranks -> Seq(Nat)]
  BY <1>4, <1>5 DEF PoolInv, TypeOK
<1>7. \A k \in 1 .. Len(s) : s[k] # d
  BY <1>2, <1>3
<1> DEFINE t == recycle'[r]
<1>12. /\ Len(t) = Len(s) + 1 /\ t[Len(s) + 1] = d
       /\ \A k \in 1 .. Len(s) : t[k] = s[k]
  BY <1>5, <1>6
<1> HIDE DEF s, d, t
<1>8. \A j, k \in 1 .. Len(t) : t[j] = t[k] => j = k
  <2> TAKE j, k \in 1 .. Len(t)
  <2>1. /\ j \in 1 .. Len(s) \/ j = Len(s) + 1
        /\ k \in 1 .. Len(s) \/ k = Len(s) + 1
    BY <1>1, <1>12
  <2> QED
    BY <2>1, <1>2, <1>7, <1>12
<1>9. \A k \in 1 .. Len(t) :
         t[k] \in 1 .. max'[r] - 1 /\ Encode(r, t[k]) \notin held'[r]
  <2> TAKE k \in 1 .. Len(t)
  <2>1. CASE k = Len(s) + 1
    BY <2>1, <1>1, <1>3, <1>12
  <2>2. CASE k \in 1 .. Len(s)
    BY <2>2, <1>1, <1>2, <1>12
  <2> QED
    BY <2>1, <2>2, <1>1, <1>12
<1>10. ASSUME NEW n \in 1 .. max[r] - 1
       PROVE  OnStack(r, n)' \/ Encode(r, n) \in held'[r]
  <2>1. CASE n = d
    <3>1. Len(s) + 1 \in 1 .. Len(t) /\ t[Len(s) + 1] = n
      BY <2>1, <1>1, <1>12
    <3> QED
      BY <3>1 DEF OnStack, t
  <2>2. CASE n # d /\ OnStack(r, n)
    <3>1. PICK k \in 1 .. Len(s) : s[k] = n
      BY <2>2 DEF OnStack, s
    <3>2. k \in 1 .. Len(t) /\ t[k] = n
      BY <3>1, <1>1, <1>12
    <3> QED
      BY <3>2 DEF OnStack, t
  <2>3. CASE n # d /\ Encode(r, n) \in held[r]
    <3>1. n \in Nat
      BY <1>1
    <3>2. Encode(r, n) # x
      BY <2>3, <3>1, <1>3, EncodeNumber
    <3> QED
      BY <2>3, <3>2, <1>1
  <2> QED
    BY <2>1, <2>2, <2>3, <1>2
<1>11. \A y \in held'[r] : \E n \in 1 .. max'[r] - 1 : y = Encode(r, n)
  BY <1>1, <1>2
<1> QED
  BY <1>1, <1>6, <1>8, <1>9, <1>10, <1>11 DEF PoolInv, TypeOK, ExactAt, t

\* The invariant holds in an empty pool.
LEMMA PoolInit == Init => PoolInv
<1> SUFFICES ASSUME Init PROVE PoolInv
  OBVIOUS
<1>1. TypeOK
  BY DEF Init, TypeOK
<1>2. ASSUME NEW r \in Ranks
      PROVE  Len(recycle[r]) = 0 /\ max[r] = 1 /\ held[r] = {}
  BY DEF Init
<1> QED
  BY <1>1, <1>2 DEF PoolInv, PoolExact

\* Getting and returning a number keep the invariant.
LEMMA PoolNext == PoolInv /\ [Next]_vars => PoolInv'
<1> SUFFICES ASSUME PoolInv, [Next]_vars PROVE PoolInv'
  OBVIOUS
<1>1. CASE UNCHANGED vars
  BY <1>1 DEF vars, PoolInv, TypeOK, PoolExact, OnStack
<1>2. ASSUME NEW r \in Ranks, Get(r) \/ \E x \in held[r] : Return(r, x)
      PROVE  PoolInv'
  <2>1. TypeOK' /\ ExactAt(r)'
    <3>1. CASE GetRecycled(r)
      BY <3>1, GetRecycledInv
    <3>2. CASE GetNew(r)
      BY <3>2, GetNewInv
    <3>3. CASE \E x \in held[r] : Return(r, x)
      BY <3>3, ReturnInv
    <3> QED
      BY <1>2, <3>1, <3>2, <3>3 DEF Get
  <2>2. \A q \in Ranks : q # r => ExactAt(q)'
    BY <1>2, OtherRanks
  <2> QED
    BY <2>1, <2>2 DEF PoolInv, PoolExact, ExactAt
<1> QED
  BY <1>1, <1>2 DEF Next

\* For every number of ranks and every limit: a pool never loses a number of
\* its range and never hands one out twice (uri_mpi_int_pool_get and
\* uri_mpi_int_pool_return in any order).
THEOREM PoolIsExact == Spec => []PoolExact
<1>1. PoolInv => PoolExact
  BY DEF PoolInv
<1> QED
  BY PoolInit, PoolNext, <1>1, PTL DEF Spec

\* The encoding n * size + rank keeps the numbers of any two ranks apart.
THEOREM RanksAreApart == Spec => []UniqueOverRanks
<1>1. PoolInv => UniqueOverRanks
  <2> SUFFICES ASSUME PoolInv, NEW q \in Ranks, NEW r \in Ranks, q # r,
                      NEW x \in held[q], x \in held[r]
               PROVE  FALSE
    BY DEF UniqueOverRanks
  <2>1. PICK m \in 1 .. max[q] - 1 : x = Encode(q, m)
    BY DEF PoolInv, PoolExact
  <2>2. PICK k \in 1 .. max[r] - 1 : x = Encode(r, k)
    BY DEF PoolInv, PoolExact
  <2>3. m \in Nat /\ k \in Nat
    BY DEF PoolInv, TypeOK
  <2> QED
    BY <2>1, <2>2, <2>3, EncodeRank
<1> QED
  BY PoolInit, PoolNext, <1>1, PTL DEF Spec

\* A get that returns hands out a number that was not in use.
THEOREM GetIsFresh == Spec => FreshGet
<1> DEFINE Fresh == \A r \in Ranks : Get(r) /\ ~halted'[r] =>
                        \E x \in held'[r] : x \notin held[r]
<1>1. PoolInv /\ [Next]_vars => [Fresh]_vars
  <2> SUFFICES ASSUME PoolInv, NEW r \in Ranks, Get(r), ~halted'[r]
               PROVE  \E x \in held'[r] : x \notin held[r]
    OBVIOUS
  <2>1. CASE GetRecycled(r)
    <3>1. recycle[r] \in Seq(Nat) /\ Len(recycle[r]) \in 1 .. Len(recycle[r])
      BY <2>1 DEF PoolInv, TypeOK, GetRecycled
    <3>2. Encode(r, Last(recycle[r])) \notin held[r]
      BY <3>1 DEF PoolInv, PoolExact, Last
    <3>3. held'[r] = held[r] \cup {Encode(r, Last(recycle[r]))}
      BY <2>1 DEF PoolInv, TypeOK, GetRecycled
    <3> QED
      BY <3>2, <3>3
  <2>2. CASE GetNew(r)
    <3>1. held'[r] = held[r] \cup {Encode(r, max[r])} /\ max[r] \in Nat
      BY <2>2 DEF PoolInv, TypeOK, GetNew
    <3>2. Encode(r, max[r]) \notin held[r]
      <4> SUFFICES ASSUME Encode(r, max[r]) \in held[r] PROVE FALSE
        OBVIOUS
      <4>1. PICK n \in 1 .. max[r] - 1 : Encode(r, max[r]) = Encode(r, n)
        BY DEF PoolInv, PoolExact
      <4>2. n \in Nat /\ n # max[r]
        BY <3>1
      <4> QED
        BY <3>1, <4>1, <4>2, EncodeNumber
    <3> QED
      BY <3>1, <3>2
  <2> QED
    BY <2>1, <2>2 DEF Get
<1> QED
  BY PoolInit, PoolNext, <1>1, PTL DEF Spec, FreshGet

\* max, recycle_stack and the numbers in use keep their types.
THEOREM PoolTypes == Spec => []TypeOK
<1>1. PoolInv => TypeOK
  BY DEF PoolInv
<1> QED
  BY PoolInit, PoolNext, <1>1, PTL DEF Spec

-----------------------------------------------------------------------------
(* The limit *)

\* A running rank is below the limit; the assertion fails only in a get that
\* finds an empty stack at the limit.
LimitInv ==
    \A r \in Ranks :
        /\ ~halted[r] => max[r] < Limit
        /\ halted[r] => held[r] = {Encode(r, n) : n \in 1 .. Limit - 2}

LEMMA LimitInit == Init => LimitInv
BY PoolSizes DEF Init, LimitInv

LEMMA LimitNext == PoolInv /\ LimitInv /\ [Next]_vars => LimitInv'
<1> SUFFICES ASSUME PoolInv, LimitInv, [Next]_vars PROVE LimitInv'
  OBVIOUS
<1>1. CASE UNCHANGED vars
  BY <1>1 DEF vars, LimitInv, Encode
<1>2. ASSUME NEW r \in Ranks, GetRecycled(r) \/ \E x \in held[r] : Return(r, x)
      PROVE  LimitInv'
  <2>1. /\ max' = max /\ halted' = halted /\ ~halted[r]
        /\ \A q \in Ranks : q # r => held'[q] = held[q]
    BY <1>2 DEF PoolInv, TypeOK, GetRecycled, Return
  <2> QED
    BY <2>1 DEF LimitInv, Encode
<1>3. ASSUME NEW r \in Ranks, GetNew(r)
      PROVE  LimitInv'
  <2>1. /\ ~halted[r] /\ recycle[r] = <<>> /\ max[r] \in Nat \ {0} /\ max[r] < Limit
        /\ max' = [max EXCEPT ![r] = @ + 1]
        /\ max'[r] = max[r] + 1
    BY <1>3 DEF PoolInv, TypeOK, GetNew, LimitInv
  <2>2. ASSUME NEW q \in Ranks, q # r
        PROVE  max'[q] = max[q] /\ halted'[q] = halted[q] /\ held'[q] = held[q]
    BY <1>3, <2>2 DEF PoolInv, TypeOK, GetNew
  <2>3. CASE max[r] + 1 < Limit
    <3>1. halted' = halted BY <1>3, <2>3 DEF GetNew
    <3> QED BY <2>1, <2>2, <2>3, <3>1 DEF LimitInv, Encode
  <2>4. CASE ~(max[r] + 1 < Limit)
    <3>1. held' = held /\ halted'[r]
      BY <1>3, <2>4 DEF GetNew, PoolInv, TypeOK
    <3>2. max[r] = Limit - 1 BY <2>1, <2>4, PoolSizes
    <3>3. /\ \A x \in held[r] : \E n \in 1 .. max[r] - 1 : x = Encode(r, n)
          /\ \A n \in 1 .. max[r] - 1 : Encode(r, n) \in held[r]
      BY <2>1 DEF PoolInv, PoolExact, OnStack
    <3>4. max[r] - 1 = Limit - 2 BY <3>2, PoolSizes
    <3>5. held'[r] = {Encode(r, n) : n \in 1 .. Limit - 2}
      BY <3>1, <3>3, <3>4
    <3> QED BY <2>2, <3>1, <3>5 DEF LimitInv, Encode
  <2> QED BY <2>3, <2>4
<1> QED
  BY <1>1, <1>2, <1>3 DEF Next, Get

\* uri_mpi_int_pool_get's assertion on 2100000000 / size fails only when every
\* number below the limit is in use: no number leaks in a long run.
THEOREM LimitMeansFull == Spec => []HaltsOnlyWhenFull
<1>1. LimitInv => HaltsOnlyWhenFull
  <2> SUFFICES ASSUME LimitInv, NEW r \in Ranks, halted[r]
               PROVE  Cardinality(held[r]) = Limit - 2
    BY DEF HaltsOnlyWhenFull
  <2> DEFINE f == [n \in 1 .. Limit - 2 |-> Encode(r, n)]
  <2>1. held[r] = {Encode(r, n) : n \in 1 .. Limit - 2}
    BY DEF LimitInv
  <2>2. Limit - 2 \in Nat BY PoolSizes
  <2>3. \A m, n \in 1 .. Limit - 2 : f[m] = f[n] => m = n
    <3> TAKE m, n \in 1 .. Limit - 2
    <3>1. m \in Nat /\ n \in Nat BY <2>2
    <3> QED BY <3>1, EncodeNumber
  <2>4. f \in [1 .. Limit - 2 -> held[r]] /\ \A x \in held[r] : \E n \in 1 .. Limit - 2 : f[n] = x
    BY <2>1
  <2>5. f \in Bijection(1 .. Limit - 2, held[r])
    <3> HIDE DEF f
    <3> QED BY <2>3, <2>4, Fun_IsBij
  <2>6. ExistsBijection(1 .. Limit - 2, held[r])
    BY <2>5, Fun_ExistsBij
  <2> QED BY <2>2, <2>6, FS_CountingElements
<1> QED
  BY PoolInit, PoolNext, LimitInit, LimitNext, <1>1, PTL DEF Spec

-----------------------------------------------------------------------------
(* The request array *)

\* The slots of the array are numbered from 1.
LEMMA SlotsType == /\ MaxEntries \in Nat
                   /\ \A j \in Slots : j \in Int /\ j >= 0 /\ j < MaxEntries
                   /\ \A j \in Nat : j < MaxEntries => j \in Slots
BY QueueBounds DEF Slots

\* The invariant holds when nothing has been appended.
LEMMA QueueInit == ReqInit => QueueInv
<1> SUFFICES ASSUME ReqInit PROVE QueueInv
  OBVIOUS
<1>1. ReqTypeOK
  BY QueueBounds DEF ReqInit, ReqTypeOK, Garbage
<1>2. LockOK /\ IndexOK /\ CopyCurrent /\ ProcessedOnce
  BY QueueBounds DEF ReqInit, LockOK, IndexOK, CopyCurrent, ProcessedOnce, Entries
<1>3. Live = {}
  BY SlotsType DEF ReqInit, Live
<1>4. ArrayExact
  BY <1>3 DEF ArrayExact, ReqInit, Entries
<1> QED
  BY <1>1, <1>2, <1>4 DEF QueueInv

\* ArrayExact depends only on the live slots, their entries, next and done.
LEMMA SameLive ==
    ASSUME ArrayExact, Live' = Live, \A j \in Live : arr'[j] = arr[j],
           next' = next, done' = done
    PROVE  ArrayExact'
BY DEF ArrayExact

\* Taking the lock moves no request.
LEMMA AppLockInv ==
    ASSUME QueueInv, NEW k \in 1 .. MaxBatch, AppLock(k)
    PROVE  QueueInv'
<1>1. Live' = Live
  BY DEF AppLock, dmnVars, Live, Stale
<1>2. ArrayExact'
  BY <1>1, SameLive DEF QueueInv, AppLock, dmnVars
<1>3. k \in Nat /\ next \in Nat /\ k <= MaxEntries /\ MaxEntries \in Nat
  BY QueueBounds DEF QueueInv, ReqTypeOK, AppLock
<1>4. ReqTypeOK'
  BY <1>3 DEF QueueInv, ReqTypeOK, AppLock, dmnVars
<1>5. LockOK' /\ IndexOK' /\ CopyCurrent' /\ ProcessedOnce'
  BY <1>3 DEF QueueInv, LockOK, IndexOK, CopyCurrent, ProcessedOnce, AppLock, dmnVars
<1> QED
  BY <1>2, <1>4, <1>5 DEF QueueInv

\* An append fills the slots behind the tail and registers its own requests.
LEMMA AppPutInv ==
    ASSUME QueueInv, AppPut
    PROVE  QueueInv'
<1>1. /\ tail \in Nat /\ next \in Nat /\ todo \in Nat /\ tailCopy \in Nat /\ MaxEntries \in Nat
      /\ todo > 0 /\ tail < next /\ next >= 1 /\ next + todo <= MaxEntries + 1
      /\ tail < MaxEntries /\ next <= MaxEntries /\ dpc # "compact"
  BY QueueBounds DEF QueueInv, ReqTypeOK, LockOK, IndexOK, AppPut
<1>2. tail \in Slots /\ next \in Entries
  BY <1>1, SlotsType DEF Entries
<1>3. /\ arr' = [arr EXCEPT ![tail] = next] /\ tail' = tail + 1 /\ next' = next + 1
      /\ todo' = todo - 1 /\ lock' = lock /\ dpc' = dpc /\ tailCopy' = tailCopy /\ copy' = copy
      /\ idx' = idx /\ rest' = rest /\ done' = done /\ lock = "app"
  BY DEF AppPut, dmnVars
<1>4. arr'[tail] = next /\ \A j \in Slots : j # tail => arr'[j] = arr[j]
  BY <1>2, <1>3 DEF QueueInv, ReqTypeOK
<1>5. ReqTypeOK'
  BY <1>1, <1>2, <1>3 DEF QueueInv, ReqTypeOK
<1>6. LockOK' /\ IndexOK' /\ ProcessedOnce'
  BY <1>1, <1>3 DEF QueueInv, LockOK, IndexOK, ProcessedOnce, Entries
<1>7. CopyCurrent'
  <2>1. dpc \in {"copy", "test", "process", "remove"} => tailCopy <= tail'
    BY <1>1, <1>3 DEF QueueInv, CopyCurrent
  <2>2. ASSUME dpc \in {"test", "process", "remove"}, NEW j \in Slots, j < tailCopy
        PROVE  copy[j] = arr'[j]
    <3>1. copy[j] = arr[j] /\ tailCopy <= tail /\ j \in Int
      BY <2>2, SlotsType DEF QueueInv, CopyCurrent
    <3> QED
      BY <2>2, <3>1, <1>1, <1>4
  <2> QED
    BY <2>1, <2>2, <1>3 DEF CopyCurrent
<1>8. tail \notin Stale /\ Stale' = Stale
  <2>1. Stale' = Stale
    BY <1>3 DEF Stale
  <2>2. dpc \in {"process", "remove"} => tail \notin idx
    BY <1>1 DEF QueueInv, IndexOK, CopyCurrent
  <2> QED
    BY <2>1, <2>2, <1>1 DEF Stale
<1>9. Live' = Live \cup {tail} /\ tail \notin Live
  <2>1. {j \in Slots : j < tail + 1} = {j \in Slots : j < tail} \cup {tail}
    <3>1. \A j \in Slots : j < tail + 1 <=> j < tail \/ j = tail
      BY <1>1, SlotsType
    <3>2. tail < tail + 1
      BY <1>1
    <3> QED
      BY <3>1, <3>2, <1>2
  <2> QED
    BY <2>1, <1>1, <1>3, <1>8 DEF Live
<1>10. Live \subseteq Slots
  BY DEF Live
<1>11. ArrayExact'
  <2> USE DEF QueueInv
  <2>1. \A j \in Live : arr'[j] = arr[j] /\ arr[j] # Garbage /\ arr[j] # next
    <3> TAKE j \in Live
    <3>1. arr'[j] = arr[j]
      BY <1>4, <1>9, <1>10
    <3>2. arr[j] # Garbage
      BY DEF ArrayExact
    <3>3. arr[j] = next => next < next
      BY <1>2 DEF ArrayExact
    <3> QED
      BY <3>1, <3>2, <3>3, <1>1
  <2>2. \A j \in Live' : arr'[j] # Garbage
    BY <2>1, <1>1, <1>4, <1>9 DEF Garbage
  <2>3. \A j, k \in Live' : arr'[j] = arr'[k] => j = k
    BY <2>1, <1>4, <1>9 DEF ArrayExact
  <2>4. ASSUME NEW e \in Entries
        PROVE  (\E j \in Live' : arr'[j] = e) <=> e < next' /\ done'[e] = 0
    <3>1. CASE e = next
      <4>1. done[e] = 0
        BY <3>1, <1>1 DEF IndexOK
      <4> QED
        BY <3>1, <4>1, <1>1, <1>3, <1>4, <1>9
    <3>2. CASE e # next
      <4>1. e < next' <=> e < next
        BY <3>2, <1>1, <1>3 DEF Entries
      <4>2. (\E j \in Live' : arr'[j] = e) <=> (\E j \in Live : arr[j] = e)
        BY <3>2, <2>1, <1>4, <1>9
      <4> QED
        BY <4>1, <4>2, <1>3 DEF ArrayExact
    <3> QED
      BY <3>1, <3>2
  <2> QED
    BY <2>2, <2>3, <2>4 DEF ArrayExact
<1> QED
  BY <1>5, <1>6, <1>7, <1>11 DEF QueueInv

\* Leaving the lock after an append moves no request.
LEMMA AppUnlockInv ==
    ASSUME QueueInv, AppUnlock
    PROVE  QueueInv'
<1>1. Live' = Live
  BY DEF AppUnlock, dmnVars, Live, Stale
<1>2. ArrayExact'
  BY <1>1, SameLive DEF QueueInv, AppUnlock, appVars, dmnVars
<1>3. ReqTypeOK'
  BY DEF QueueInv, ReqTypeOK, AppUnlock, appVars, dmnVars
<1>4. LockOK' /\ IndexOK' /\ CopyCurrent' /\ ProcessedOnce'
  BY DEF QueueInv, LockOK, IndexOK, CopyCurrent, ProcessedOnce, AppUnlock, appVars, dmnVars
<1> QED
  BY <1>2, <1>3, <1>4 DEF QueueInv

\* The daemon reads a tail that can only grow until it takes the lock.
LEMMA ReadTailInv ==
    ASSUME QueueInv, ReadTail
    PROVE  QueueInv'
<1>1. Live' = Live
  BY DEF ReadTail, Live, Stale
<1>2. ArrayExact'
  BY <1>1, SameLive DEF QueueInv, ReadTail, appVars
<1>3. ReqTypeOK'
  BY DEF QueueInv, ReqTypeOK, ReadTail, appVars
<1>4. LockOK' /\ IndexOK' /\ ProcessedOnce'
  BY DEF QueueInv, LockOK, IndexOK, ProcessedOnce, ReadTail, appVars
<1>5. CopyCurrent'
  BY DEF QueueInv, ReqTypeOK, CopyCurrent, ReadTail
<1> QED
  BY <1>2, <1>3, <1>4, <1>5 DEF QueueInv

\* The copy equals the front of the array.
LEMMA CopyInv ==
    ASSUME QueueInv, Copy
    PROVE  QueueInv'
<1>1. Live' = Live
  BY DEF Copy, Live, Stale
<1>2. ArrayExact'
  BY <1>1, SameLive DEF QueueInv, Copy, appVars
<1>3. copy' \in [Slots -> Entries \cup {Garbage}]
  BY DEF QueueInv, ReqTypeOK, Copy
<1>4. ReqTypeOK'
  BY <1>3 DEF QueueInv, ReqTypeOK, Copy, appVars
<1>5. LockOK' /\ IndexOK' /\ ProcessedOnce'
  BY DEF QueueInv, LockOK, IndexOK, ProcessedOnce, Copy, appVars
<1>6. CopyCurrent'
  BY DEF QueueInv, CopyCurrent, Copy
<1> QED
  BY <1>2, <1>4, <1>5, <1>6 DEF QueueInv

\* A test processes requests of the copy that were not processed before.
LEMMA TestSomeInv ==
    ASSUME QueueInv, NEW S \in SUBSET {j \in Slots : j < tailCopy}, TestSome(S)
    PROVE  QueueInv'
<1>1. Live' = Live
  BY DEF TestSome, Live, Stale
<1>2. ArrayExact'
  BY <1>1, SameLive DEF QueueInv, TestSome, appVars
<1>3. ReqTypeOK'
  BY DEF QueueInv, ReqTypeOK, TestSome, appVars
<1>4. LockOK' /\ IndexOK' /\ ProcessedOnce' /\ CopyCurrent'
  BY DEF QueueInv, LockOK, IndexOK, ProcessedOnce, CopyCurrent, TestSome, appVars
<1> QED
  BY <1>2, <1>3, <1>4 DEF QueueInv

\* The processed slot leaves the live ones and its entry becomes done.
LEMMA ProcessInv ==
    ASSUME QueueInv, NEW j \in Slots, Process(j)
    PROVE  QueueInv'
<1>1. /\ dpc = "process" /\ j \in rest /\ rest \subseteq idx /\ j < tailCopy /\ tailCopy <= tail
      /\ copy[j] = arr[j] /\ j \in Int /\ tailCopy \in Int /\ tail \in Int /\ j \in idx
  BY SlotsType DEF QueueInv, ReqTypeOK, IndexOK, CopyCurrent, Process
<1>2. /\ arr' = arr /\ tail' = tail /\ lock' = lock /\ next' = next /\ todo' = todo
      /\ tailCopy' = tailCopy /\ copy' = copy /\ idx' = idx /\ rest' = rest \ {j}
      /\ dpc' = IF rest' = {} THEN "remove" ELSE "process"
      /\ done' = [done EXCEPT ![copy[j]] = @ + 1]
  BY DEF Process, appVars
<1>3. j \in Live
  BY <1>1 DEF Live, Stale
<1>4. /\ arr[j] \in Entries /\ arr[j] < next /\ done[arr[j]] = 0
  BY <1>3 DEF QueueInv, ReqTypeOK, ArrayExact
<1>5. /\ done'[arr[j]] = 1 /\ done' \in [Entries -> Nat]
      /\ \A e \in Entries : e # arr[j] => done'[e] = done[e]
  BY <1>1, <1>2, <1>4 DEF QueueInv, ReqTypeOK
<1>6. Live' = Live \ {j}
  <2>1. Stale = idx \ rest /\ Stale' = idx \ (rest \ {j})
    BY <1>1, <1>2 DEF Stale
  <2> QED
    BY <2>1, <1>1, <1>2 DEF Live
<1>7. ArrayExact'
  <2>1. /\ \A k \in Live' : arr'[k] # Garbage
        /\ \A k, l \in Live' : arr'[k] = arr'[l] => k = l
    BY <1>2, <1>6 DEF QueueInv, ArrayExact
  <2>2. ASSUME NEW e \in Entries
        PROVE  (\E k \in Live' : arr'[k] = e) <=> e < next' /\ done'[e] = 0
    <3>1. CASE e = arr[j]
      <4>1. \A k \in Live' : arr'[k] # e
        BY <3>1, <1>2, <1>3, <1>6 DEF QueueInv, ArrayExact
      <4> QED
        BY <3>1, <4>1, <1>5
    <3>2. CASE e # arr[j]
      <4>1. (\E k \in Live' : arr'[k] = e) <=> (\E k \in Live : arr[k] = e)
        BY <3>2, <1>2, <1>6
      <4> QED
        BY <3>2, <4>1, <1>2, <1>5 DEF QueueInv, ArrayExact
    <3> QED
      BY <3>1, <3>2
  <2> QED
    BY <2>1, <2>2 DEF ArrayExact
<1>8. ReqTypeOK'
  BY <1>2, <1>5 DEF QueueInv, ReqTypeOK
<1>9. ProcessedOnce'
  BY <1>5 DEF QueueInv, ProcessedOnce
<1>10. LockOK' /\ CopyCurrent'
  BY <1>1, <1>2 DEF QueueInv, LockOK, CopyCurrent
<1>11. IndexOK'
  <2>1. \A e \in Entries : e >= next' => done'[e] = 0
    <3> TAKE e \in Entries
    <3>1. e >= next => e # arr[j]
      BY <1>4 DEF QueueInv, ReqTypeOK, Entries
    <3> QED
      BY <3>1, <1>2, <1>5 DEF QueueInv, IndexOK
  <2> QED
    BY <2>1, <1>1, <1>2 DEF QueueInv, IndexOK
<1> QED
  BY <1>7, <1>8, <1>9, <1>10, <1>11 DEF QueueInv

\* The compaction starts with nothing moved.
LEMMA RemoveLockInv ==
    ASSUME QueueInv, RemoveLock
    PROVE  QueueInv'
<1>1. Live' = Live
  BY DEF RemoveLock, Live, Stale
<1>2. ArrayExact'
  BY <1>1, SameLive DEF QueueInv, RemoveLock, appVars
<1>3. ReqTypeOK'
  BY DEF QueueInv, ReqTypeOK, RemoveLock, appVars
<1>4. LockOK' /\ ProcessedOnce' /\ CopyCurrent'
  BY DEF QueueInv, LockOK, ProcessedOnce, CopyCurrent, RemoveLock, appVars
<1>5. \A j \in idx : j < tail
  <2> TAKE j \in idx
  <2>1. j < tailCopy /\ tailCopy <= tail /\ j \in Slots
    BY DEF QueueInv, ReqTypeOK, IndexOK, CopyCurrent, RemoveLock
  <2> QED
    BY <2>1, SlotsType DEF QueueInv, ReqTypeOK
<1>6. IndexOK'
  BY <1>5 DEF QueueInv, IndexOK, RemoveLock, appVars
<1> QED
  BY <1>2, <1>3, <1>4, <1>6 DEF QueueInv

\* One turn of the compaction drops a processed request or moves one that is not.
LEMMA DropInv ==
    ASSUME QueueInv, Drop
    PROVE  QueueInv'
<1>1. tail - 1 \in Slots /\ tail - 1 \in rest /\ tail - 1 \in Nat /\ tail \in Nat /\ tail > 0
  BY SlotsType DEF QueueInv, ReqTypeOK, Drop
<1>2. /\ arr' = arr /\ tail' = tail - 1 /\ lock' = lock /\ next' = next /\ todo' = todo
      /\ dpc = "compact" /\ dpc' = dpc /\ tailCopy' = tailCopy /\ copy' = copy /\ idx' = idx
      /\ rest' = rest \ {tail - 1} /\ done' = done
  BY DEF Drop, appVars
<1>3. Live' = Live
  <2>1. {j \in Slots : j < tail - 1} = {j \in Slots : j < tail} \ {tail - 1}
    BY <1>1, SlotsType
  <2> QED
    BY <2>1, <1>1, <1>2 DEF Live, Stale
<1>4. ArrayExact'
  BY <1>2, <1>3, SameLive DEF QueueInv
<1>5. ReqTypeOK'
  <2>1. tail - 1 \in 0 .. MaxEntries
    BY <1>1, QueueBounds DEF QueueInv, ReqTypeOK
  <2> QED
    BY <2>1, <1>2 DEF QueueInv, ReqTypeOK
<1>6. LockOK' /\ ProcessedOnce' /\ CopyCurrent'
  BY <1>2 DEF QueueInv, LockOK, ProcessedOnce, CopyCurrent
<1>7. \A j \in rest' : j < tail'
  <2> TAKE j \in rest'
  <2>1. j \in Slots /\ j < tail /\ j # tail - 1
    BY <1>2 DEF QueueInv, ReqTypeOK, IndexOK
  <2> QED
    BY <2>1, <1>1, <1>2, SlotsType
<1>8. tail' < next'
  BY <1>1, <1>2 DEF QueueInv, ReqTypeOK, IndexOK
<1>9. IndexOK'
  BY <1>2, <1>7, <1>8 DEF QueueInv, IndexOK
<1> QED
  BY <1>4, <1>5, <1>6, <1>9 DEF QueueInv

\* The moved entry takes the place of a stale one.
LEMMA MoveInv ==
    ASSUME QueueInv, NEW j \in Slots, Move(j)
    PROVE  QueueInv'
<1>1. j \in rest /\ tail - 1 \notin rest /\ j \in Nat /\ tail \in Nat /\ j < tail - 1
  <2>1. j \in rest /\ tail - 1 \notin rest /\ j < tail /\ j # tail - 1
    BY DEF QueueInv, IndexOK, Move
  <2> QED
    BY <2>1, SlotsType DEF QueueInv, ReqTypeOK
<1>2. /\ arr' = [arr EXCEPT ![j] = arr[tail - 1]] /\ tail' = tail - 1 /\ lock' = lock
      /\ next' = next /\ todo' = todo
      /\ dpc = "compact" /\ dpc' = dpc /\ tailCopy' = tailCopy /\ copy' = copy /\ idx' = idx
      /\ rest' = rest \ {j} /\ done' = done
  BY DEF Move, appVars
<1>3. tail - 1 \in Slots /\ tail - 1 \in Nat
  BY <1>1, SlotsType DEF QueueInv, ReqTypeOK
<1>4. arr'[j] = arr[tail - 1] /\ \A k \in Slots : k # j => arr'[k] = arr[k]
  BY <1>2 DEF QueueInv, ReqTypeOK
<1>5. Live' = (Live \ {tail - 1}) \cup {j} /\ j \notin Live /\ tail - 1 \in Live
  <2>1. {k \in Slots : k < tail - 1} = {k \in Slots : k < tail} \ {tail - 1}
    <3>1. \A k \in Slots : k < tail - 1 <=> k < tail /\ k # tail - 1
      BY <1>1, <1>3, SlotsType
    <3> QED
      BY <3>1
  <2>2. Stale = rest /\ Stale' = rest \ {j}
    BY <1>2 DEF Stale
  <2>3. j \in {k \in Slots : k < tail - 1} /\ tail - 1 \in {k \in Slots : k < tail}
    BY <1>1, <1>3
  <2> QED
    BY <2>1, <2>2, <2>3, <1>1, <1>2 DEF Live
<1>6. Live \subseteq Slots
  BY DEF Live
<1>7. ArrayExact'
  <2>1. \A k \in Live' : arr'[k] # Garbage
    BY <1>4, <1>5, <1>6 DEF QueueInv, ArrayExact
  <2>2. \A k, l \in Live' : arr'[k] = arr'[l] => k = l
    BY <1>4, <1>5, <1>6 DEF QueueInv, ArrayExact
  <2>3. \A e \in Entries : (\E k \in Live' : arr'[k] = e) <=> (\E k \in Live : arr[k] = e)
    BY <1>4, <1>5, <1>6
  <2> QED
    BY <2>1, <2>2, <2>3, <1>2 DEF QueueInv, ArrayExact
<1>8. ReqTypeOK'
  <2>1. arr' \in [Slots -> Entries \cup {Garbage}]
    BY <1>2, <1>3 DEF QueueInv, ReqTypeOK
  <2>2. tail - 1 \in 0 .. MaxEntries
    BY <1>1, <1>3, QueueBounds DEF QueueInv, ReqTypeOK
  <2> QED
    BY <2>1, <2>2, <1>2 DEF QueueInv, ReqTypeOK
<1>9. LockOK' /\ ProcessedOnce' /\ CopyCurrent'
  BY <1>2 DEF QueueInv, LockOK, ProcessedOnce, CopyCurrent
<1>10. \A k \in rest' : k < tail'
  <2> TAKE k \in rest'
  <2>1. k \in Slots /\ k < tail /\ k # tail - 1
    BY <1>1, <1>2 DEF QueueInv, ReqTypeOK, IndexOK
  <2> QED
    BY <2>1, <1>1, <1>2, SlotsType
<1>11. tail' < next'
  BY <1>1, <1>2 DEF QueueInv, ReqTypeOK, IndexOK
<1>12. IndexOK'
  BY <1>2, <1>10, <1>11 DEF QueueInv, IndexOK
<1> QED
  BY <1>7, <1>8, <1>9, <1>12 DEF QueueInv

\* The compaction ends with the unprocessed requests at the front.
LEMMA RemoveUnlockInv ==
    ASSUME QueueInv, RemoveUnlock
    PROVE  QueueInv'
<1>1. Live' = Live
  BY DEF RemoveUnlock, Live, Stale
<1>2. ArrayExact'
  BY <1>1, SameLive DEF QueueInv, RemoveUnlock, appVars
<1>3. ReqTypeOK'
  BY DEF QueueInv, ReqTypeOK, RemoveUnlock, appVars
<1>4. LockOK' /\ IndexOK' /\ ProcessedOnce' /\ CopyCurrent'
  BY DEF QueueInv, LockOK, IndexOK, ProcessedOnce, CopyCurrent, RemoveUnlock, appVars
<1> QED
  BY <1>2, <1>3, <1>4 DEF QueueInv

\* Every step keeps the invariant.
LEMMA QueueNext == QueueInv /\ [ReqNext]_reqVars => QueueInv'
<1> SUFFICES ASSUME QueueInv, [ReqNext]_reqVars PROVE QueueInv'
  OBVIOUS
<1>1. CASE UNCHANGED reqVars
  BY <1>1 DEF reqVars, appVars, dmnVars, QueueInv, ReqTypeOK, LockOK, IndexOK, CopyCurrent,
              ArrayExact, ProcessedOnce, Live, Stale
<1>2. CASE ReqAppend
  BY <1>2, AppLockInv, AppPutInv, AppUnlockInv DEF ReqAppend
<1>3. CASE Daemon
  BY <1>3, ReadTailInv, CopyInv, TestSomeInv, ProcessInv, RemoveLockInv, DropInv,
     MoveInv, RemoveUnlockInv DEF Daemon
<1> QED
  BY <1>1, <1>2, <1>3 DEF ReqNext

\* The inductive invariant of the request array (uri_mpi_req_que_app, uri_mpi_channel_daemon).
THEOREM QueueInvariant == ReqSpec => []QueueInv
BY QueueInit, QueueNext, PTL DEF ReqSpec

\* No request is lost or duplicated by the unlocked length, the copy and the
\* compaction of uri_mpi_channel_daemon, for any number of requests.
THEOREM RequestsAreKept == ReqSpec => []ArrayExact
<1>1. QueueInv => ArrayExact
  BY DEF QueueInv
<1> QED
  BY QueueInvariant, <1>1, PTL

\* The daemon processes the completion of a request at most once.
THEOREM NothingTwice == ReqSpec => []ProcessedOnce
<1>1. QueueInv => ProcessedOnce
  BY DEF QueueInv
<1> QED
  BY QueueInvariant, <1>1, PTL

\* Both together: every request stays in the array until the daemon has
\* processed it, and is processed once.
THEOREM RequestsAreExact == ReqSpec => []RequestsExact
<1>1. QueueInv => RequestsExact
  BY DEF QueueInv, RequestsExact
<1> QED
  BY QueueInvariant, <1>1, PTL
=============================================================================
