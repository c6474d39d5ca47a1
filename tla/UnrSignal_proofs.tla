--------------------------- MODULE UnrSignal_proofs ---------------------------
(***************************************************************************)
(* Proofs about UnrSignal, for any number of signals, messages and         *)
(* channels: the counter is zero only when every part of every expected    *)
(* message has been applied, a re-arm never loses an event, a pooled       *)
(* signal at zero is reported once, and on a single channel no assertion   *)
(* of the event path fails.                                                *)
(***************************************************************************)
EXTENDS UnrSignal, FiniteSetTheorems, TLAPS

\* The parts, and so every set of parts under way, are finite in number.
LEMMA PartsFinite ==
    ASSUME TypeOK
    PROVE  /\ IsFiniteSet(Parts)
           /\ \A S \in SUBSET Parts : IsFiniteSet(S) /\ Cardinality(S) \in Nat
           /\ \A s : /\ Firsts(s) \subseteq Parts
                     /\ Others(s) \subseteq Parts
                     /\ Owed(s) \subseteq Parts
<1>1. IsFiniteSet(1 .. NumChannels)
  BY FS_Interval, SizeAssumption
<1>2. IsFiniteSet(Parts)
  BY <1>1, FS_Product, SizeAssumption DEF Parts
<1>3. \A S \in SUBSET Parts : IsFiniteSet(S) /\ Cardinality(S) \in Nat
  BY <1>2, FS_Subset, FS_CardinalityType
<1>4. \A s : Firsts(s) \subseteq Parts /\ Others(s) \subseteq Parts /\ Owed(s) \subseteq Parts
  BY DEF TypeOK, Firsts, Others, Owed
<1> QED BY <1>2, <1>3, <1>4

\* A counter below one unit of the high word is zero only with both words
\* zero.
LEMMA WordsZero ==
    ASSUME NEW a \in Nat, NEW b \in Int, a < W, a + W * b = 0
    PROVE  a = 0 /\ b = 0
<1>0. W \in Nat
  BY WordAssumption
<1>1. b >= 1 => W * b >= W
  BY <1>0
<1>2. b <= -1 => W * b <= -W
  BY <1>0
<1>3. b = 0 => W * b = 0
  BY <1>0
<1> QED BY <1>0, <1>1, <1>2, <1>3

\* What the parts under way say about a counter that reads zero.
LEMMA ZeroComplete ==
    ASSUME SignalInv, NEW s \in created, counter[s] = 0
    PROVE  Complete(s)
<1> USE DEF SignalInv
<1> DEFINE F == Cardinality(Firsts(s))
           O == Cardinality(Others(s))
           E == Cardinality(Owed(s))
<1>1. F \in Nat /\ O \in Nat /\ E \in Nat
  BY PartsFinite
<1>2. left[s] \in Nat /\ NumEvent[s] \in Nat /\ 2 * NumEvent[s] < W /\ W \in Nat
  BY WordAssumption DEF TypeOK
<1>3. F = 0 => E = 0
  <2>1. Firsts(s) = {} => Owed(s) = {}
    BY DEF Firsts, Owed
  <2> QED BY <2>1, PartsFinite, FS_EmptySet
<1>4. counter[s] + Carried(s) = left[s] + F + W * (O - E)
  BY DEF CounterExact
<1> HIDE DEF F, O, E
<1>5. ASSUME dpc = "store", dsig = s  PROVE FALSE
  <2>1. CASE dadd = -W
    <3>1. left[s] + F + W * (O - E + 1) = 0
      <4>1. W * (O - E + 1) = W * (O - E) + W
        BY <1>1, <1>2
      <4> QED BY <1>4, <1>5, <2>1, <4>1, <1>1, <1>2 DEF Carried
    <3>2. left[s] + F <= NumEvent[s]
      BY <1>5, <2>1, <1>1, <1>2 DEF Budget, CarriesFirst, F
    <3>3. left[s] + F = 0 /\ O - E + 1 = 0
      BY <3>1, <3>2, <1>1, <1>2, WordsZero
    <3> QED BY <3>3, <1>3, <1>1, <1>2
  <2>2. CASE dadd # -W
    <3>1. PICK k \in 0 .. NumChannels - 1 : dadd = -1 + W * k
      BY <1>5, <2>2 DEF DaemonOK
    <3> k \in Int
      BY SizeAssumption
    <3>2. left[s] + F + 1 + W * (O - E - k) = 0
      <4>1. W * (O - E - k) = W * (O - E) - W * k
        BY <1>1, <1>2
      <4>2. 0 + (-1 + W * k) = left[s] + F + W * (O - E)
        BY <1>4, <1>5, <3>1 DEF Carried
      <4>3. W * k \in Int /\ W * (O - E) \in Int
        BY <1>1, <1>2
      <4> QED BY <4>1, <4>2, <4>3, <1>1, <1>2
    <3>3. left[s] + F + 1 <= NumEvent[s]
      BY <1>5, <2>2, <1>1, <1>2 DEF Budget, CarriesFirst, F
    <3>4. left[s] + F + 1 = 0
      <4>1. left[s] + F + 1 \in Nat /\ left[s] + F + 1 < W /\ O - E - k \in Int
        BY <3>3, <1>1, <1>2
      <4> QED BY <4>1, <3>2, WordsZero
    <3> QED BY <3>4, <1>1, <1>2
  <2> QED BY <2>1, <2>2
<1>6. left[s] + F = 0 /\ O - E = 0
  <2>1. left[s] + F + W * (O - E) = 0
    BY <1>4, <1>5, <1>1, <1>2 DEF Carried
  <2>2. left[s] + F <= NumEvent[s]
    BY <1>5, <1>1, <1>2 DEF Budget, CarriesFirst, F
  <2>3. left[s] + F \in Nat /\ left[s] + F < W /\ O - E \in Int
    BY <2>2, <1>1, <1>2
  <2> QED BY <2>1, <2>3, WordsZero
<1>7. Firsts(s) = {} /\ Others(s) = {}
  <2>1. F = 0 /\ O = 0
    BY <1>6, <1>3, <1>1, <1>2
  <2> QED BY <2>1, PartsFinite, FS_EmptySet DEF F, O
<1>8. \A p \in pending : dest[p[1]].sig # s
  BY <1>7 DEF Firsts, Others
<1> QED BY <1>5, <1>6, <1>8, <1>1, <1>2 DEF Complete

-----------------------------------------------------------------------------
(* The initial states *)

\* The invariant holds initially.
LEMMA InitInv == Init => SignalInv
<1> SUFFICES ASSUME Init PROVE SignalInv
  OBVIOUS
<1>1. TypeOK
  BY SizeAssumption, PoolAssumption DEF Init, TypeOK, Parts
<1>2. PartsOK /\ CounterExact /\ Budget /\ DaemonOK /\ UserOK
  BY DEF Init, PartsOK, CounterExact, Budget, DaemonOK, UserOK
<1>3. ReportsOK
  BY DEF Init, ReportsOK, InItems
<1>4. PoolOK
  BY PoolAssumption DEF Init, PoolOK, Pooled
<1> QED BY <1>1, <1>2, <1>3, <1>4 DEF SignalInv

\* The sets of parts depend on the messages only.
LEMMA SameSets ==
    ASSUME UNCHANGED <<dest, pending>>
    PROVE  \A s : Firsts(s)' = Firsts(s) /\ Others(s)' = Others(s) /\ Owed(s)' = Owed(s)
BY DEF Firsts, Others, Owed

\* Entries of the ring name members of the pool.
LEMMA ItemsInPool ==
    ASSUME TypeOK
    PROVE  \A k \in 1 .. Len(items) :
             /\ items[k] \in 0 .. Len(PoolSeq) - 1
             /\ PoolSeq[items[k] + 1] \in Sigs
             /\ PoolSeq[items[k] + 1] \in Pooled
<1> SUFFICES ASSUME NEW k \in 1 .. Len(items)
             PROVE  /\ items[k] \in 0 .. Len(PoolSeq) - 1
                    /\ PoolSeq[items[k] + 1] \in Sigs
                    /\ PoolSeq[items[k] + 1] \in Pooled
  OBVIOUS
<1>1. items[k] \in 0 .. Len(PoolSeq) - 1
  BY DEF TypeOK
<1>2. items[k] + 1 \in 1 .. Len(PoolSeq)
  BY <1>1, PoolAssumption
<1> QED BY <1>1, <1>2, PoolAssumption DEF Pooled

\* Only a signal under way to its last event can be in the daemon's hands
\* while another thread has it at zero.
LEMMA ZeroNotInStore ==
    ASSUME SignalInv, NEW s \in created, counter[s] = 0
    PROVE  ~(dpc = "store" /\ dsig = s)
BY ZeroComplete DEF Complete

-----------------------------------------------------------------------------
(* A message is started *)

\* What starting a plan does to the messages and parts of each signal.
LEMMA PlanStartSets ==
    ASSUME SignalInv, NEW m \in Msgs, NEW s \in Sigs, NEW num \in 1 .. NumChannels,
           PlanStart(m, s, num), NEW t \in Sigs
    PROVE  /\ Cardinality(Firsts(t))' = Cardinality(Firsts(t)) + (IF t = s THEN 1 ELSE 0)
           /\ Cardinality(Others(t))' - Cardinality(Owed(t))'
                = Cardinality(Others(t)) - Cardinality(Owed(t))
<1> DEFINE D == {m} \X (2 .. num)
<1>0. /\ num \in Nat \ {0} /\ num <= NumChannels /\ NumChannels \in Nat
      /\ pending \subseteq Parts /\ m \in DOMAIN dest
  BY SizeAssumption, SMTT(30) DEF SignalInv, TypeOK
<1>1. /\ \A j \in 1 .. NumChannels : <<m, j>> \notin pending
      /\ \A n \in Msgs : dest'[n] = IF n = m THEN [sig |-> s, num |-> num] ELSE dest[n]
      /\ pending' = pending \cup {<<m, j>> : j \in 1 .. num}
  BY DEF PlanStart, SignalInv, TypeOK
<1>2. \A p \in pending : p[1] \in Msgs /\ p[2] \in 1 .. NumChannels /\ p = <<p[1], p[2]>> /\ p[1] # m
  BY <1>0, <1>1 DEF Parts
<1>3. pending' = pending \cup {<<m, 1>>} \cup D
  BY <1>0, <1>1
<1>4. IsFiniteSet(D) /\ D \subseteq Parts
  <2>1. IsFiniteSet({m})
    BY FS_Singleton
  <2>2. IsFiniteSet(2 .. num)
    <3>1. 2 \in Int /\ num \in Int
      BY <1>0
    <3> QED BY <3>1, FS_Interval
  <2> QED BY <2>1, <2>2, FS_Product, <1>0 DEF Parts
<1>5. \A S \in SUBSET Parts : IsFiniteSet(S) /\ Cardinality(S) \in Nat
  BY PartsFinite DEF SignalInv
<1>6. Firsts(t) \subseteq Parts /\ Others(t) \subseteq Parts /\ Owed(t) \subseteq Parts
  BY PartsFinite DEF SignalInv
<1>7. \A p \in D : p[1] = m /\ p[2] \in 2 .. num /\ p \in Parts
  BY <1>0 DEF Parts
<1>8. CASE t = s
  <2>1. Firsts(t)' = Firsts(t) \cup {<<m, 1>>}
    BY <1>1, <1>2, <1>3, <1>7, <1>8, <1>0 DEF Firsts
  <2>2. Others(t)' = Others(t) \cup D
    BY <1>1, <1>2, <1>3, <1>7, <1>8, <1>0 DEF Others
  <2>3. Owed(t)' = Owed(t) \cup D
    <3>1. ASSUME NEW p \in Parts PROVE p \in Owed(t)' <=> p \in Owed(t) \cup D
      <4>1. p[1] \in Msgs /\ p[2] \in 1 .. NumChannels /\ p = <<p[1], p[2]>>
        BY DEF Parts
      <4>2. CASE p[1] = m
        <5>1. p \in Owed(t)' <=> p[2] # 1 /\ p[2] <= num
          BY <4>1, <4>2, <1>1, <1>3, <1>8 DEF Owed
        <5>2. p \in D <=> p[2] # 1 /\ p[2] <= num
          BY <4>1, <4>2, <1>0
        <5>3. p \notin Owed(t)
          BY <4>2, <1>1, <1>0 DEF Owed
        <5> QED BY <5>1, <5>2, <5>3
      <4>3. CASE p[1] # m
        <5>1. <<p[1], 1>> \in pending' <=> <<p[1], 1>> \in pending
          BY <4>1, <4>3, <1>3
        <5>2. p \notin D
          BY <4>3
        <5> QED BY <4>1, <4>3, <5>1, <5>2, <1>1 DEF Owed
      <4> QED BY <4>2, <4>3
    <3>2. Owed(t)' \subseteq Parts
      BY DEF Owed
    <3> QED BY <3>1, <3>2, <1>4, <1>6
  <2>4. <<m, 1>> \notin Firsts(t) /\ Others(t) \cap D = {} /\ Owed(t) \cap D = {}
    <3>1. <<m, 1>> \notin pending
      BY <1>1, <1>0
    <3> QED BY <3>1, <1>2, <1>7 DEF Firsts, Others, Owed
  <2>5. Cardinality(Firsts(t) \cup {<<m, 1>>}) = Cardinality(Firsts(t)) + 1
    BY <2>4, <1>5, <1>6, FS_AddElement
  <2>6. /\ Cardinality(Others(t) \cup D) = Cardinality(Others(t)) + Cardinality(D)
        /\ Cardinality(Owed(t) \cup D) = Cardinality(Owed(t)) + Cardinality(D)
    <3> HIDE DEF D
    <3>1. /\ Cardinality(Others(t) \cup D) = Cardinality(Others(t)) + Cardinality(D) - Cardinality(Others(t) \cap D)
          /\ Cardinality(Owed(t) \cup D) = Cardinality(Owed(t)) + Cardinality(D) - Cardinality(Owed(t) \cap D)
      BY <1>4, <1>5, <1>6, FS_Union
    <3> QED BY <3>1, <2>4, <1>4, <1>5, <1>6, FS_EmptySet
  <2> QED BY <2>1, <2>2, <2>3, <2>5, <2>6, <1>4, <1>5, <1>6, <1>8
<1>9. CASE t # s
  <2>1. Firsts(t)' = Firsts(t) /\ Others(t)' = Others(t)
    BY <1>1, <1>2, <1>3, <1>7, <1>9, <1>0 DEF Firsts, Others
  <2>2. Owed(t)' = Owed(t)
    <3>1. ASSUME NEW p \in Parts PROVE p \in Owed(t)' <=> p \in Owed(t)
      <4>1. p[1] \in Msgs
        BY DEF Parts
      <4>2. CASE p[1] = m
        BY <4>1, <4>2, <1>1, <1>0, <1>9 DEF Owed
      <4>3. CASE p[1] # m
        <5>1. <<p[1], 1>> \in pending' <=> <<p[1], 1>> \in pending
          BY <4>1, <4>3, <1>3
        <5> QED BY <4>1, <4>3, <5>1, <1>1 DEF Owed
      <4> QED BY <4>2, <4>3
    <3> QED BY <3>1 DEF Owed
  <2> QED BY <2>1, <2>2, <1>5, <1>6, <1>9
<1> QED BY <1>8, <1>9

\* Starting a plan announces parts that the counters still expect.
LEMMA PlanStartInv ==
    ASSUME SignalInv, NEW m \in Msgs, NEW s \in Sigs, NEW num \in 1 .. NumChannels,
           PlanStart(m, s, num)
    PROVE  SignalInv'
<1> USE DEF SignalInv
<1>0. num \in Nat /\ NumChannels \in Nat
  BY SizeAssumption
<1>1. TypeOK'
  <2>1. pending' \subseteq Parts
    BY <1>0, SMTT(30) DEF PlanStart, TypeOK, Parts
  <2>2. dest' \in [Msgs -> [sig : Sigs \cup {NoSig}, num : 0 .. NumChannels]]
    BY <1>0 DEF PlanStart, TypeOK
  <2>3. left' \in [Sigs -> Nat]
    BY DEF PlanStart, TypeOK
  <2> QED BY <2>1, <2>2, <2>3 DEF PlanStart, TypeOK, sigVars, dmnVars, usrVars
<1>2. PartsOK'
  <2> SUFFICES ASSUME NEW p \in pending'
               PROVE  dest'[p[1]].sig \in created /\ p[2] <= dest'[p[1]].num
    BY DEF PartsOK, PlanStart, sigVars
  <2>1. CASE p \in pending
    <3>1. p[1] # m /\ p[1] \in Msgs
      BY <2>1 DEF PlanStart, TypeOK, Parts
    <3> QED BY <2>1, <3>1 DEF PlanStart, TypeOK, PartsOK
  <2>2. CASE p \notin pending
    BY <2>2, <1>0, SMTT(30) DEF PlanStart, TypeOK
  <2> QED BY <2>1, <2>2
<1>3. CounterExact' /\ Budget'
  <2> SUFFICES ASSUME NEW t \in created
               PROVE  /\ counter[t] + Carried(t) =
                            left'[t] + Cardinality(Firsts(t))'
                            + W * (Cardinality(Others(t))' - Cardinality(Owed(t))')
                      /\ left'[t] + Cardinality(Firsts(t))' + (IF CarriesFirst(t) THEN 1 ELSE 0)
                            <= NumEvent[t]
    BY DEF CounterExact, Budget, PlanStart, sigVars, dmnVars, Carried, CarriesFirst
  <2>1. t \in Sigs
    BY DEF TypeOK
  <2>2. Cardinality(Firsts(t)) \in Nat /\ left[t] \in Nat
    BY <2>1, PartsFinite DEF TypeOK
  <2>3. left'[t] = left[t] - (IF t = s THEN 1 ELSE 0)
    BY <2>1, <2>2, SMTT(30) DEF PlanStart, TypeOK
  <2>4. left'[t] + Cardinality(Firsts(t))' = left[t] + Cardinality(Firsts(t))
    BY <2>1, <2>2, <2>3, PlanStartSets
  <2>5. Cardinality(Others(t))' - Cardinality(Owed(t))' = Cardinality(Others(t)) - Cardinality(Owed(t))
    BY <2>1, PlanStartSets
  <2> QED BY <2>4, <2>5 DEF CounterExact, Budget
<1>4. DaemonOK' /\ UserOK'
  BY DEF PlanStart, DaemonOK, UserOK, sigVars, dmnVars, usrVars
<1>5. ReportsOK' /\ PoolOK'
  BY DEF PlanStart, ReportsOK, PoolOK, InItems, sigVars, dmnVars, usrVars
<1> QED BY <1>1, <1>2, <1>3, <1>4, <1>5

-----------------------------------------------------------------------------
(* The daemon thread *)

\* What taking an event does to the parts of each signal.
LEMMA DaemonLoadSets ==
    ASSUME SignalInv, NEW p \in Parts, DaemonLoad(p), NEW t \in Sigs
    PROVE  LET mine == dest[p[1]].sig = t
               num  == dest[p[1]].num
           IN  /\ Cardinality(Firsts(t))' =
                     Cardinality(Firsts(t)) - (IF mine /\ p[2] = 1 THEN 1 ELSE 0)
               /\ Cardinality(Others(t))' =
                     Cardinality(Others(t)) - (IF mine /\ p[2] # 1 THEN 1 ELSE 0)
               /\ Cardinality(Owed(t))' =
                     Cardinality(Owed(t)) - (IF mine /\ p[2] = 1 THEN num - 1 ELSE 0)
<1> DEFINE m   == p[1]
           num == dest[m].num
           D   == {m} \X (2 .. num)
<1>0. /\ m \in Msgs /\ p[2] \in 1 .. NumChannels /\ p = <<m, p[2]>>
      /\ NumChannels \in Nat
  BY SizeAssumption DEF Parts
<1>1. p \in pending /\ pending' = pending \ {p} /\ dest' = dest
  BY DEF DaemonLoad
<1>2. num \in Nat /\ num >= 1 /\ num <= NumChannels
  BY <1>0, <1>1 DEF SignalInv, PartsOK, TypeOK
<1>3. /\ \A S \in SUBSET Parts : IsFiniteSet(S) /\ Cardinality(S) \in Nat
      /\ Firsts(t) \subseteq Parts /\ Others(t) \subseteq Parts /\ Owed(t) \subseteq Parts
  BY PartsFinite DEF SignalInv
<1>4. Firsts(t)' = Firsts(t) \ {p} /\ Others(t)' = Others(t) \ {p}
  BY <1>1 DEF Firsts, Others
<1>5. /\ p \in Firsts(t) <=> dest[m].sig = t /\ p[2] = 1
      /\ p \in Others(t) <=> dest[m].sig = t /\ p[2] # 1
  BY <1>1 DEF Firsts, Others
<1>6. /\ Cardinality(Firsts(t))' = Cardinality(Firsts(t)) - (IF dest[m].sig = t /\ p[2] = 1 THEN 1 ELSE 0)
      /\ Cardinality(Others(t))' = Cardinality(Others(t)) - (IF dest[m].sig = t /\ p[2] # 1 THEN 1 ELSE 0)
  <2>1. /\ Cardinality(Firsts(t) \ {p}) = IF p \in Firsts(t) THEN Cardinality(Firsts(t)) - 1 ELSE Cardinality(Firsts(t))
        /\ Cardinality(Others(t) \ {p}) = IF p \in Others(t) THEN Cardinality(Others(t)) - 1 ELSE Cardinality(Others(t))
    BY <1>3, FS_RemoveElement
  <2>2. Cardinality(Firsts(t)) \in Nat /\ Cardinality(Others(t)) \in Nat
    BY <1>3
  <2> QED BY <1>4, <1>5, <2>1, <2>2
<1>7. CASE dest[m].sig = t /\ p[2] = 1
  <2>1. Owed(t)' = Owed(t) \ D
    <3>1. ASSUME NEW q \in Parts PROVE q \in Owed(t)' <=> q \in Owed(t) \ D
      <4>1. q[1] \in Msgs /\ q[2] \in 1 .. NumChannels /\ q = <<q[1], q[2]>>
        BY DEF Parts
      <4>2. CASE q[1] = m
        <5>1. q \notin Owed(t)'
          BY <4>2, <1>1, <1>0, <1>7 DEF Owed
        <5>2. q \in Owed(t) => q \in D
          BY <4>1, <4>2, <1>2 DEF Owed
        <5> QED BY <5>1, <5>2
      <4>3. CASE q[1] # m
        <5>1. q \notin D
          BY <4>3
        <5>2. <<q[1], 1>> \in pending' <=> <<q[1], 1>> \in pending
          BY <4>3, <1>1, <1>0
        <5> QED BY <4>1, <4>3, <5>1, <5>2, <1>1 DEF Owed
      <4> QED BY <4>2, <4>3
    <3>2. Owed(t)' \subseteq Parts
      BY DEF Owed
    <3> QED BY <3>1, <3>2, <1>3
  <2>2. D \subseteq Owed(t)
    <3>1. ASSUME NEW q \in D PROVE q \in Owed(t)
      <4>1. q[1] = m /\ q[2] \in 2 .. num /\ q \in Parts
        BY <1>0, <1>2 DEF Parts
      <4>2. <<q[1], 1>> \in pending
        BY <4>1, <1>0, <1>1, <1>7
      <4> QED BY <4>1, <4>2, <1>2, <1>7 DEF Owed
    <3> QED BY <3>1
  <2>3. Cardinality(D) = num - 1
    <3>1. IsFiniteSet({m}) /\ Cardinality({m}) = 1
      BY FS_Singleton
    <3>2. IsFiniteSet(2 .. num) /\ Cardinality(2 .. num) = num - 1
      <4>1. 2 \in Int /\ num \in Int
        BY <1>2
      <4>2. /\ IsFiniteSet(2 .. num)
            /\ Cardinality(2 .. num) = IF 2 > num THEN 0 ELSE num - 2 + 1
        BY <4>1, FS_Interval
      <4> QED BY <4>2, <1>2
    <3>3. Cardinality(D) = Cardinality({m}) * Cardinality(2 .. num)
      <4> HIDE DEF num, m
      <4> QED BY <3>1, <3>2, FS_Product
    <3> HIDE DEF num, m, D
    <3> QED BY <3>1, <3>2, <3>3, <1>2
  <2>4. Cardinality(Owed(t) \ D) = Cardinality(Owed(t)) - Cardinality(D)
    <3>1. Owed(t) \cap D = D
      BY <2>2
    <3> HIDE DEF D
    <3> QED BY <3>1, <1>3, FS_Difference
  <2> QED BY <2>1, <2>3, <2>4, <1>6, <1>7
<1>8. CASE ~(dest[m].sig = t /\ p[2] = 1)
  <2>1. Owed(t)' = Owed(t)
    <3>1. ASSUME NEW q \in Parts, dest[q[1]].sig = t
          PROVE  <<q[1], 1>> \in pending' <=> <<q[1], 1>> \in pending
      BY <3>1, <1>0, <1>1, <1>8
    <3> QED BY <3>1, <1>1 DEF Owed
  <2> QED BY <2>1, <1>3, <1>6, <1>8
<1> QED BY <1>7, <1>8

\* The daemon takes a part and loads the counter.
LEMMA DaemonLoadInv ==
    ASSUME SignalInv, NEW p \in Parts, DaemonLoad(p)
    PROVE  SignalInv'
<1> USE DEF SignalInv
<1> DEFINE s   == dest[p[1]].sig
           num == dest[p[1]].num
<1>0. /\ p[1] \in Msgs /\ p[2] \in 1 .. NumChannels /\ NumChannels \in Nat
      /\ W \in Nat /\ W > 2
  <2>1. p[1] \in Msgs /\ p[2] \in 1 .. NumChannels /\ NumChannels \in Nat
    BY SizeAssumption DEF Parts
  <2>2. dest[p[1]].sig \in Sigs
    BY DEF DaemonLoad, PartsOK, TypeOK
  <2> QED BY <2>1, <2>2, WordAssumption
<1>1. /\ p \in pending /\ s \in created /\ s \in Sigs
      /\ num \in Nat /\ num >= p[2] /\ num <= NumChannels
  BY <1>0 DEF DaemonLoad, PartsOK, TypeOK
<1>2. IF p[2] = 1 THEN SigAdd(num, p[2]) = -1 + W * (num - 1)
                  ELSE SigAdd(num, p[2]) = -W
  <2>1. CASE num = 1
    <3>1. W * (num - 1) = 0 /\ p[2] = 1
      BY <2>1, <1>0, <1>1
    <3> QED BY <2>1, <3>1 DEF SigAdd
  <2>2. CASE num # 1
    BY <2>2 DEF SigAdd
  <2> QED BY <2>1, <2>2
<1>3. SigAdd(num, p[2]) \in Int /\ (SigAdd(num, p[2]) # -W <=> p[2] = 1)
  <2>1. W * (num - 1) \in Nat
    BY <1>0, <1>1
  <2> QED BY <2>1, <1>2, <1>0
<1>4. TypeOK'
  BY <1>0, <1>1, <1>3 DEF DaemonLoad, TypeOK, sigVars, usrVars
<1>5. PartsOK'
  BY DEF DaemonLoad, PartsOK, sigVars
<1>6. DaemonOK'
  <2>1. \E k \in 0 .. NumChannels - 1 : p[2] = 1 => SigAdd(num, p[2]) = -1 + W * k
    <3>1. num - 1 \in 0 .. NumChannels - 1
      BY <1>0, <1>1
    <3> QED BY <3>1, <1>2
  <2>2. p[2] # 1 => NumChannels > 1
    BY <1>0
  <2> QED BY <2>1, <2>2, <1>1, <1>2 DEF DaemonLoad, DaemonOK, sigVars
<1>7. ASSUME NEW t \in created
      PROVE  /\ counter[t] + (IF s = t THEN SigAdd(num, p[2]) ELSE 0) =
                   left[t] + Cardinality(Firsts(t))'
                   + W * (Cardinality(Others(t))' - Cardinality(Owed(t))')
             /\ left[t] + Cardinality(Firsts(t))' + (IF s = t /\ p[2] = 1 THEN 1 ELSE 0)
                   <= NumEvent[t]
  <2> DEFINE F == Cardinality(Firsts(t))
             O == Cardinality(Others(t))
             E == Cardinality(Owed(t))
  <2>1. t \in Sigs /\ dpc = "idle"
    BY DEF TypeOK, DaemonLoad
  <2>2. /\ F \in Nat /\ O \in Nat /\ E \in Nat
        /\ left[t] \in Nat /\ counter[t] \in Int /\ NumEvent[t] \in Nat
    BY <2>1, PartsFinite, WordAssumption DEF TypeOK
  <2>3. counter[t] = left[t] + F + W * (O - E) /\ left[t] + F <= NumEvent[t]
    BY <2>1, <2>2 DEF CounterExact, Budget, Carried, CarriesFirst
  <2>4. /\ Cardinality(Firsts(t))' = F - (IF s = t /\ p[2] = 1 THEN 1 ELSE 0)
        /\ Cardinality(Others(t))' = O - (IF s = t /\ p[2] # 1 THEN 1 ELSE 0)
        /\ Cardinality(Owed(t))' = E - (IF s = t /\ p[2] = 1 THEN num - 1 ELSE 0)
    BY <2>1, DaemonLoadSets
  <2> HIDE DEF F, O, E, s, num
  <2>5. CASE s # t
    BY <2>2, <2>3, <2>4, <2>5
  <2>6. CASE s = t /\ p[2] = 1
    <3>1. W * (O - (E - (num - 1))) = W * (O - E) + W * (num - 1)
      BY <2>2, <1>0, <1>1
    <3>2. W * (O - E) \in Int /\ W * (num - 1) \in Int
      BY <2>2, <1>0, <1>1
    <3>3. counter[t] + SigAdd(num, p[2]) = left[t] + (F - 1) + W * (O - (E - (num - 1)))
      BY <3>1, <3>2, <2>2, <2>3, <2>6, <1>2
    <3> QED BY <3>3, <2>2, <2>3, <2>4, <2>6
  <2>7. CASE s = t /\ p[2] # 1
    <3>1. W * (O - 1 - E) = W * (O - E) - W
      BY <2>2, <1>0
    <3>2. W * (O - E) \in Int
      BY <2>2, <1>0
    <3>3. counter[t] + SigAdd(num, p[2]) = left[t] + F + W * (O - 1 - E)
      BY <3>1, <3>2, <2>2, <2>3, <2>7, <1>2, <1>0
    <3> QED BY <3>3, <2>2, <2>3, <2>4, <2>7
  <2> QED BY <2>5, <2>6, <2>7
<1>8. CounterExact' /\ Budget'
  <2>1. /\ dpc' = "store" /\ dsig' = s /\ dadd' = SigAdd(num, p[2])
        /\ counter' = counter /\ left' = left /\ created' = created
    BY DEF DaemonLoad, sigVars
  <2>2. \A t : Carried(t)' = IF s = t THEN SigAdd(num, p[2]) ELSE 0
    BY <2>1 DEF Carried
  <2>3. \A t : CarriesFirst(t)' <=> s = t /\ p[2] = 1
    BY <2>1, <1>3 DEF CarriesFirst
  <2> HIDE DEF s, num
  <2> QED BY <1>7, <2>1, <2>2, <2>3 DEF CounterExact, Budget
<1>9. ReportsOK' /\ UserOK' /\ PoolOK'
  BY DEF DaemonLoad, ReportsOK, UserOK, PoolOK, InItems, sigVars, usrVars
<1> QED BY <1>4, <1>5, <1>6, <1>8, <1>9

\* The daemon stores the counter it loaded, less the part.
LEMMA DaemonStoreInv ==
    ASSUME SignalInv, DaemonStore
    PROVE  SignalInv'
<1> USE DEF SignalInv
<1>0. /\ dpc = "store" /\ dpc' = "test" /\ dsig \in created /\ dsig \in Sigs
      /\ dsig' = dsig /\ dtmp = counter[dsig] /\ counter[dsig] # 0
      /\ counter' = [counter EXCEPT ![dsig] = dtmp + dadd]
      /\ UNCHANGED <<created, idx, queue, items, filled, msgVars, usrVars, asserts>>
  BY ZeroNotInStore DEF DaemonStore, DaemonOK, TypeOK
<1>1. \A t \in Sigs : counter'[t] = counter[t] + Carried(t)
  BY <1>0 DEF TypeOK, Carried
<1>2. TypeOK'
  BY <1>0 DEF DaemonStore, TypeOK, msgVars, usrVars
<1>3. PartsOK'
  BY <1>0 DEF PartsOK, msgVars
<1>4. \A t : Firsts(t)' = Firsts(t) /\ Others(t)' = Others(t) /\ Owed(t)' = Owed(t)
  BY <1>0, SameSets DEF msgVars
<1>5. CounterExact'
  <2> SUFFICES ASSUME NEW t \in created
               PROVE  counter'[t] + Carried(t)' =
                        left[t] + Cardinality(Firsts(t)) + W * (Cardinality(Others(t)) - Cardinality(Owed(t)))
    BY <1>0, <1>4 DEF CounterExact, msgVars
  <2>1. t \in Sigs /\ Carried(t)' = 0 /\ counter'[t] \in Int
    BY <1>0, <1>2 DEF TypeOK, Carried
  <2> QED BY <2>1, <1>1 DEF CounterExact
<1>6. Budget'
  <2> SUFFICES ASSUME NEW t \in created
               PROVE  left[t] + Cardinality(Firsts(t)) + (IF CarriesFirst(t)' THEN 1 ELSE 0) <= NumEvent[t]
    BY <1>0, <1>4 DEF Budget, msgVars
  <2>1. ~CarriesFirst(t)'
    BY <1>0 DEF CarriesFirst
  <2>2. /\ Cardinality(Firsts(t)) \in Nat /\ left[t] \in Nat /\ NumEvent[t] \in Nat
        /\ left[t] + Cardinality(Firsts(t)) + (IF CarriesFirst(t) THEN 1 ELSE 0) <= NumEvent[t]
    BY PartsFinite, WordAssumption DEF TypeOK, Budget
  <2> QED BY <2>1, <2>2
<1>7. DaemonOK'
  BY <1>0 DEF DaemonOK
<1>8. ~InItems(dsig) /\ dsig \notin trig /\ (upc = "rearm" => usig # dsig)
  BY <1>0 DEF ReportsOK, InItems, UserOK
<1>9. \A t \in Sigs : t # dsig => counter'[t] = counter[t]
  BY <1>0 DEF TypeOK
<1>10. ReportsOK'
  <2>1. \A k \in 1 .. Len(items) : PoolSeq[items[k] + 1] \in Sigs /\ PoolSeq[items[k] + 1] # dsig
    BY <1>8, ItemsInPool DEF InItems
  <2>2. upc = "rearm" => usig \in Sigs
    BY DEF ReportsOK, TypeOK
  <2> QED BY <2>1, <2>2, <1>0, <1>8, <1>9 DEF ReportsOK, InItems, usrVars
<1>11. UserOK' /\ PoolOK'
  BY <1>0, <1>8, <1>9 DEF UserOK, PoolOK, TypeOK, usrVars
<1> QED BY <1>2, <1>3, <1>5, <1>6, <1>7, <1>10, <1>11

\* Steps that touch neither a counter nor the messages, nor enter or leave
\* the daemon's store, keep the arithmetic part of the invariant.
LEMMA CountersFrame ==
    ASSUME SignalInv, UNCHANGED <<created, counter, left, dest, pending>>,
           dpc # "store", dpc' # "store"
    PROVE  CounterExact' /\ Budget' /\ PartsOK'
<1>1. \A t : Firsts(t)' = Firsts(t) /\ Others(t)' = Others(t) /\ Owed(t)' = Owed(t)
  BY SameSets
<1>2. \A t : Carried(t)' = Carried(t) /\ (CarriesFirst(t)' <=> CarriesFirst(t))
  BY DEF Carried, CarriesFirst
<1> QED BY <1>1, <1>2 DEF SignalInv, CounterExact, Budget, PartsOK

\* The same for the steps of the application thread.
LEMMA UserFrame ==
    ASSUME SignalInv, UNCHANGED <<created, counter, left, dest, pending, dmnVars>>
    PROVE  CounterExact' /\ Budget' /\ PartsOK'
<1>1. \A t : Firsts(t)' = Firsts(t) /\ Others(t)' = Others(t) /\ Owed(t)' = Owed(t)
  BY SameSets
<1>2. \A t : Carried(t)' = Carried(t) /\ (CarriesFirst(t)' <=> CarriesFirst(t))
  BY DEF Carried, CarriesFirst, dmnVars
<1> QED BY <1>1, <1>2 DEF SignalInv, CounterExact, Budget, PartsOK

\* The daemon tests the counter it stored.
LEMMA DaemonTestInv ==
    ASSUME SignalInv, DaemonTest
    PROVE  SignalInv'
<1> USE DEF SignalInv
<1>1. TypeOK'
  BY DEF DaemonTest, TypeOK, sigVars, msgVars, usrVars
<1>2. CounterExact' /\ Budget' /\ PartsOK'
  BY CountersFrame DEF DaemonTest, sigVars, msgVars
<1>3. DaemonOK' /\ ReportsOK' /\ UserOK' /\ PoolOK'
  BY DEF DaemonTest, DaemonOK, ReportsOK, UserOK, PoolOK, InItems, sigVars, usrVars
<1> QED BY <1>1, <1>2, <1>3

\* A queued signal knows its place in the pool.
LEMMA QueuedIdx ==
    ASSUME SignalInv, NEW s \in Sigs, queue[s]
    PROVE  /\ idx[s] \in 0 .. Len(PoolSeq) - 1
           /\ PoolSeq[idx[s] + 1] = s
           /\ Pooled \subseteq created
<1>1. PICK i \in 1 .. Len(PoolSeq) : PoolSeq[i] = s
  BY DEF SignalInv, PoolOK, Pooled
<1>2. filled >= 2 * i /\ filled \in Nat /\ Len(PoolSeq) \in Nat
  BY <1>1, PoolAssumption, SMTT(30) DEF SignalInv, PoolOK, TypeOK
<1>3. idx[s] = i - 1
  BY <1>1, <1>2 DEF SignalInv, PoolOK
<1> QED BY <1>1, <1>2, <1>3 DEF SignalInv, PoolOK

\* The ring has room: every entry names another pool member than the one
\* about to be pushed.
LEMMA RingHasRoom ==
    ASSUME SignalInv, dpc = "push"
    PROVE  Len(items) < Len(PoolSeq)
<1> DEFINE L == Len(PoolSeq)
           n == Len(items)
           T == (0 .. L - 1) \ {idx[dsig]}
<1>1. dsig \in Sigs /\ queue[dsig] /\ ~InItems(dsig)
  BY DEF SignalInv, DaemonOK, ReportsOK, TypeOK
<1>2. idx[dsig] \in 0 .. L - 1 /\ PoolSeq[idx[dsig] + 1] = dsig
  BY <1>1, QueuedIdx
<1>3. L \in Nat /\ n \in Nat /\ items \in [1 .. n -> 0 .. L - 1]
  BY PoolAssumption, SMTT(30) DEF SignalInv, TypeOK
<1>4. items \in [1 .. n -> T]
  BY <1>1, <1>2, <1>3 DEF InItems
<1>5. IsFiniteSet(1 .. n) /\ Cardinality(1 .. n) = n
  <2>1. 1 \in Int /\ n \in Int
    BY <1>3
  <2>2. IsFiniteSet(1 .. n) /\ Cardinality(1 .. n) = IF 1 > n THEN 0 ELSE n - 1 + 1
    BY <2>1, FS_Interval
  <2> QED BY <2>2, <1>3
<1>6. IsFiniteSet(T) /\ Cardinality(T) = L - 1
  <2>1. 0 \in Int /\ L - 1 \in Int
    BY <1>3
  <2>2. IsFiniteSet(0 .. L - 1) /\ Cardinality(0 .. L - 1) = IF 0 > L - 1 THEN 0 ELSE L - 1 - 0 + 1
    BY <2>1, FS_Interval
  <2>3. IsFiniteSet(T) /\ Cardinality(T) = Cardinality(0 .. L - 1) - 1
    BY <2>2, <1>2, FS_RemoveElement
  <2> QED BY <2>2, <2>3, <1>2, <1>3
<1>7. ~(L - 1 < n)
  <2> HIDE DEF T, n, L
  <2>1. ASSUME L - 1 < n PROVE \E j, k \in 1 .. n : j # k /\ items[j] = items[k]
    BY <2>1, <1>4, <1>5, <1>6, FS_PigeonHole
  <2> QED BY <2>1 DEF SignalInv, ReportsOK, n
<1> QED BY <1>3, <1>7

\* The daemon pushes a finished signal of a pool.
LEMMA DaemonPushInv ==
    ASSUME SignalInv, DaemonPush
    PROVE  SignalInv'
<1> USE DEF SignalInv
<1>0. Len(items) < Len(PoolSeq)
  BY RingHasRoom DEF DaemonPush
<1>1. /\ dpc = "push" /\ dpc' = "idle" /\ items' = Append(items, idx[dsig])
      /\ dsig' = dsig /\ halted' = halted
      /\ UNCHANGED <<created, counter, idx, queue, filled, msgVars, dadd, dtmp, usrVars, asserts>>
  BY <1>0 DEF DaemonPush
<1>2. /\ dsig \in Sigs /\ queue[dsig] /\ counter[dsig] = 0 /\ ~InItems(dsig)
      /\ (upc = "rearm" => usig # dsig)
  BY <1>1 DEF DaemonOK, ReportsOK, TypeOK
<1>3. idx[dsig] \in 0 .. Len(PoolSeq) - 1 /\ PoolSeq[idx[dsig] + 1] = dsig /\ Pooled \subseteq created
  BY <1>2, QueuedIdx
<1>4. TypeOK'
  BY <1>1, <1>3 DEF TypeOK, msgVars, usrVars
<1>5. CounterExact' /\ Budget' /\ PartsOK'
  BY <1>1, CountersFrame DEF msgVars
<1>6. DaemonOK' /\ UserOK'
  BY <1>1 DEF DaemonOK, UserOK, usrVars
<1>7. /\ Len(items') = Len(items) + 1 /\ Len(items) \in Nat
      /\ \A k \in 1 .. Len(items) : items'[k] = items[k]
      /\ items'[Len(items) + 1] = idx[dsig]
  BY <1>1, <1>3 DEF TypeOK
<1>8. \A k \in 1 .. Len(items) : items[k] # idx[dsig]
  BY <1>2, <1>3 DEF InItems
<1>9. ReportsOK'
  <2>1. \A j, k \in 1 .. Len(items') : items'[j] = items'[k] => j = k
    BY <1>7, <1>8 DEF ReportsOK
  <2>2. \A k \in 1 .. Len(items') : counter'[PoolSeq[items'[k] + 1]] = 0
    BY <1>1, <1>2, <1>3, <1>7 DEF ReportsOK
  <2>3. upc = "rearm" => ~InItems(usig)'
    BY <1>1, <1>2, <1>3, <1>7 DEF ReportsOK, InItems, usrVars
  <2> QED BY <2>1, <2>2, <2>3, <1>1 DEF ReportsOK, usrVars
<1>10. PoolOK'
  BY <1>1, <1>3 DEF PoolOK
<1> QED BY <1>4, <1>5, <1>6, <1>9, <1>10

-----------------------------------------------------------------------------
(* The application thread *)

\* What arming a signal for a round does to its counter.
LEMMA ArmType ==
    ASSUME TypeOK, NEW s \in Sigs
    PROVE  /\ [counter EXCEPT ![s] = NumEvent[s]] \in [Sigs -> Int]
           /\ [left EXCEPT ![s] = NumEvent[s]] \in [Sigs -> Nat]
<1>1. NumEvent[s] \in Nat /\ NumEvent[s] \in Int
  BY WordAssumption
<1> QED BY <1>1 DEF TypeOK

\* The counter of a signal that no part and no daemon step refers to is set
\* to num_event, together with the peers' allowance.
LEMMA ArmCounters ==
    ASSUME SignalInv, NEW s \in Sigs,
           \A p \in pending : dest[p[1]].sig # s,
           ~(dpc = "store" /\ dsig = s),
           created' = created \cup {s},
           counter' = [counter EXCEPT ![s] = NumEvent[s]],
           left' = [left EXCEPT ![s] = NumEvent[s]],
           UNCHANGED <<dest, pending, dmnVars>>
    PROVE  CounterExact' /\ Budget' /\ PartsOK'
<1> USE DEF SignalInv
<1>1. \A t : Firsts(t)' = Firsts(t) /\ Others(t)' = Others(t) /\ Owed(t)' = Owed(t)
  BY SameSets
<1>2. \A t : Carried(t)' = Carried(t) /\ (CarriesFirst(t)' <=> CarriesFirst(t))
  BY DEF Carried, CarriesFirst, dmnVars
<1>3. Firsts(s) = {} /\ Others(s) = {} /\ Owed(s) = {}
  BY DEF Firsts, Others, Owed
<1>4. Cardinality({}) = 0
  BY FS_EmptySet
<1>5. /\ counter'[s] = NumEvent[s] /\ left'[s] = NumEvent[s] /\ NumEvent[s] \in Nat
      /\ \A t \in Sigs : t # s => counter'[t] = counter[t] /\ left'[t] = left[t]
      /\ W \in Nat
  BY WordAssumption DEF TypeOK
<1>6. ASSUME NEW t \in created'
      PROVE  /\ counter'[t] + Carried(t) =
                   left'[t] + Cardinality(Firsts(t)) + W * (Cardinality(Others(t)) - Cardinality(Owed(t)))
             /\ left'[t] + Cardinality(Firsts(t)) + (IF CarriesFirst(t) THEN 1 ELSE 0) <= NumEvent[t]
  <2>1. CASE t = s
    <3>1. Carried(s) = 0 /\ ~CarriesFirst(s)
      BY DEF Carried, CarriesFirst
    <3>2. W * (0 - 0) = 0
      BY <1>5
    <3>3. Cardinality(Firsts(s)) = 0 /\ Cardinality(Others(s)) = 0 /\ Cardinality(Owed(s)) = 0
      BY <1>3, <1>4
    <3> QED BY <2>1, <3>1, <3>2, <3>3, <1>5
  <2>2. CASE t # s
    BY <2>2, <1>5 DEF CounterExact, Budget, TypeOK
  <2> QED BY <2>1, <2>2
<1>7. CounterExact' /\ Budget'
  BY <1>1, <1>2, <1>6 DEF CounterExact, Budget
<1>8. PartsOK'
  BY DEF PartsOK
<1> QED BY <1>7, <1>8

\* A created signal expects the events of one round.
LEMMA SigCreateInv ==
    ASSUME SignalInv, NEW s \in Sigs, SigCreate(s)
    PROVE  SignalInv'
<1> USE DEF SignalInv
<1>0. /\ s \notin created /\ created' = created \cup {s} /\ upc = "idle"
      /\ counter' = [counter EXCEPT ![s] = NumEvent[s]]
      /\ left' = [left EXCEPT ![s] = NumEvent[s]]
      /\ idx' = [idx EXCEPT ![s] = -1] /\ queue' = [queue EXCEPT ![s] = FALSE]
      /\ UNCHANGED <<items, filled, dest, pending, dmnVars, usrVars, halted, asserts>>
  BY DEF SigCreate
<1>1. TypeOK'
  BY <1>0, ArmType, SMTT(30) DEF TypeOK, dmnVars, usrVars
<1>2. CounterExact' /\ Budget' /\ PartsOK'
  <2>1. \A p \in pending : dest[p[1]].sig # s
    BY <1>0 DEF PartsOK
  <2>2. ~(dpc = "store" /\ dsig = s)
    BY <1>0 DEF DaemonOK
  <2> QED BY <1>0, <2>1, <2>2, ArmCounters
<1>3. dpc # "idle" => dsig # s
  BY <1>0 DEF DaemonOK
<1>4. \A t \in Sigs : t # s => /\ counter'[t] = counter[t] /\ queue'[t] = queue[t]
                              /\ idx'[t] = idx[t]
  BY <1>0 DEF TypeOK
<1>5. DaemonOK'
  BY <1>0, <1>3, <1>4 DEF DaemonOK, TypeOK, dmnVars
<1>6. UserOK'
  BY <1>0, <1>4 DEF UserOK, TypeOK, usrVars
<1>7. s \in Pooled => filled = 0 /\ items = <<>>
  BY <1>0 DEF PoolOK, TypeOK
<1>8. ReportsOK'
  <2>1. \A k \in 1 .. Len(items) : PoolSeq[items[k] + 1] \in Sigs /\ PoolSeq[items[k] + 1] # s
    BY <1>7, ItemsInPool
  <2> QED BY <2>1, <1>0, <1>4, SMTT(30) DEF ReportsOK, InItems, TypeOK, dmnVars, usrVars
<1>9. PoolOK'
  <2>1. \A i \in 1 .. Len(PoolSeq) : PoolSeq[i] \in Sigs /\ PoolSeq[i] \in Pooled /\ i \in Nat /\ i >= 1
    BY PoolAssumption DEF Pooled
  <2>2. CASE s \in Pooled
    <3>1. filled = 0 /\ filled' = 0 /\ items' = <<>>
      BY <1>0, <1>7, <2>2
    <3>2. \A i \in 1 .. Len(PoolSeq) : ~queue[PoolSeq[i]]
      BY <2>1, <3>1 DEF PoolOK
    <3>3. \A t \in Sigs : ~queue[t]
      BY <3>2 DEF PoolOK, Pooled
    <3>4. \A t \in Sigs : queue'[t] = FALSE
      BY <3>3, <1>0 DEF TypeOK
    <3> QED BY <3>1, <3>4, <2>1 DEF PoolOK
  <2>3. CASE s \notin Pooled
    <3>1. \A i \in 1 .. Len(PoolSeq) : /\ idx'[PoolSeq[i]] = idx[PoolSeq[i]]
                                      /\ queue'[PoolSeq[i]] = queue[PoolSeq[i]]
      BY <1>4, <2>1, <2>3
    <3>2. \A t \in Sigs : queue'[t] => t \in Pooled
      BY <1>0, <1>4 DEF PoolOK, TypeOK
    <3> QED BY <1>0, <3>1, <3>2 DEF PoolOK
  <2> QED BY <2>2, <2>3
<1> QED BY <1>1, <1>2, <1>5, <1>6, <1>8, <1>9

\* A user call begins on a signal of its own.
LEMMA SigCallInv ==
    ASSUME SignalInv, NEW s \in Sigs, SigCall(s, "check") \/ SigCall(s, "wait")
    PROVE  SignalInv'
<1> USE DEF SignalInv
<1>1. TypeOK'
  BY DEF SigCall, TypeOK, sigVars, msgVars, dmnVars
<1>2. CounterExact' /\ Budget' /\ PartsOK'
  BY UserFrame DEF SigCall, sigVars, msgVars
<1>3. DaemonOK' /\ ReportsOK' /\ UserOK' /\ PoolOK'
  BY DEF SigCall, DaemonOK, ReportsOK, UserOK, PoolOK, InItems, sigVars, dmnVars
<1> QED BY <1>1, <1>2, <1>3

\* A check changes no counter.
LEMMA CheckInv ==
    ASSUME SignalInv, CheckOverflow \/ CheckZero
    PROVE  SignalInv'
<1> USE DEF SignalInv
<1>1. TypeOK'
  BY DEF CheckOverflow, CheckZero, TypeOK, UserOK, sigVars, msgVars, dmnVars
<1>2. CounterExact' /\ Budget' /\ PartsOK'
  BY UserFrame DEF CheckOverflow, CheckZero, sigVars, msgVars
<1>3. DaemonOK' /\ PoolOK'
  BY DEF CheckOverflow, CheckZero, DaemonOK, PoolOK, sigVars, dmnVars
<1>4. ReportsOK'
  BY DEF CheckOverflow, CheckZero, ReportsOK, InItems, sigVars, dmnVars
<1>5. UserOK'
  BY DEF CheckOverflow, CheckZero, UserOK, sigVars
<1> QED BY <1>1, <1>2, <1>3, <1>4, <1>5

\* A reset arms a signal whose round is over.
LEMMA SigResetInv ==
    ASSUME SignalInv, NEW s \in Sigs, SigReset(s)
    PROVE  SignalInv'
<1> USE DEF SignalInv
<1>0. /\ s \in trig /\ s \in created /\ s \notin Pooled /\ counter[s] = 0 /\ upc = "idle"
      /\ counter' = [counter EXCEPT ![s] = NumEvent[s]]
      /\ left' = [left EXCEPT ![s] = NumEvent[s]] /\ trig' = trig \ {s}
      /\ UNCHANGED <<created, idx, queue, items, filled, dest, pending, dmnVars, upc, usig, asserts>>
  BY DEF SigReset, UserOK
<1>1. TypeOK'
  BY <1>0, ArmType, SMTT(30) DEF SigReset, TypeOK, dmnVars
<1>2. Complete(s)
  BY <1>0, ZeroComplete
<1>3. CounterExact' /\ Budget' /\ PartsOK'
  BY <1>0, <1>2, ArmCounters DEF Complete
<1>4. \A t \in Sigs : t # s => counter'[t] = counter[t]
  BY <1>0 DEF TypeOK
<1>5. DaemonOK'
  <2>1. dpc = "push" => dsig # s
    BY <1>0 DEF DaemonOK, PoolOK
  <2> QED BY <2>1, <1>0, <1>2, <1>4 DEF DaemonOK, TypeOK, Complete, dmnVars
<1>6. ReportsOK'
  <2>1. \A k \in 1 .. Len(items) : PoolSeq[items[k] + 1] \in Sigs /\ PoolSeq[items[k] + 1] # s
    BY <1>0, ItemsInPool
  <2> QED BY <2>1, <1>0, <1>4 DEF ReportsOK, InItems, dmnVars
<1>7. UserOK' /\ PoolOK'
  BY <1>0, <1>4 DEF UserOK, PoolOK, TypeOK
<1> QED BY <1>1, <1>3, <1>5, <1>6, <1>7

\* A detected signal has finished its round.
LEMMA DetectInv ==
    ASSUME SignalInv, SigPoolDetect
    PROVE  SignalInv'
<1> USE DEF SignalInv
<1>0. /\ items # <<>> /\ items' = Tail(items) /\ usig' = PoolSeq[items[1] + 1]
      /\ upc' = "rearm" /\ upc = "idle"
      /\ UNCHANGED <<created, counter, idx, queue, filled, msgVars, dmnVars, trig, halted, asserts>>
  BY DEF SigPoolDetect, TypeOK
<1>1. /\ Len(items) \in Nat /\ Len(items) >= 1 /\ Len(items') = Len(items) - 1
      /\ \A k \in 1 .. Len(items') : k + 1 \in 1 .. Len(items) /\ items'[k] = items[k + 1]
      /\ items' \in Seq(0 .. Len(PoolSeq) - 1)
  BY <1>0 DEF TypeOK
<1>2. usig' \in Sigs /\ usig' \in Pooled /\ usig' \in created /\ counter[usig'] = 0
  BY <1>0, <1>1, ItemsInPool DEF ReportsOK, PoolOK
<1>3. TypeOK'
  BY <1>0, <1>1, <1>2 DEF TypeOK, msgVars, dmnVars
<1>4. CounterExact' /\ Budget' /\ PartsOK'
  BY <1>0, UserFrame DEF msgVars
<1>5. DaemonOK' /\ UserOK' /\ PoolOK'
  BY <1>0 DEF DaemonOK, UserOK, PoolOK, dmnVars
<1>6. \A k \in 1 .. Len(items') : items'[k] # items[1]
  <2> SUFFICES ASSUME NEW k \in 1 .. Len(items') PROVE items[k + 1] # items[1]
    BY <1>1
  <2>1. k + 1 \in 1 .. Len(items) /\ 1 \in 1 .. Len(items) /\ k + 1 # 1
    BY <1>1
  <2> QED BY <2>1 DEF ReportsOK
<1>7. \A j, k \in 1 .. Len(items) : PoolSeq[items[j] + 1] = PoolSeq[items[k] + 1] => items[j] = items[k]
  <2> SUFFICES ASSUME NEW j \in 1 .. Len(items), NEW k \in 1 .. Len(items),
                      PoolSeq[items[j] + 1] = PoolSeq[items[k] + 1]
               PROVE  items[j] = items[k]
    OBVIOUS
  <2>1. items[j] \in 0 .. Len(PoolSeq) - 1 /\ items[k] \in 0 .. Len(PoolSeq) - 1
    BY ItemsInPool
  <2>2. items[j] + 1 \in 1 .. Len(PoolSeq) /\ items[k] + 1 \in 1 .. Len(PoolSeq)
    BY <2>1, PoolAssumption
  <2>3. items[j] + 1 = items[k] + 1
    BY <2>2, PoolAssumption
  <2> QED BY <2>1, <2>3
<1>8. ReportsOK'
  <2>1. \A j, k \in 1 .. Len(items') : items'[j] = items'[k] => j = k
    <3> SUFFICES ASSUME NEW j \in 1 .. Len(items'), NEW k \in 1 .. Len(items'),
                        items[j + 1] = items[k + 1]
                 PROVE  j = k
      BY <1>1
    <3>1. j + 1 \in 1 .. Len(items) /\ k + 1 \in 1 .. Len(items)
      BY <1>1
    <3>2. j + 1 = k + 1
      BY <3>1 DEF ReportsOK
    <3> QED BY <3>2, <1>1
  <2>2. \A k \in 1 .. Len(items') : counter'[PoolSeq[items'[k] + 1]] = 0
    BY <1>0, <1>1 DEF ReportsOK
  <2>3. ~InItems(usig)'
    BY <1>0, <1>1, <1>6, <1>7 DEF InItems
  <2>4. dpc \in {"test", "push"} => usig' # dsig /\ ~InItems(dsig)'
    BY <1>0, <1>1 DEF ReportsOK, InItems, dmnVars
  <2> QED BY <2>1, <2>2, <2>3, <2>4, <1>0, <1>2 DEF ReportsOK, dmnVars, InItems
<1> QED BY <1>3, <1>4, <1>5, <1>8

\* A detected signal is armed when nothing can reach it.
LEMMA RearmInv ==
    ASSUME SignalInv, DetectRearm
    PROVE  SignalInv'
<1> USE DEF SignalInv
<1>0. /\ upc = "rearm" /\ upc' = "idle"
      /\ usig \in Sigs /\ usig \in created /\ usig \in Pooled /\ counter[usig] = 0 /\ ~InItems(usig)
      /\ dpc \in {"test", "push"} => usig # dsig
      /\ counter' = [counter EXCEPT ![usig] = NumEvent[usig]]
      /\ left' = [left EXCEPT ![usig] = NumEvent[usig]]
      /\ UNCHANGED <<created, idx, queue, items, filled, dest, pending, dmnVars, usig, trig, halted, asserts>>
  BY DEF DetectRearm, ReportsOK, TypeOK
<1>1. TypeOK'
  BY <1>0, ArmType DEF TypeOK, dmnVars
<1>2. Complete(usig)
  BY <1>0, ZeroComplete
<1>3. CounterExact' /\ Budget' /\ PartsOK'
  BY <1>0, <1>2, ArmCounters DEF Complete
<1>4. \A t \in Sigs : t # usig => counter'[t] = counter[t]
  BY <1>0 DEF TypeOK
<1>5. DaemonOK'
  BY <1>0, <1>2, <1>4 DEF DaemonOK, TypeOK, Complete, dmnVars
<1>6. ReportsOK'
  <2>1. \A k \in 1 .. Len(items) : PoolSeq[items[k] + 1] \in Sigs /\ PoolSeq[items[k] + 1] # usig
    BY <1>0, ItemsInPool DEF InItems
  <2> QED BY <2>1, <1>0, <1>4 DEF ReportsOK, InItems, dmnVars
<1>7. UserOK' /\ PoolOK'
  BY <1>0, <1>4 DEF UserOK, PoolOK, TypeOK
<1> QED BY <1>1, <1>3, <1>5, <1>6, <1>7

\* The slots of a pool are filled in order.
LEMMA PoolCreateInv ==
    ASSUME SignalInv, SigPoolCreate
    PROVE  SignalInv'
<1> USE DEF SignalInv
<1> DEFINE i == filled \div 2 + 1
<1>0. /\ filled \in Nat /\ filled < 2 * Len(PoolSeq) /\ Len(PoolSeq) \in Nat
      /\ i \in 1 .. Len(PoolSeq) /\ PoolSeq[i] \in Sigs /\ PoolSeq[i] \in Pooled
      /\ filled % 2 \in {0, 1} /\ filled = 2 * (i - 1) + (filled % 2)
  <2>1. filled \in Nat /\ filled < 2 * Len(PoolSeq) /\ Len(PoolSeq) \in Nat
    BY PoolAssumption DEF SigPoolCreate, TypeOK
  <2>2. filled % 2 \in {0, 1} /\ filled = 2 * (i - 1) + (filled % 2) /\ i \in Int
    BY <2>1
  <2>3. i \in 1 .. Len(PoolSeq)
    BY <2>1, <2>2
  <2>4. PoolSeq[i] \in Sigs /\ PoolSeq[i] \in Pooled
    <3> HIDE DEF i, SignalInv
    <3> QED BY <2>3, PoolAssumption DEF Pooled
  <2> HIDE DEF i, SignalInv
  <2> QED BY <2>1, <2>2, <2>3, <2>4
<1>1. /\ Pooled \subseteq created /\ filled' = filled + 1
      /\ idx' = IF filled % 2 = 0 THEN [idx EXCEPT ![PoolSeq[i]] = i - 1] ELSE idx
      /\ queue' = IF filled % 2 = 1 THEN [queue EXCEPT ![PoolSeq[i]] = TRUE] ELSE queue
      /\ UNCHANGED <<created, counter, items, msgVars, dmnVars, usig, trig, halted, asserts>>
      /\ upc' \in {"idle", "fill"} /\ upc \in {"idle", "fill"}
  BY <1>0 DEF SigPoolCreate, PoolStore
<1> HIDE DEF i
<1>2. TypeOK'
  <2>1. idx' \in [Sigs -> Int] /\ queue' \in [Sigs -> BOOLEAN]
    BY <1>0, <1>1, SMTT(30) DEF TypeOK
  <2>2. filled' \in 0 .. 2 * Len(PoolSeq)
    BY <1>0, <1>1
  <2> QED BY <2>1, <2>2, <1>1 DEF TypeOK, msgVars, dmnVars
<1>3. CounterExact' /\ Budget' /\ PartsOK'
  BY <1>1, UserFrame DEF msgVars
<1>4. DaemonOK'
  BY <1>0, <1>1 DEF DaemonOK, TypeOK, dmnVars
<1>5. ReportsOK' /\ UserOK'
  BY <1>1 DEF ReportsOK, UserOK, InItems, dmnVars
<1>6. PoolOK'
  <2>1. \A s \in Sigs : queue'[s] => s \in Pooled
    BY <1>0, <1>1 DEF PoolOK, TypeOK
  <2>2. ASSUME NEW k \in 1 .. Len(PoolSeq)
        PROVE  /\ filled' >= 2 * k - 1 => idx'[PoolSeq[k]] = k - 1
               /\ queue'[PoolSeq[k]] <=> filled' >= 2 * k
    <3>1. PoolSeq[k] \in Sigs /\ (PoolSeq[k] = PoolSeq[i] => k = i)
      BY <1>0, PoolAssumption
    <3>2. /\ filled >= 2 * k - 1 => idx[PoolSeq[k]] = k - 1
          /\ queue[PoolSeq[k]] <=> filled >= 2 * k
      BY DEF PoolOK
    <3>3. CASE filled % 2 = 0
      <4>1. filled = 2 * i - 2 /\ filled' = 2 * i - 1 /\ i \in Int /\ k \in Int
        BY <3>3, <1>0, <1>1
      <4>2. CASE k = i
        BY <3>1, <3>2, <3>3, <4>1, <4>2, <1>1 DEF TypeOK
      <4>3. CASE k # i
        <5>1. idx'[PoolSeq[k]] = idx[PoolSeq[k]] /\ queue' = queue
          BY <3>1, <3>3, <4>3, <1>1, <1>0 DEF TypeOK
        <5> QED BY <3>2, <4>1, <4>3, <5>1
      <4> QED BY <4>2, <4>3
    <3>4. CASE filled % 2 = 1
      <4>1. filled = 2 * i - 1 /\ filled' = 2 * i /\ i \in Int /\ k \in Int /\ idx' = idx
        BY <3>4, <1>0, <1>1
      <4>2. CASE k = i
        <5>1. queue'[PoolSeq[k]] = TRUE
          BY <3>1, <3>4, <4>2, <1>1 DEF TypeOK
        <5> QED BY <3>2, <4>1, <4>2, <5>1
      <4>3. CASE k # i
        <5>1. queue'[PoolSeq[k]] = queue[PoolSeq[k]]
          BY <3>1, <3>4, <4>3, <1>1, <1>0 DEF TypeOK
        <5> QED BY <3>2, <4>1, <4>3, <5>1
      <4> QED BY <4>2, <4>3
    <3> QED BY <3>3, <3>4, <1>0
  <2> QED BY <2>1, <2>2, <1>1 DEF PoolOK
<1> QED BY <1>2, <1>3, <1>4, <1>5, <1>6

-----------------------------------------------------------------------------
(* The theorems *)

\* Every step keeps the invariant.
LEMMA NextInv == SignalInv /\ [Next]_vars => SignalInv'
<1> SUFFICES ASSUME SignalInv, [Next]_vars PROVE SignalInv'
  OBVIOUS
<1>1. CASE Next /\ ~Exited
  BY <1>1, PlanStartInv, DaemonLoadInv, DaemonStoreInv, DaemonTestInv, DaemonPushInv,
     SigCreateInv, SigCallInv, CheckInv, SigResetInv, PoolCreateInv, DetectInv, RearmInv
     DEF Next, Daemon
<1>2. CASE UNCHANGED vars
  <2>1. TypeOK' /\ DaemonOK'
    BY <1>2 DEF SignalInv, TypeOK, DaemonOK, vars, sigVars, msgVars, dmnVars, usrVars
  <2>2. UserOK' /\ PoolOK' /\ ReportsOK'
    BY <1>2 DEF SignalInv, UserOK, PoolOK, ReportsOK, InItems, vars, sigVars, dmnVars, usrVars
  <2>3. CounterExact' /\ Budget' /\ PartsOK'
    BY <1>2, UserFrame DEF vars, sigVars, msgVars
  <2> QED BY <2>1, <2>2, <2>3 DEF SignalInv
<1> QED BY <1>1, <1>2 DEF Exited

\* The counter's two words always account for exactly the messages and parts
\* that the daemon has not applied yet (unr_blk.c, lines 360-394).
THEOREM SignalInvariant == Spec => []SignalInv
<1>1. SignalInv /\ [Next]_vars => SignalInv'
  BY NextInv
<1> QED BY InitInv, <1>1, PTL DEF Spec

\* Every variable keeps its type.
THEOREM SignalTypes == Spec => []TypeOK
<1>1. SignalInv => TypeOK
  BY DEF SignalInv
<1> QED BY SignalInvariant, <1>1, PTL

\* A counter that reads zero (unr_sig_check, unr_sig_pool_detect) means that
\* all parts of all num_event messages have been applied, for any division
\* of the messages and any order of arrival.
THEOREM TriggersAreExact == Spec => []TriggerExact
<1>1. SignalInv => TriggerExact
  BY ZeroComplete DEF TriggerExact
<1> QED BY SignalInvariant, <1>1, PTL

\* No write of the application falls between the daemon's load and store of
\* a counter (uri_mpi_channel.c:237 against unr_sig.c:68 and unr_sig.c:99).
THEOREM NoUpdateIsLost == Spec => []NoLostUpdate
<1>1. SignalInv => NoLostUpdate
  BY DEF SignalInv, DaemonOK, NoLostUpdate
<1> QED BY SignalInvariant, <1>1, PTL

\* An undivided message is one part, and so is what the daemon applies for it.
Whole ==
    /\ \A m \in Msgs : dest[m].num <= 1 \/ dest[m].sig \in Divided
    /\ dpc = "store" => dadd = -1 \/ dsig \in Divided

LEMMA WholeStep == SignalInv /\ Whole /\ [Next]_vars => Whole'
<1> SUFFICES ASSUME SignalInv, Whole, [Next]_vars PROVE Whole'
  OBVIOUS
<1>1. ASSUME NEW m \in Msgs, NEW s \in Sigs, NEW num \in 1 .. NumChannels, PlanStart(m, s, num)
      PROVE  Whole'
  <2>1. /\ dest' = [dest EXCEPT ![m] = [sig |-> s, num |-> num]]
        /\ num = 1 \/ s \in Divided
        /\ UNCHANGED <<dpc, dsig, dadd>>
    BY <1>1 DEF PlanStart, dmnVars
  <2>2. \A n \in Msgs : dest'[n] = IF n = m THEN [sig |-> s, num |-> num] ELSE dest[n]
    BY <2>1 DEF SignalInv, TypeOK
  <2> QED
    BY <2>1, <2>2 DEF Whole
<1>2. ASSUME NEW p \in Parts, DaemonLoad(p) PROVE Whole'
  <2>1. /\ p \in pending /\ dsig' = dest[p[1]].sig /\ dadd' = SigAdd(dest[p[1]].num, p[2])
        /\ UNCHANGED dest
    BY <1>2 DEF DaemonLoad
  <2>2. /\ p[1] \in Msgs /\ p[2] \in Nat \ {0} /\ dest[p[1]].num \in Nat
        /\ p[2] <= dest[p[1]].num
    BY <2>1, SizeAssumption DEF Parts, SignalInv, TypeOK, PartsOK
  <2>3. dest[p[1]].num <= 1 => dest[p[1]].num = 1
    BY <2>2
  <2>4. dadd' = -1 \/ dsig' \in Divided
    BY <2>1, <2>2, <2>3 DEF Whole, SigAdd
  <2> QED
    BY <2>1, <2>4 DEF Whole
<1>3. CASE DaemonStore \/ DaemonTest \/ DaemonPush
  BY <1>3 DEF DaemonStore, DaemonTest, DaemonPush, msgVars, Whole
<1>4. ASSUME NEW s \in Sigs,
             SigCreate(s) \/ SigCall(s, "check") \/ SigCall(s, "wait") \/ SigReset(s)
      PROVE  Whole'
  BY <1>4 DEF SigCreate, SigCall, SigReset, msgVars, dmnVars, Whole
<1>5. CASE CheckOverflow \/ CheckZero \/ SigPoolCreate \/ SigPoolDetect \/ DetectRearm
  BY <1>5 DEF CheckOverflow, CheckZero, SigPoolCreate, SigPoolDetect, DetectRearm,
              msgVars, dmnVars, Whole
<1>6. CASE UNCHANGED vars
  BY <1>6 DEF vars, msgVars, dmnVars, Whole
<1> QED BY <1>1, <1>2, <1>3, <1>4, <1>5, <1>6 DEF Next, Daemon, Exited

\* The counter of a signal whose messages are not divided is the number of
\* messages not applied yet.
LEMMA UndividedCounter ==
    ASSUME SignalInv, Whole, NEW s \in created \ Divided
    PROVE  /\ counter[s] + Carried(s) \in Nat
           /\ counter[s] \in 0 .. NumEvent[s]
<1> DEFINE F == Cardinality(Firsts(s))
<1>1. /\ F \in Nat /\ left[s] \in Nat /\ counter[s] \in Int /\ s \in Sigs
      /\ NumEvent[s] \in Nat /\ W \in Nat
  BY PartsFinite, WordAssumption DEF SignalInv, TypeOK
<1>2. Others(s) = {} /\ Owed(s) = {}
  <2>1. \A p \in Parts : p[1] \in Msgs /\ p[2] \in Nat \ {0}
    BY SizeAssumption DEF Parts
  <2>2. \A m \in Msgs : dest[m].num \in Nat /\ (dest[m].sig = s => dest[m].num <= 1)
    BY SizeAssumption DEF SignalInv, TypeOK, Whole
  <2>3. \A p \in Parts : dest[p[1]].sig = s /\ p[2] <= dest[p[1]].num => p[2] = 1
    BY <2>1, <2>2
  <2>4. \A p \in pending : p \in Parts /\ p[2] <= dest[p[1]].num
    BY DEF SignalInv, TypeOK, PartsOK
  <2> QED
    BY <2>3, <2>4 DEF Others, Owed
<1>3. W * (Cardinality(Others(s)) - Cardinality(Owed(s))) = 0
  <2>1. Cardinality(Others(s)) = 0 /\ Cardinality(Owed(s)) = 0
    BY <1>2, FS_EmptySet
  <2>2. W * (0 - 0) = 0
    BY <1>1
  <2> QED BY <2>1, <2>2
<1>4. counter[s] + Carried(s) = left[s] + F
  <2>1. counter[s] + Carried(s) = left[s] + F + 0
    BY <1>3 DEF SignalInv, CounterExact
  <2> QED BY <2>1, <1>1
<1>5. left[s] + F + (IF CarriesFirst(s) THEN 1 ELSE 0) <= NumEvent[s]
  BY DEF SignalInv, Budget
<1>6. CASE dpc = "store" /\ dsig = s
  <2>1. dadd = -1
    BY <1>6 DEF Whole
  <2>2. s \in Sigs /\ W > 1
    BY <1>1, WordAssumption
  <2>3. CarriesFirst(s) /\ Carried(s) = -1
    BY <1>6, <2>1, <2>2, <1>1 DEF CarriesFirst, Carried
  <2> HIDE DEF F
  <2> QED BY <2>3, <1>1, <1>4, <1>5
<1>7. CASE ~(dpc = "store" /\ dsig = s)
  <2>1. ~CarriesFirst(s) /\ Carried(s) = 0
    BY <1>7 DEF CarriesFirst, Carried
  <2> HIDE DEF F
  <2> QED BY <2>1, <1>1, <1>4, <1>5
<1> QED BY <1>6, <1>7

\* In builds with and without assertions, the process exits only over a signal
\* whose messages are divided (uri_mpi_channel.c:238, queue.c:19, unr_sig.c:35
\* and :67).
THEOREM ExitsOnlyDivided == Spec => []HaltsOnlyDivided
<1>1. Init => HaltsOnlyDivided /\ Whole
  BY SizeAssumption DEF Init, HaltsOnlyDivided, Whole
<1>2. SignalInv /\ Whole /\ HaltsOnlyDivided /\ [Next]_vars => HaltsOnlyDivided'
  <2> SUFFICES ASSUME SignalInv, Whole, HaltsOnlyDivided, [Next]_vars PROVE HaltsOnlyDivided'
    OBVIOUS
  <2>1. CASE DaemonStore
    <3>1. dsig \in created /\ dtmp + dadd = counter[dsig] + Carried(dsig)
      BY <2>1 DEF DaemonStore, SignalInv, DaemonOK, Carried
    <3>2. dsig \notin Divided => dtmp + dadd \in Nat
      BY <3>1, UndividedCounter
    <3>3. dsig \notin Divided => ~(dtmp + dadd < 0)
      BY <3>2
    <3> QED BY <2>1, <3>3 DEF DaemonStore, HaltsOnlyDivided
  <2>2. CASE DaemonPush
    BY <2>2, RingHasRoom DEF DaemonPush, HaltsOnlyDivided
  <2>3. CASE CheckOverflow
    <3>1. usig \in created /\ usig \in Sigs
      BY <2>3 DEF CheckOverflow, SignalInv, UserOK, TypeOK
    <3>2. usig \notin Divided =>
            /\ counter[usig] \in 0 .. NumEvent[usig] /\ NumEvent[usig] \in Nat
            /\ 2 * NumEvent[usig] < W /\ W \in Nat
      BY <3>1, UndividedCounter, WordAssumption
    <3>3. usig \notin Divided => ~OverflowBits(counter[usig])
      BY <3>2 DEF OverflowBits
    <3> QED BY <2>3, <3>3 DEF CheckOverflow, HaltsOnlyDivided
  <2>4. ASSUME NEW s \in Sigs, SigReset(s) PROVE HaltsOnlyDivided'
    BY <2>4 DEF SigReset, HaltsOnlyDivided, SignalInv, UserOK
  <2>5. CASE UNCHANGED vars
    BY <2>5 DEF vars, dmnVars, usrVars, HaltsOnlyDivided
  <2>6. ASSUME NEW m \in Msgs, NEW s \in Sigs, NEW num \in 1 .. NumChannels, PlanStart(m, s, num)
        PROVE  HaltsOnlyDivided'
    BY <2>6 DEF PlanStart, HaltsOnlyDivided
  <2>7. ASSUME NEW p \in Parts, DaemonLoad(p) PROVE HaltsOnlyDivided'
    BY <2>7 DEF DaemonLoad, HaltsOnlyDivided
  <2>8. ASSUME NEW s \in Sigs, SigCreate(s) \/ SigCall(s, "check") \/ SigCall(s, "wait")
        PROVE  HaltsOnlyDivided'
    BY <2>8 DEF SigCreate, SigCall, HaltsOnlyDivided
  <2>9. CASE DaemonTest \/ CheckZero \/ SigPoolCreate \/ SigPoolDetect \/ DetectRearm
    BY <2>9 DEF DaemonTest, CheckZero, SigPoolCreate, SigPoolDetect, DetectRearm, HaltsOnlyDivided
  <2> QED
    BY <2>1, <2>2, <2>3, <2>4, <2>5, <2>6, <2>7, <2>8, <2>9 DEF Next, Daemon, Exited
<1> QED BY <1>1, <1>2, WholeStep, SignalInvariant, PTL DEF Spec

-----------------------------------------------------------------------------
(* One report per round *)

\* A signal that its pool does not watch yet has received nothing.
PoolQuiet ==
    \A s \in Pooled \cap created : ~queue[s] =>
        /\ counter[s] = NumEvent[s]
        /\ \A p \in pending : dest[p[1]].sig # s
        /\ dpc # "idle" => dsig # s

\* A watched signal at zero is in the ring, about to be pushed or detected.
Reported ==
    \A s \in Pooled : queue[s] /\ counter[s] = 0 /\ ~(dpc = "test" /\ dsig = s) =>
        \/ InItems(s)
        \/ dpc = "push" /\ dsig = s
        \/ upc = "rearm" /\ usig = s

\* Steps that leave the daemon and the signals alone.
LEMMA QuietFrame ==
    ASSUME PoolQuiet, UNCHANGED <<created, counter, queue, dest, pending, dpc, dsig>>
    PROVE  PoolQuiet'
BY DEF PoolQuiet

\* While peers wait for the pool, its members stay quiet until it watches them.
LEMMA QuietNext ==
    ASSUME PoolFirst, SignalInv, PoolQuiet, [Next]_vars
    PROVE  PoolQuiet'
<1> USE DEF SignalInv
<1>1. ASSUME NEW m \in Msgs, NEW s \in Sigs, NEW num \in 1 .. NumChannels, PlanStart(m, s, num)
      PROVE  PoolQuiet'
  <2> SUFFICES ASSUME NEW t \in Pooled \cap created, ~queue[t], NEW p \in pending'
               PROVE  dest'[p[1]].sig # t
    BY <1>1 DEF PlanStart, PoolQuiet, sigVars, dmnVars
  <2>1. t # s
    BY <1>1 DEF PlanStart
  <2>2. CASE p \in pending
    <3>1. p[1] \in Msgs /\ p[1] # m
      BY <1>1, <2>2 DEF PlanStart, TypeOK, Parts
    <3> QED BY <1>1, <2>2, <3>1 DEF PlanStart, TypeOK, PoolQuiet
  <2>3. CASE p \notin pending
    <3>1. p[1] = m
      BY <1>1, <2>3, SMTT(30) DEF PlanStart
    <3> QED BY <1>1, <2>1, <3>1 DEF PlanStart, TypeOK
  <2> QED BY <2>2, <2>3
<1>2. ASSUME NEW p \in Parts, DaemonLoad(p) PROVE PoolQuiet'
  BY <1>2 DEF DaemonLoad, PoolQuiet, sigVars
<1>3. CASE DaemonStore
  BY <1>3 DEF DaemonStore, PoolQuiet, msgVars, TypeOK
<1>4. CASE DaemonTest
  BY <1>4 DEF DaemonTest, PoolQuiet, sigVars, msgVars
<1>5. CASE DaemonPush
  BY <1>5 DEF DaemonPush, PoolQuiet, msgVars
<1>6. ASSUME NEW s \in Sigs, SigCreate(s) PROVE PoolQuiet'
  <2> SUFFICES ASSUME NEW t \in Pooled \cap created', ~queue'[t]
               PROVE  /\ counter'[t] = NumEvent[t]
                      /\ \A p \in pending : dest[p[1]].sig # t
                      /\ dpc # "idle" => dsig # t
    BY <1>6 DEF SigCreate, PoolQuiet, dmnVars
  <2>1. CASE t = s
    BY <1>6, <2>1 DEF SigCreate, TypeOK, PartsOK, DaemonOK
  <2>2. CASE t # s
    BY <1>6, <2>2 DEF SigCreate, TypeOK, PoolQuiet
  <2> QED BY <2>1, <2>2
<1>7. ASSUME NEW s \in Sigs, SigCall(s, "check") \/ SigCall(s, "wait") PROVE PoolQuiet'
  BY <1>7, QuietFrame DEF SigCall, sigVars, msgVars, dmnVars
<1>8. ASSUME NEW s \in Sigs, SigReset(s) PROVE PoolQuiet'
  <2>1. s \notin Pooled
    BY <1>8 DEF SigReset, UserOK
  <2>2. \A t \in Sigs \ {s} : counter'[t] = counter[t]
    BY <1>8 DEF SigReset, TypeOK
  <2> QED BY <1>8, <2>1, <2>2 DEF SigReset, PoolQuiet, dmnVars, TypeOK
<1>9. CASE CheckOverflow \/ CheckZero
  BY <1>9, QuietFrame DEF CheckOverflow, CheckZero, sigVars, msgVars, dmnVars
<1>10. CASE SigPoolCreate
  <2>1. \A t \in Sigs : queue[t] => queue'[t]
    BY <1>10 DEF SigPoolCreate, PoolStore, TypeOK
  <2> QED BY <1>10, <2>1 DEF SigPoolCreate, PoolQuiet, msgVars, dmnVars, TypeOK
<1>11. CASE SigPoolDetect
  BY <1>11, QuietFrame DEF SigPoolDetect, msgVars, dmnVars
<1>12. CASE DetectRearm
  BY <1>12 DEF DetectRearm, PoolQuiet, dmnVars, TypeOK
<1>13. CASE UNCHANGED vars
  BY <1>13, QuietFrame DEF vars, sigVars, msgVars, dmnVars
<1> QED BY <1>1, <1>2, <1>3, <1>4, <1>5, <1>6, <1>7, <1>8, <1>9, <1>10, <1>11, <1>12, <1>13
   DEF Next, Daemon, Exited

\* Steps that leave reports alone.
LEMMA ReportedFrame ==
    ASSUME Reported, UNCHANGED <<counter, queue, items, dpc, dsig>>,
           upc = "rearm" => UNCHANGED <<upc, usig>>
    PROVE  Reported'
BY DEF Reported, InItems

\* Every step keeps a signal at zero reported until it is armed again.
LEMMA ReportedNext ==
    ASSUME PoolFirst, SignalInv, PoolQuiet, Reported, [Next]_vars
    PROVE  Reported'
<1> USE DEF SignalInv
<1>0. Pooled \subseteq Sigs /\ \A s \in Sigs : NumEvent[s] # 0
  BY PoolAssumption, WordAssumption DEF Pooled
<1>1. ASSUME NEW m \in Msgs, NEW s \in Sigs, NEW num \in 1 .. NumChannels, PlanStart(m, s, num)
      PROVE  Reported'
  BY <1>1, ReportedFrame DEF PlanStart, sigVars, dmnVars, usrVars
<1>2. ASSUME NEW p \in Parts, DaemonLoad(p) PROVE Reported'
  BY <1>2 DEF DaemonLoad, Reported, InItems, sigVars, usrVars
<1>3. CASE DaemonStore
  BY <1>0, <1>3 DEF DaemonStore, Reported, InItems, usrVars, TypeOK
<1>4. CASE DaemonTest
  BY <1>4 DEF DaemonTest, Reported, InItems, sigVars, usrVars
<1>5. CASE DaemonPush
  <2>1. /\ dpc = "push" /\ dpc' = "idle" /\ items' = Append(items, idx[dsig])
        /\ UNCHANGED <<counter, queue, dsig, usrVars>>
    BY <1>5, RingHasRoom DEF DaemonPush
  <2>2. dsig \in Sigs /\ queue[dsig]
    BY <2>1 DEF DaemonOK, TypeOK
  <2>3. idx[dsig] \in 0 .. Len(PoolSeq) - 1 /\ PoolSeq[idx[dsig] + 1] = dsig
    BY <2>2, QueuedIdx
  <2>4. /\ Len(items') = Len(items) + 1 /\ Len(items) \in Nat
        /\ \A k \in 1 .. Len(items) : items'[k] = items[k]
        /\ items'[Len(items) + 1] = idx[dsig]
    BY <2>1, <2>3 DEF TypeOK
  <2>5. InItems(dsig)'
    BY <2>1, <2>3, <2>4 DEF InItems
  <2>6. \A s : InItems(s) => InItems(s)'
    BY <2>4 DEF InItems
  <2> QED BY <2>1, <2>5, <2>6 DEF Reported, usrVars
<1>6. ASSUME NEW s \in Sigs, SigCreate(s) PROVE Reported'
  <2>1. counter'[s] # 0 /\ \A t \in Sigs \ {s} : counter'[t] = counter[t] /\ queue'[t] = queue[t]
    BY <1>0, <1>6 DEF SigCreate, TypeOK
  <2> QED BY <1>0, <1>6, <2>1 DEF SigCreate, Reported, InItems, dmnVars, usrVars
<1>7. ASSUME NEW s \in Sigs, SigCall(s, "check") \/ SigCall(s, "wait") PROVE Reported'
  BY <1>7, ReportedFrame DEF SigCall, sigVars, dmnVars
<1>8. ASSUME NEW s \in Sigs, SigReset(s) PROVE Reported'
  <2>1. s \notin Pooled
    BY <1>8 DEF SigReset, UserOK
  <2>2. \A t \in Sigs \ {s} : counter'[t] = counter[t]
    BY <1>8 DEF SigReset, TypeOK
  <2> QED BY <1>0, <1>8, <2>1, <2>2 DEF SigReset, Reported, InItems, dmnVars
<1>9. CASE CheckOverflow \/ CheckZero
  BY <1>9, ReportedFrame DEF CheckOverflow, CheckZero, sigVars, dmnVars
<1>10. CASE SigPoolCreate
  <2>1. upc # "rearm" /\ Pooled \subseteq created /\ UNCHANGED <<counter, items, dpc, dsig>>
    BY <1>10 DEF SigPoolCreate, dmnVars
  <2>2. \A s \in Pooled : counter[s] = 0 => queue[s]
    BY <1>0, <2>1 DEF PoolQuiet
  <2> QED BY <2>1, <2>2 DEF Reported, InItems
<1>11. CASE SigPoolDetect
  <2>1. /\ items # <<>> /\ items' = Tail(items) /\ usig' = PoolSeq[items[1] + 1]
        /\ upc' = "rearm" /\ upc = "idle"
        /\ UNCHANGED <<counter, queue, dpc, dsig>>
    BY <1>11 DEF SigPoolDetect, TypeOK, dmnVars
  <2>2. /\ Len(items) \in Nat /\ Len(items') = Len(items) - 1
        /\ \A k \in 1 .. Len(items') : items'[k] = items[k + 1]
    BY <2>1 DEF TypeOK
  <2>3. ASSUME NEW s, InItems(s), s # usig' PROVE InItems(s)'
    <3>1. PICK k \in 1 .. Len(items) : PoolSeq[items[k] + 1] = s
      BY <2>3 DEF InItems
    <3>2. k # 1 /\ k - 1 \in 1 .. Len(items')
      BY <2>1, <2>2, <2>3, <3>1
    <3>3. items'[k - 1] = items[k]
      BY <2>2, <3>2
    <3> QED BY <3>1, <3>2, <3>3 DEF InItems
  <2> QED BY <2>1, <2>3 DEF Reported
<1>12. CASE DetectRearm
  <2>1. usig \in Sigs /\ counter'[usig] # 0 /\ \A t \in Sigs \ {usig} : counter'[t] = counter[t]
    BY <1>0, <1>12 DEF DetectRearm, TypeOK, ReportsOK
  <2> QED BY <1>0, <1>12, <2>1 DEF DetectRearm, Reported, InItems, dmnVars
<1>13. CASE UNCHANGED vars
  BY <1>13, ReportedFrame DEF vars, sigVars, dmnVars, usrVars
<1> QED BY <1>1, <1>2, <1>3, <1>4, <1>5, <1>6, <1>7, <1>8, <1>9, <1>10, <1>11, <1>12, <1>13
   DEF Next, Daemon, Exited

\* The entries of the ring that name a signal: one at most.
LEMMA EntriesOf ==
    ASSUME SignalInv, NEW s \in Pooled
    PROVE  Cardinality({k \in 1 .. Len(items) : PoolSeq[items[k] + 1] = s})
             = IF InItems(s) THEN 1 ELSE 0
<1> DEFINE K == {k \in 1 .. Len(items) : PoolSeq[items[k] + 1] = s}
<1>1. CASE InItems(s)
  <2>1. PICK k \in 1 .. Len(items) : PoolSeq[items[k] + 1] = s
    BY <1>1 DEF InItems
  <2>2. ASSUME NEW j \in K PROVE j = k
    <3>1. /\ items[j] \in 0 .. Len(PoolSeq) - 1 /\ items[k] \in 0 .. Len(PoolSeq) - 1
          /\ PoolSeq[items[j] + 1] = PoolSeq[items[k] + 1]
      BY <2>1, ItemsInPool DEF SignalInv
    <3>2. items[j] + 1 \in 1 .. Len(PoolSeq) /\ items[k] + 1 \in 1 .. Len(PoolSeq)
      BY <3>1, PoolAssumption
    <3>3. items[j] + 1 = items[k] + 1
      BY <3>1, <3>2, PoolAssumption
    <3>4. items[j] = items[k]
      BY <3>1, <3>3
    <3> QED BY <2>1, <3>4 DEF SignalInv, ReportsOK
  <2>3. K = {k}
    BY <2>1, <2>2
  <2> QED BY <1>1, <2>3, FS_Singleton
<1>2. CASE ~InItems(s)
  <2>1. K = {}
    BY <1>2 DEF InItems
  <2> QED BY <1>2, <2>1, FS_EmptySet
<1> QED BY <1>1, <1>2

\* A triggered signal is reported by one entry of the ring, push or detect,
\* and a waiting one by none (uri_mpi_channel.c:239, unr_sig.c:86-104),
\* provided that peers use a pooled signal only once its pool exists.
THEOREM TriggersReportedOnce ==
    ASSUME PoolFirst
    PROVE  Spec => []ReportOnce
<1>1. Init => PoolQuiet /\ Reported
  <2>1. Pooled \subseteq Sigs
    BY PoolAssumption DEF Pooled
  <2> QED BY <2>1 DEF Init, PoolQuiet, Reported
<1>2. SignalInv /\ PoolQuiet /\ Reported /\ [Next]_vars => PoolQuiet' /\ Reported'
  BY QuietNext, ReportedNext
<1>3. SignalInv /\ Reported => ReportOnce
  <2> SUFFICES ASSUME SignalInv, Reported, NEW s \in Pooled,
                      queue[s], ~(dpc = "test" /\ dsig = s)
               PROVE  Reports(s) = IF counter[s] = 0 THEN 1 ELSE 0
    BY DEF ReportOnce
  <2>1. Reports(s) = (IF InItems(s) THEN 1 ELSE 0)
                     + (IF dpc = "push" /\ dsig = s THEN 1 ELSE 0)
                     + (IF upc = "rearm" /\ usig = s THEN 1 ELSE 0)
    BY EntriesOf DEF Reports
  <2>2. /\ InItems(s) => counter[s] = 0
        /\ dpc = "push" /\ dsig = s => counter[s] = 0 /\ ~InItems(s)
        /\ upc = "rearm" /\ usig = s => /\ counter[s] = 0 /\ ~InItems(s)
                                        /\ ~(dpc = "push" /\ dsig = s)
    BY DEF SignalInv, DaemonOK, ReportsOK, InItems
  <2>3. counter[s] = 0 => \/ InItems(s)
                          \/ dpc = "push" /\ dsig = s
                          \/ upc = "rearm" /\ usig = s
    BY DEF Reported
  <2> QED BY <2>1, <2>2, <2>3
<1> QED BY <1>1, <1>2, <1>3, SignalInvariant, PTL DEF Spec
=============================================================================
