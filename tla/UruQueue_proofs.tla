---------------------------- MODULE UruQueue_proofs ----------------------------
(***************************************************************************)
(* For rings of any size and any number of polling threads: the ring is    *)
(* never full, loses and repeats no value, and implements Fifo.            *)
(***************************************************************************)
EXTENDS UruQueue, FiniteSetTheorems, FunctionTheorems, SequenceTheorems, TLAPS

-----------------------------------------------------------------------------
(* Positions in the ring *)

LEMMA SizeIs == Size \in Nat /\ Size > 1 /\ Size - 1 = QueueSize
BY QueueAssumption DEF Size

LEMMA Modulo ==
    ASSUME NEW n \in Nat, n > 0, NEW a \in Int
    PROVE  /\ 0 <= a /\ a < n => a % n = a
           /\ n <= a /\ a < 2 * n => a % n = a - n
           /\ -n <= a /\ a < 0 => a % n = a + n
BY Z3

LEMMA SuccIs ==
    ASSUME NEW i \in 0 .. Size - 1
    PROVE  /\ Succ(i) = IF i = Size - 1 THEN 0 ELSE i + 1
           /\ Succ(i) \in 0 .. Size - 1
<1>1. i + 1 \in Int /\ 0 <= i + 1 /\ i + 1 <= Size
  BY SizeIs
<1>2. Succ(i) = IF i = Size - 1 THEN 0 ELSE i + 1
  BY <1>1, SizeIs, Modulo DEF Succ
<1> QED BY <1>2, SizeIs

\* the number of entries and the slot of the i-th oldest one, by head and tail
Entries(h, t) == (t - h) % Size
Slot(h, i) == (h + i - 1) % Size

LEMMA EntriesIs ==
    ASSUME NEW h \in 0 .. Size - 1, NEW t \in 0 .. Size - 1
    PROVE  /\ Entries(h, t) = IF h <= t THEN t - h ELSE t - h + Size
           /\ Entries(h, t) \in 0 .. Size - 1
<1>1. t - h \in Int /\ -Size <= t - h /\ t - h < Size
  BY SizeIs
<1> QED BY <1>1, SizeIs, Modulo DEF Entries

LEMMA SlotIs ==
    ASSUME NEW h \in 0 .. Size - 1, NEW i \in 1 .. Size
    PROVE  /\ Slot(h, i) = IF h + i - 1 < Size THEN h + i - 1 ELSE h + i - 1 - Size
           /\ Slot(h, i) \in 0 .. Size - 1
<1>1. h + i - 1 \in Int /\ 0 <= h + i - 1 /\ h + i - 1 < 2 * Size
  BY SizeIs
<1> QED BY <1>1, SizeIs, Modulo DEF Slot

\* The tail is the first slot behind the entries.
LEMMA Slots ==
    ASSUME NEW h \in 0 .. Size - 1, NEW t \in 0 .. Size - 1
    PROVE  /\ Slot(h, 1) = h /\ Slot(h, Entries(h, t) + 1) = t
           /\ \A i \in 1 .. Entries(h, t) : Slot(h, i) \in 0 .. Size - 1 /\ Slot(h, i) # t
<1>1. /\ Entries(h, t) = IF h <= t THEN t - h ELSE t - h + Size
      /\ Entries(h, t) \in 0 .. Size - 1
  BY EntriesIs
<1>2. \A i \in 1 .. Entries(h, t) + 1 :
          /\ Slot(h, i) = IF h + i - 1 < Size THEN h + i - 1 ELSE h + i - 1 - Size
          /\ Slot(h, i) \in 0 .. Size - 1
  BY <1>1, SizeIs, SlotIs
<1>3. Slot(h, 1) = h BY <1>1, <1>2, SizeIs
<1>4. Slot(h, Entries(h, t) + 1) = t BY <1>1, <1>2, SizeIs
<1>5. ASSUME NEW i \in 1 .. Entries(h, t) PROVE Slot(h, i) \in 0 .. Size - 1 /\ Slot(h, i) # t
  BY <1>1, <1>2, SizeIs
<1> QED BY <1>3, <1>4, <1>5

LEMMA TailAdvances ==
    ASSUME NEW h \in 0 .. Size - 1, NEW t \in 0 .. Size - 1, Entries(h, t) < QueueSize
    PROVE  Succ(t) \in 0 .. Size - 1 /\ Entries(h, Succ(t)) = Entries(h, t) + 1
<1>1. Succ(t) = (IF t = Size - 1 THEN 0 ELSE t + 1) /\ Succ(t) \in 0 .. Size - 1
  BY SuccIs
<1>2. Entries(h, t) = IF h <= t THEN t - h ELSE t - h + Size
  BY EntriesIs
<1>3. Entries(h, Succ(t)) = IF h <= Succ(t) THEN Succ(t) - h ELSE Succ(t) - h + Size
  BY <1>1, EntriesIs
<1> QED BY <1>1, <1>2, <1>3, SizeIs

LEMMA HeadAdvances ==
    ASSUME NEW h \in 0 .. Size - 1, NEW t \in 0 .. Size - 1, h # t
    PROVE  /\ Entries(h, t) > 0 /\ Succ(h) \in 0 .. Size - 1
           /\ Entries(Succ(h), t) = Entries(h, t) - 1
           /\ \A i \in 1 .. Entries(h, t) - 1 : Slot(Succ(h), i) = Slot(h, i + 1)
<1>1. Succ(h) = (IF h = Size - 1 THEN 0 ELSE h + 1) /\ Succ(h) \in 0 .. Size - 1
  BY SuccIs
<1>2. Entries(h, t) > 0 /\ Entries(Succ(h), t) = Entries(h, t) - 1
  <2>1. Entries(h, t) = IF h <= t THEN t - h ELSE t - h + Size
    BY EntriesIs
  <2>2. Entries(Succ(h), t) = IF Succ(h) <= t THEN t - Succ(h) ELSE t - Succ(h) + Size
    BY <1>1, EntriesIs
  <2> QED BY <1>1, <2>1, <2>2, SizeIs
<1>3. ASSUME NEW i \in 1 .. Entries(h, t) - 1 PROVE Slot(Succ(h), i) = Slot(h, i + 1)
  <2>1. i \in 1 .. Size /\ i + 1 \in 1 .. Size BY EntriesIs, SizeIs
  <2>2. Slot(h, i + 1) = IF h + i < Size THEN h + i ELSE h + i - Size
    BY <2>1, SlotIs
  <2>3. Slot(Succ(h), i) = IF Succ(h) + i - 1 < Size THEN Succ(h) + i - 1 ELSE Succ(h) + i - 1 - Size
    BY <2>1, <1>1, SlotIs
  <2> QED BY <1>1, <2>1, <2>2, <2>3, SizeIs
<1> QED BY <1>1, <1>2, <1>3

\* A push meets its assertion only when every slot but one is taken.
LEMMA FullMeans ==
    ASSUME NEW h \in 0 .. Size - 1, NEW t \in 0 .. Size - 1, h = Succ(t)
    PROVE  Entries(h, t) = QueueSize
<1>1. h = IF t = Size - 1 THEN 0 ELSE t + 1 BY SuccIs
<1>2. Entries(h, t) = IF h <= t THEN t - h ELSE t - h + Size BY EntriesIs
<1> QED BY <1>1, <1>2, SizeIs

-----------------------------------------------------------------------------
(* The inductive invariant *)

InHands == IF ppc \in {"write", "advance"} THEN {pdata} ELSE {}
Ring(i) == buff[Slot(head, i)]
InRing == {Ring(i) : i \in 1 .. Count}

\* The lock is held by the thread that is inside.
Locked ==
    /\ lock = "producer" <=> ppc # "idle"
    /\ \A c \in Consumers : lock = c <=> cpc[c] \in {"locked", "unlock"}

Placed ==
    /\ \A i, j \in 1 .. Count : Ring(i) = Ring(j) => i = j
    /\ InRing \subseteq Values /\ InHands \subseteq Values
    /\ InRing \cap InHands = {} /\ armed \cap (InRing \cup InHands) = {}
    /\ Values \subseteq armed \cup InRing \cup InHands

\* The entry is written before the tail passes it.
Written == ppc = "advance" => buff[tail] = pdata

\* A consumer that is alone has read the head that is still there.
Alone == \A c \in Consumers : Consumers = {c} /\ cpc[c] = "peek" => chead[c] = head

IInv == TypeOK /\ Locked /\ Placed /\ Written /\ Alone /\ ~full

LEMMA CountEntries == Count = Entries(head, tail) BY DEF Count, Entries

\* The values in the ring are as many as the entries, and one more fits while
\* a value is in the producer's hands.
LEMMA Room ==
    ASSUME IInv
    PROVE  /\ Count \in 0 .. QueueSize
           /\ Cardinality(InRing) = Count
           /\ InHands # {} => Count < QueueSize
<1>1. Count \in Nat /\ Count <= QueueSize
  BY CountEntries, EntriesIs, SizeIs DEF IInv, TypeOK
<1>2. IsFiniteSet(Values) /\ Cardinality(Values) = QueueSize
  BY FS_Interval, QueueAssumption DEF Values
<1>3. Cardinality(InRing) = Count
  <2> DEFINE f == [i \in 1 .. Count |-> Ring(i)]
  <2>1. /\ f \in [1 .. Count -> InRing]
        /\ \A i, j \in 1 .. Count : f[i] = f[j] => i = j
        /\ \A v \in InRing : \E i \in 1 .. Count : f[i] = v
    BY DEF InRing, IInv, Placed
  <2>2. f \in Bijection(1 .. Count, InRing)
    <3> HIDE DEF f
    <3> QED BY <2>1, Fun_IsBij
  <2> QED BY <1>1, <2>2, Fun_ExistsBij, FS_CountingElements
<1>4. InHands # {} => Count < QueueSize
  <2> SUFFICES ASSUME InHands # {}, Count = QueueSize PROVE FALSE
    BY <1>1, QueueAssumption
  <2>1. InRing = Values
    BY <1>2, <1>3, FS_Subset DEF IInv, Placed
  <2> QED BY <2>1 DEF IInv, Placed
<1> QED BY <1>1, <1>3, <1>4

-----------------------------------------------------------------------------
(* The invariant is inductive *)

\* A step that moves neither end and writes no entry of the ring keeps the
\* entries.
LEMMA RingKept ==
    ASSUME head' = head, tail' = tail, \A i \in 1 .. Count : Ring(i)' = Ring(i)
    PROVE  Count' = Count /\ InRing' = InRing
BY DEF Count, InRing, Size

LEMMA InitInv == Init => IInv
<1> SUFFICES ASSUME Init PROVE IInv
  OBVIOUS
<1>1. TypeOK
  <2>1. 0 \in 0 .. Size - 1 BY SizeIs
  <2> QED BY <2>1 DEF Init, TypeOK
<1>2. Count = 0
  BY CountEntries, EntriesIs, <1>1, SizeIs DEF Init, TypeOK
<1>3. InRing = {} BY <1>2 DEF InRing
<1>4. Placed BY <1>2, <1>3 DEF Placed, Init, InHands
<1>5. Locked BY QueueAssumption DEF Locked, Init
<1> QED BY <1>1, <1>4, <1>5 DEF IInv, Init, Written, Alone

LEMMA PushLockInv ==
    ASSUME IInv, NEW d \in Values, PushLock(d) PROVE IInv'
<1> USE DEF PushLock
<1>1. TypeOK' BY DEF IInv, TypeOK, Size
<1>2. Locked' BY QueueAssumption DEF IInv, TypeOK, Locked
<1>3. Count' = Count /\ InRing' = InRing /\ \A i \in 1 .. Count : Ring(i)' = Ring(i)
  BY RingKept DEF Ring, Slot, Size
<1>4. InHands = {} /\ InHands' = {d} /\ armed' = armed \ {d} BY DEF InHands
<1>5. Placed'
  <2>1. \A i, j \in 1 .. Count' : Ring(i)' = Ring(j)' => i = j
    BY <1>3 DEF IInv, Placed
  <2> QED BY <2>1, <1>3, <1>4 DEF IInv, Placed
<1>6. Written' /\ Alone' BY DEF IInv, Written, Alone
<1> QED BY <1>1, <1>2, <1>5, <1>6 DEF IInv

LEMMA PushWriteInv ==
    ASSUME IInv, PushWrite PROVE IInv'
<1> USE DEF PushWrite
<1>1. head \in 0 .. Size - 1 /\ tail \in 0 .. Size - 1 BY DEF IInv, TypeOK
<1>2. InHands = {pdata} /\ InHands' = {pdata} BY DEF InHands
<1>3. Count < QueueSize BY <1>2, Room
<1>4. ~full'
  <2>1. head = Succ(tail) => Count = QueueSize BY <1>1, FullMeans, CountEntries
  <2>2. head # Succ(tail)
    <3> SUFFICES ASSUME head = Succ(tail) PROVE FALSE
      OBVIOUS
    <3> QED BY <2>1, <1>3, QueueAssumption
  <2>3. full' = (head = Succ(tail)) OBVIOUS
  <2> QED BY <2>2, <2>3, Zenon
<1>5. TypeOK' BY <1>1, <1>4, <1>2 DEF IInv, TypeOK, Placed, Size
<1>6. Locked' BY DEF IInv, TypeOK, Locked
<1>7. \A i \in 1 .. Count : Ring(i)' = Ring(i)
  BY <1>1, Slots, CountEntries DEF Ring, IInv, TypeOK, Slot, Size
<1>8. Count' = Count /\ InRing' = InRing BY <1>7, RingKept
<1>9. Placed'
  <2>1. \A i, j \in 1 .. Count' : Ring(i)' = Ring(j)' => i = j
    BY <1>7, <1>8 DEF IInv, Placed
  <2> QED BY <2>1, <1>2, <1>8 DEF IInv, Placed
<1>10. Written' BY <1>1 DEF IInv, TypeOK, Written
<1>11. Alone' BY DEF IInv, Alone
<1> QED BY <1>4, <1>5, <1>6, <1>9, <1>10, <1>11 DEF IInv

LEMMA AdvancedRing ==
    ASSUME IInv, PushAdvance
    PROVE  /\ Count < QueueSize /\ Count' = Count + 1 /\ tail' \in 0 .. Size - 1
           /\ \A i \in 1 .. Count : Ring(i)' = Ring(i)
           /\ \A i \in 1 .. Count + 1 : i = Count + 1 => Ring(i)' = pdata
<1> USE DEF PushAdvance
<1>1. head \in 0 .. Size - 1 /\ tail \in 0 .. Size - 1 BY DEF IInv, TypeOK
<1>2. Count < QueueSize BY Room DEF InHands
<1>3. Count' = Entries(head, Succ(tail)) BY DEF Count, Entries, Size
<1>4. Count' = Count + 1 /\ tail' \in 0 .. Size - 1
  BY <1>1, <1>2, <1>3, TailAdvances, CountEntries
<1>5. \A i \in 1 .. Count + 1 : Ring(i)' = Ring(i) BY DEF Ring, Slot, Size
<1>6. Ring(Count + 1) = pdata
  BY <1>1, Slots, CountEntries DEF Ring, IInv, Written
<1>7. Count \in Nat BY Room, QueueAssumption
<1>8. 1 .. Count \subseteq 1 .. Count + 1 /\ Count + 1 \in 1 .. Count + 1 BY <1>7
<1> QED BY <1>2, <1>4, <1>5, <1>6, <1>8

LEMMA PushAdvanceInv ==
    ASSUME IInv, PushAdvance PROVE IInv'
<1> USE DEF PushAdvance
<1>1. TypeOK' BY AdvancedRing DEF IInv, TypeOK, Size
<1>2. Locked' BY DEF IInv, TypeOK, Locked
<1>3. Count \in Nat /\ InHands = {pdata} /\ InHands' = {} BY Room, QueueAssumption DEF InHands
<1>0. /\ Count' = Count + 1
      /\ \A i \in 1 .. Count : Ring(i)' = Ring(i)
      /\ \A i \in 1 .. Count + 1 : i = Count + 1 => Ring(i)' = pdata
  BY AdvancedRing
<1>4. InRing' = InRing \cup {pdata}
  <2>1. InRing' = {Ring(i)' : i \in 1 .. Count + 1} BY <1>0 DEF InRing
  <2>2. \A i \in 1 .. Count + 1 : i \in 1 .. Count \/ i = Count + 1 BY <1>3
  <2>3. 1 .. Count \subseteq 1 .. Count + 1 /\ Count + 1 \in 1 .. Count + 1 BY <1>3
  <2> QED BY <2>1, <2>2, <2>3, <1>0 DEF InRing
<1>5. \A i, j \in 1 .. Count' : Ring(i)' = Ring(j)' => i = j
  <2> SUFFICES ASSUME NEW i \in 1 .. Count + 1, NEW j \in 1 .. Count + 1, Ring(i)' = Ring(j)'
               PROVE  i = j
    BY <1>0
  <2>1. /\ i \in 1 .. Count \/ i = Count + 1
        /\ j \in 1 .. Count \/ j = Count + 1
    BY <1>3
  <2>2. \A k \in 1 .. Count : Ring(k) # pdata
    BY <1>3 DEF IInv, Placed, InRing
  <2> QED BY <2>1, <2>2, <1>0 DEF IInv, Placed
<1>6. Placed' BY <1>3, <1>4, <1>5 DEF IInv, Placed
<1>7. Written' /\ Alone' BY DEF IInv, Written, Alone
<1> QED BY <1>1, <1>2, <1>6, <1>7 DEF IInv

LEMMA TakenRing ==
    ASSUME IInv, NEW c \in Consumers, PopTake(c), head # tail
    PROVE  /\ Count > 0 /\ Count' = Count - 1 /\ head' \in 0 .. Size - 1
           /\ \A i \in 1 .. Count - 1 : Ring(i)' = Ring(i + 1)
           /\ buff[head] = Ring(1) /\ Ring(1) \in Values
<1> USE DEF PopTake
<1>1. head \in 0 .. Size - 1 /\ tail \in 0 .. Size - 1 BY DEF IInv, TypeOK
<1>2. head' = Succ(head) /\ Count' = Entries(Succ(head), tail) BY DEF Count, Entries, Size
<1>3. Count > 0 /\ Count' = Count - 1 /\ head' \in 0 .. Size - 1
  BY <1>1, <1>2, HeadAdvances, CountEntries
<1>4. \A i \in 1 .. Count - 1 : Ring(i)' = buff[Slot(Succ(head), i)]
  BY <1>2 DEF Ring, Slot, Size
<1>5. \A i \in 1 .. Count - 1 : Ring(i)' = Ring(i + 1)
  BY <1>1, <1>4, HeadAdvances, CountEntries DEF Ring
<1>6. buff[head] = Ring(1) BY <1>1, Slots DEF Ring
<1>7. Ring(1) \in Values BY <1>3, Room DEF InRing, IInv, Placed
<1> QED BY <1>3, <1>5, <1>6, <1>7

LEMMA PopTakeInv ==
    ASSUME IInv, NEW c \in Consumers, PopTake(c) PROVE IInv'
<1> USE DEF PopTake
<1>1. lock = c /\ ppc = "idle" /\ InHands = {} /\ InHands' = {}
  BY QueueAssumption DEF IInv, Locked, InHands
<1>2. Locked' BY DEF IInv, TypeOK, Locked
<1>3. Written' BY DEF IInv, Written
<1>4. Alone' BY DEF IInv, Alone, TypeOK
<1>5. CASE head = tail
  <2>1. TypeOK' BY <1>5 DEF IInv, TypeOK, Size
  <2>2. Count' = Count /\ InRing' = InRing /\ \A i \in 1 .. Count : Ring(i)' = Ring(i)
    BY <1>5, RingKept DEF Ring, Slot, Size
  <2>3. Placed' BY <1>5, <2>2, <1>1 DEF IInv, Placed
  <2> QED BY <1>2, <1>3, <1>4, <2>1, <2>3 DEF IInv
<1>6. CASE head # tail
  <2>1. TypeOK' BY <1>6, TakenRing DEF IInv, TypeOK, Size
  <2>0. /\ Count > 0 /\ Count' = Count - 1 /\ head' \in 0 .. Size - 1
        /\ \A i \in 1 .. Count - 1 : Ring(i)' = Ring(i + 1)
        /\ buff[head] = Ring(1) /\ Ring(1) \in Values
    BY <1>6, TakenRing
  <2>2. Count \in Nat /\ Count > 0 BY <2>0, Room, QueueAssumption
  <2>3. InRing = InRing' \cup {Ring(1)} /\ armed' = armed \cup {Ring(1)}
    <3>1. InRing' = {Ring(i + 1) : i \in 1 .. Count - 1}
      BY <1>6, TakenRing DEF InRing
    <3>2. \A i \in 1 .. Count : i = 1 \/ (i - 1 \in 1 .. Count - 1 /\ i - 1 + 1 = i)
      BY <2>2
    <3>3. \A i \in 1 .. Count - 1 : i + 1 \in 1 .. Count BY <2>2
    <3>4. 1 \in 1 .. Count BY <2>2
    <3>5. InRing \subseteq InRing' \cup {Ring(1)}
      <4> SUFFICES ASSUME NEW i \in 1 .. Count, i # 1 PROVE Ring(i) \in InRing'
        BY DEF InRing
      <4> DEFINE k == i - 1
      <4>1. k \in 1 .. Count - 1 /\ Ring(i) = Ring(k + 1) BY <3>2
      <4> QED BY <4>1, <3>1
    <3>6. InRing' \cup {Ring(1)} \subseteq InRing
      BY <3>1, <3>3, <3>4 DEF InRing
    <3> QED BY <1>6, <3>5, <3>6, TakenRing
  <2>4. \A i, j \in 1 .. Count' : Ring(i)' = Ring(j)' => i = j
    <3> SUFFICES ASSUME NEW i \in 1 .. Count - 1, NEW j \in 1 .. Count - 1, Ring(i + 1) = Ring(j + 1)
                 PROVE  i = j
      BY <1>6, TakenRing
    <3>1. i + 1 \in 1 .. Count /\ j + 1 \in 1 .. Count BY <2>2
    <3>2. i + 1 = j + 1 BY <3>1 DEF IInv, Placed
    <3> QED BY <3>2, <2>2
  <2>5. Ring(1) \notin InRing'
    <3> SUFFICES ASSUME NEW i \in 1 .. Count - 1, Ring(i + 1) = Ring(1) PROVE FALSE
      BY <1>6, TakenRing DEF InRing
    <3>1. i + 1 \in 1 .. Count /\ 1 \in 1 .. Count /\ i + 1 # 1 BY <2>2
    <3> QED BY <3>1 DEF IInv, Placed
  <2>6. Placed' BY <1>1, <2>3, <2>4, <2>5 DEF IInv, Placed
  <2> QED BY <1>2, <1>3, <1>4, <2>1, <2>6 DEF IInv
<1> QED BY <1>5, <1>6

\* The other steps move no entry.
LEMMA QuietInv ==
    ASSUME IInv, \/ PushUnlock
                 \/ \E c \in Consumers : PeekHead(c) \/ PeekTail(c) \/ PopLock(c) \/ PopUnlock(c)
                 \/ UNCHANGED vars
    PROVE  IInv' /\ Items' = Items
<1> USE DEF PushUnlock, PeekHead, PeekTail, PopLock, PopUnlock, vars
<1>1. head' = head /\ tail' = tail /\ buff' = buff /\ armed' = armed /\ pdata' = pdata /\ full' = full
  OBVIOUS
<1>2. TypeOK' BY DEF IInv, TypeOK, Size
<1>3. Locked' BY QueueAssumption DEF IInv, TypeOK, Locked
<1>4. Count' = Count /\ InRing' = InRing /\ \A i \in 1 .. Count : Ring(i)' = Ring(i)
  BY <1>1, RingKept DEF Ring, Slot, Size
<1>5. InHands' = InHands BY <1>1 DEF InHands
<1>6. Placed' BY <1>1, <1>4, <1>5 DEF IInv, Placed
<1>7. Written' BY <1>1 DEF IInv, Written
<1>8. Alone' BY <1>1 DEF IInv, TypeOK, Alone
<1>9. Items' = Items BY <1>1, <1>4 DEF Items, Size
<1> QED BY <1>1, <1>2, <1>3, <1>6, <1>7, <1>8, <1>9 DEF IInv

LEMMA Inductive == Spec => []IInv
<1>1. IInv /\ [Next]_vars => IInv'
  BY PushLockInv, PushWriteInv, PushAdvanceInv, PopTakeInv, QuietInv
     DEF Next, Producer, Consumer
<1> QED BY InitInv, <1>1, PTL DEF Spec

\* The assertion of uru_queue_push never fails, for any number of signals in
\* the pool: the slot that uru_queue_init adds is enough.
THEOREM RingNeverFull == Spec => []NeverFull
<1>1. IInv => NeverFull BY DEF IInv, NeverFull
<1> QED BY Inductive, <1>1, PTL

\* No value is lost or repeated, and no poll returns what was never pushed,
\* although threads test for emptiness without the lock.
THEOREM ValuesAreExact == Spec => []ValuesExact
<1>1. IInv => ValuesExact
  <2> SUFFICES ASSUME IInv PROVE ValuesExact
    OBVIOUS
  <2>1. {Items[i] : i \in 1 .. Count} = InRing
    BY DEF Items, InRing, Ring, Slot
  <2>2. Cardinality(InRing) = Count BY Room
  <2>3. armed \cup InRing \cup InHands = Values
    BY DEF IInv, TypeOK, Placed
  <2> QED BY <2>1, <2>2, <2>3 DEF ValuesExact, IInv, Placed, InHands
<1> QED BY Inductive, <1>1, PTL

\* Both together: what uru_queue_push and uru_queue_pop promise of the ring.
THEOREM RingIsExact == Spec => []RingExact
<1>1. NeverFull /\ ValuesExact => RingExact
  BY DEF RingExact
<1> QED
  BY RingNeverFull, ValuesAreExact, <1>1, PTL

-----------------------------------------------------------------------------
(* The ring implements Fifo *)

ItemsExact ==
    /\ Items \in Seq(Values) /\ Len(Items) = Count
    /\ \A i \in 1 .. Count : Items[i] = Ring(i)
    /\ Items = <<>> <=> head = tail

LEMMA ItemsAre == IInv => ItemsExact
<1> SUFFICES ASSUME IInv PROVE ItemsExact
  OBVIOUS
<1>1. Count \in Nat BY Room, QueueAssumption
<1>2. \A i \in 1 .. Count : Ring(i) \in Values BY DEF IInv, Placed, InRing
<1>3. Items = [i \in 1 .. Count |-> Ring(i)] BY DEF Items, Ring, Slot
<1>4. Items \in Seq(Values) /\ Len(Items) = Count
  BY <1>1, <1>2, <1>3
<1>5. Count = 0 <=> head = tail
  <2>1. head \in 0 .. Size - 1 /\ tail \in 0 .. Size - 1 BY DEF IInv, TypeOK
  <2>2. Count = IF head <= tail THEN tail - head ELSE tail - head + Size
    BY <2>1, EntriesIs, CountEntries
  <2> QED BY <2>1, <2>2, SizeIs
<1> QED BY <1>1, <1>3, <1>4, <1>5, EmptySeq DEF ItemsExact

LEMMA ItemsAreNext == IInv' => ItemsExact'
BY ItemsAre, PTL

LEMMA PushWriteSkips ==
    ASSUME IInv, PushWrite PROVE Items' = Items
<1> USE DEF PushWrite
<1>1. head \in 0 .. Size - 1 /\ tail \in 0 .. Size - 1 BY DEF IInv, TypeOK
<1>2. \A i \in 1 .. Count : Ring(i)' = Ring(i)
  BY <1>1, Slots, CountEntries DEF Ring, IInv, TypeOK, Slot, Size
<1>3. Count' = Count BY <1>2, RingKept
<1>4. Items = [i \in 1 .. Count |-> Ring(i)] /\ Items' = [i \in 1 .. Count' |-> Ring(i)']
  BY DEF Items, Ring, Slot, Size
<1> QED BY <1>2, <1>3, <1>4

\* The tail passes the entry: the push takes effect.
LEMMA PushAdvancePushes ==
    ASSUME IInv, PushAdvance PROVE \E d \in Values : Abstract!Push(d)
<1>1. /\ Count < QueueSize /\ Count' = Count + 1
      /\ \A i \in 1 .. Count : Ring(i)' = Ring(i)
      /\ \A i \in 1 .. Count + 1 : i = Count + 1 => Ring(i)' = pdata
  BY AdvancedRing
<1>2. pdata \in Values BY DEF PushAdvance, IInv, Placed, InHands
<1>3. IInv' BY PushAdvanceInv
<1>4. Items \in Seq(Values) /\ Len(Items) = Count /\ \A i \in 1 .. Count : Items[i] = Ring(i)
  BY ItemsAre DEF ItemsExact
<1>5. /\ Items' \in Seq(Values) /\ Len(Items') = Count + 1
      /\ \A i \in 1 .. Count + 1 : Items'[i] = Ring(i)'
  BY <1>1, <1>3, ItemsAreNext DEF ItemsExact
<1>6. Items' = Append(Items, pdata)
  BY <1>1, <1>2, <1>4, <1>5
<1>7. got' = got BY DEF PushAdvance
<1> QED BY <1>1, <1>2, <1>4, <1>6, <1>7 DEF Abstract!Push

LEMMA PopTakePops ==
    ASSUME IInv, NEW c \in Consumers, PopTake(c)
    PROVE  Abstract!Pop(c) \/ Abstract!PopEmpty(c)
<1>1. CASE head = tail
  <2>1. Items = <<>> BY <1>1, ItemsAre DEF ItemsExact
  <2>2. got' = [got EXCEPT ![c] = -1] /\ UNCHANGED <<head, tail, buff>>
    BY <1>1 DEF PopTake
  <2>3. Items' = Items BY <2>2 DEF Items, Count, Size
  <2> QED BY <2>1, <2>2, <2>3 DEF Abstract!PopEmpty
<1>2. CASE head # tail
  <2>1. /\ Count > 0 /\ Count' = Count - 1
        /\ \A i \in 1 .. Count - 1 : Ring(i)' = Ring(i + 1)
        /\ buff[head] = Ring(1)
    BY <1>2, TakenRing
  <2>2. IInv' BY PopTakeInv
  <2>3. Items \in Seq(Values) /\ Len(Items) = Count /\ \A i \in 1 .. Count : Items[i] = Ring(i)
    BY ItemsAre DEF ItemsExact
  <2>4. /\ Items' \in Seq(Values) /\ Len(Items') = Count - 1
        /\ \A i \in 1 .. Count - 1 : Items'[i] = Ring(i)'
    BY <2>1, <2>2, ItemsAreNext DEF ItemsExact
  <2>5. Items # <<>> /\ Head(Items) = Ring(1)
    BY <2>1, <2>3
  <2>6. Items' = Tail(Items)
    <3>1. \A i \in 1 .. Count - 1 : i + 1 \in 1 .. Count /\ Items'[i] = Items[i + 1]
      BY <2>1, <2>3, <2>4
    <3> QED BY <2>1, <2>3, <2>4, <2>5, <3>1, HeadTailProperties
  <2>7. got' = [got EXCEPT ![c] = Ring(1)] BY <1>2, <2>1 DEF PopTake
  <2> QED BY <2>5, <2>6, <2>7 DEF Abstract!Pop
<1> QED BY <1>1, <1>2

\* The test outside the lock is exact when one thread polls; with several it
\* may miss an item.
LEMMA PeekTailMaps ==
    ASSUME IInv, NEW c \in Consumers, PeekTail(c)
    PROVE  Abstract!PopEmpty(c) \/ UNCHANGED <<Items, got>>
<1>1. Items' = Items BY QuietInv
<1>2. CASE chead[c] = tail
  <2>1. got' = [got EXCEPT ![c] = -1] BY <1>2 DEF PeekTail
  <2>2. CASE Consumers = {c}
    <3>1. head = tail BY <1>2, <2>2 DEF IInv, Alone, PeekTail
    <3> QED BY <1>1, <2>1, <3>1, ItemsAre DEF Abstract!PopEmpty, ItemsExact
  <2>3. CASE Consumers # {c}
    <3>1. Cardinality(Consumers) > 1
      <4>1. IsFiniteSet({c}) /\ Cardinality({c}) = 1 BY FS_Singleton
      <4>2. Cardinality({c}) <= Cardinality(Consumers) /\ Cardinality({c}) # Cardinality(Consumers)
        BY <2>3, FS_Subset, QueueAssumption
      <4> QED BY <4>1, <4>2, FS_CardinalityType, QueueAssumption
    <3> QED BY <1>1, <2>1, <3>1 DEF Abstract!PopEmpty
  <2> QED BY <2>2, <2>3
<1>3. CASE chead[c] # tail
  BY <1>1, <1>3 DEF PeekTail
<1> QED BY <1>2, <1>3

\* For every size and any number of threads the ring is a first-in first-out
\* queue: a push takes effect where the tail advances, a pop where the head
\* does.
THEOREM RingImplementsFifo == Spec => ImplementsFifo
<1>1. Init => Abstract!Init
  <2> SUFFICES ASSUME Init PROVE Abstract!Init
    OBVIOUS
  <2>1. Items = <<>> BY InitInv, ItemsAre DEF Init, ItemsExact
  <2> QED BY <2>1 DEF Init, Abstract!Init
<1>2. IInv /\ [Next]_vars => [Abstract!Next]_<<Items, got>>
  <2> SUFFICES ASSUME IInv, [Next]_vars
               PROVE  Abstract!Next \/ UNCHANGED <<Items, got>>
    OBVIOUS
  <2>1. ASSUME NEW d \in Values, PushLock(d) PROVE UNCHANGED <<Items, got>>
    BY <2>1 DEF PushLock, Items, Count, Size
  <2>2. CASE PushWrite
    BY <2>2, PushWriteSkips DEF PushWrite
  <2>3. CASE PushAdvance
    BY <2>3, PushAdvancePushes DEF Abstract!Next
  <2>4. CASE PushUnlock
    BY <2>4, QuietInv DEF PushUnlock
  <2>5. ASSUME NEW c \in Consumers, Consumer(c)
        PROVE  Abstract!Pop(c) \/ Abstract!PopEmpty(c) \/ UNCHANGED <<Items, got>>
    <3>1. CASE PeekTail(c) BY <3>1, PeekTailMaps
    <3>2. CASE PopTake(c) BY <3>2, PopTakePops
    <3>3. CASE PeekHead(c) \/ PopLock(c) \/ PopUnlock(c)
      BY <3>3, QuietInv DEF PeekHead, PopLock, PopUnlock
    <3> QED BY <2>5, <3>1, <3>2, <3>3 DEF Consumer
  <2>6. CASE UNCHANGED vars
    BY <2>6, QuietInv DEF vars
  <2> QED BY <2>1, <2>2, <2>3, <2>4, <2>5, <2>6 DEF Next, Producer, Abstract!Next
<1> QED BY Inductive, <1>1, <1>2, PTL DEF Spec, ImplementsFifo, Abstract!Spec
=============================================================================
