----------------------------- MODULE UnrPlan_proofs -----------------------------
(* Proofs about the division of messages and about plans, for every number  *)
(* of channels, every block size, every message, and every plan.            *)
EXTENDS UnrPlan, FiniteSetTheorems, WellFoundedInduction, TLAPS

-----------------------------------------------------------------------------
(* Induction: the provers cannot instantiate the library's theorems on      *)
(* natural numbers, but smallest elements exist.                            *)

\* Every set of natural numbers that is not empty has a smallest element.
LEMMA Smallest ==
    ASSUME NEW S \in SUBSET Nat, S # {}
    PROVE  \E m \in S : \A k \in S : m <= k
<1>1. PICK x \in S : \A y \in S : ~(<<y, x>> \in OpToRel(<, Nat))
  BY NatLessThanWellFounded, WFMin, Zenon
<1>2. OpToRel(<, Nat) = {ss \in Nat \X Nat : ss[1] < ss[2]}
  BY Zenon DEF OpToRel
<1>3. \A y \in S : ~(<<y, x>> \in {ss \in Nat \X Nat : ss[1] < ss[2]})
  BY <1>1, <1>2, Zenon
<1>4. \A y \in S : y < x => <<y, x>> \in {ss \in Nat \X Nat : ss[1] < ss[2]}
  OBVIOUS
<1>5. \A y \in S : ~(y < x)
  BY <1>3, <1>4, Zenon
<1>6. \A y \in S : x <= y
  BY <1>5
<1> QED
  BY <1>6

\* Induction over the natural numbers.
LEMMA NatSet ==
    ASSUME NEW S, 0 \in S, \A k \in Nat : k \in S => k + 1 \in S
    PROVE  \A k \in Nat : k \in S
<1> SUFFICES ASSUME Nat \ S # {} PROVE FALSE
  OBVIOUS
<1>1. PICK m \in Nat \ S : \A k \in Nat \ S : m <= k
  BY Smallest
<1>2. m # 0 /\ m - 1 \in Nat
  BY <1>1
<1>3. m - 1 \in S
  BY <1>1, <1>2
<1> QED
  BY <1>1, <1>2, <1>3

\* One turn of the loop, the rest of which f describes.
Turn(side, f, rest, c) ==
    IF rest = 0
    THEN [add |-> [j \in Channels(side) |-> 0], next |-> c]
    ELSE LET block == IF rest > BlkSize[side] THEN BlkSize[side] ELSE rest
             taken == IF rest - block < BlkSize[side] THEN rest ELSE block
             tail  == f[rest - taken][(c + 1) % NumChannels[side]]
         IN  [add |-> [tail.add EXCEPT ![c] = @ + taken], next |-> tail.next]

\* The turns from rest to the end, from any channel.
Turns(side, f, rest) == [c \in Channels(side) |-> Turn(side, f, rest, c)]

LEMMA SpreadChoose ==
    ASSUME NEW side
    PROVE  Spread(side) = CHOOSE f : f = [rest \in Nat |-> Turns(side, f, rest)]
BY DEF Spread, Turns, Turn

\* A turn asks for what is behind it only.
LEMMA TurnLater ==
    ASSUME NEW side \in Sides, NEW rest \in Nat, NEW f, NEW g,
           \A i \in Nat : i < rest => f[i] = g[i]
    PROVE  Turns(side, f, rest) = Turns(side, g, rest)
<1> SUFFICES ASSUME NEW c \in Channels(side) PROVE Turn(side, f, rest, c) = Turn(side, g, rest, c)
  BY DEF Turns
<1>1. BlkSize[side] \in Nat \ {0}
  BY SplitAssumption
<1>2. CASE rest = 0
  BY <1>2 DEF Turn
<1>3. CASE rest # 0
  <2> DEFINE block == IF rest > BlkSize[side] THEN BlkSize[side] ELSE rest
             taken == IF rest - block < BlkSize[side] THEN rest ELSE block
  <2>1. rest - taken \in Nat /\ rest - taken < rest
    BY <1>1, <1>3
  <2>2. f[rest - taken] = g[rest - taken]
    BY <2>1
  <2> QED
    BY <2>2, <1>3, Zenon DEF Turn
<1> QED
  BY <1>2, <1>3

\* A function of the first n numbers that follows the loop.
UpTo(side, n, g) == g = [rest \in 0 .. n |-> Turns(side, g, rest)]

LEMMA UpToAgree ==
    ASSUME NEW side \in Sides, NEW n \in Nat, NEW g, UpTo(side, n, g),
           NEW m \in Nat, NEW h, UpTo(side, m, h), m <= n
    PROVE  \A i \in 0 .. m : g[i] = h[i]
<1> DEFINE D == {i \in 0 .. m : g[i] # h[i]}
<1> SUFFICES ASSUME D # {} PROVE FALSE
  OBVIOUS
<1>1. PICK i \in D : \A k \in D : i <= k
  <2>1. D \in SUBSET Nat
    OBVIOUS
  <2> QED
    BY <2>1, Smallest, Zenon
<1>2. i \in Nat /\ i <= m /\ i <= n /\ g[i] # h[i]
  OBVIOUS
<1>3. \A k \in Nat : k < i => g[k] = h[k]
  BY <1>1, <1>2
<1>4. Turns(side, g, i) = Turns(side, h, i)
  BY <1>2, <1>3, TurnLater
<1>5. g[i] = Turns(side, g, i) /\ h[i] = Turns(side, h, i)
  BY <1>2 DEF UpTo
<1> QED
  BY <1>2, <1>4, <1>5

LEMMA UpToExists ==
    ASSUME NEW side \in Sides
    PROVE  \A n \in Nat : \E g : UpTo(side, n, g)
<1> DEFINE S == {n \in Nat : \E g : UpTo(side, n, g)}
<1>1. 0 \in S
  <2> DEFINE g == [rest \in 0 .. 0 |-> Turns(side, <<>>, rest)]
  <2>1. \A rest \in 0 .. 0 : Turns(side, g, rest) = Turns(side, <<>>, rest)
    <3>1. Turns(side, g, 0) = Turns(side, <<>>, 0)
      BY TurnLater
    <3> QED
      BY <3>1
  <2>2. UpTo(side, 0, g)
    BY <2>1 DEF UpTo
  <2> QED
    BY <2>2
<1>2. \A n \in Nat : n \in S => n + 1 \in S
  <2> SUFFICES ASSUME NEW n \in Nat, n \in S PROVE n + 1 \in S
    OBVIOUS
  <2> PICK g : UpTo(side, n, g)
    OBVIOUS
  <2> DEFINE h == [rest \in 0 .. n + 1 |-> Turns(side, g, rest)]
  <2>1. \A i \in 0 .. n : h[i] = g[i]
    BY DEF UpTo
  <2>2. \A rest \in 0 .. n + 1 : Turns(side, h, rest) = Turns(side, g, rest)
    <3> SUFFICES ASSUME NEW rest \in 0 .. n + 1 PROVE Turns(side, h, rest) = Turns(side, g, rest)
      OBVIOUS
    <3>1. rest \in Nat /\ \A i \in Nat : i < rest => h[i] = g[i]
      BY <2>1
    <3> HIDE DEF h
    <3> QED
      BY <3>1, TurnLater
  <2>3. UpTo(side, n + 1, h)
    BY <2>2 DEF UpTo
  <2> QED
    BY <2>3
<1> HIDE DEF S
<1>3. \A n \in Nat : n \in S
  BY <1>1, <1>2, NatSet
<1> QED
  BY <1>3 DEF S

\* The definition of Spread has a solution: it is what the loop computes.
LEMMA SpreadRecursion ==
    ASSUME NEW side \in Sides
    PROVE  Spread(side) = [rest \in Nat |-> Turns(side, Spread(side), rest)]
<1> DEFINE G(n) == CHOOSE g : UpTo(side, n, g)
           F == [n \in Nat |-> G(n)[n]]
<1>1. \A n \in Nat : UpTo(side, n, G(n))
  BY UpToExists
<1>2. ASSUME NEW n \in Nat PROVE F[n] = Turns(side, F, n)
  <2>1. \A i \in Nat : i < n => G(n)[i] = F[i]
    <3> SUFFICES ASSUME NEW i \in Nat, i < n PROVE G(n)[i] = G(i)[i]
      OBVIOUS
    <3> HIDE DEF G
    <3>1. \A k \in 0 .. i : G(n)[k] = G(i)[k]
      BY <1>1, UpToAgree
    <3> QED
      BY <3>1
  <2>2. Turns(side, G(n), n) = Turns(side, F, n)
    <3> HIDE DEF F, G
    <3> QED
      BY <2>1, TurnLater
  <2>3. G(n)[n] = Turns(side, G(n), n)
    <3> HIDE DEF G
    <3>1. UpTo(side, n, G(n))
      BY <1>1
    <3> QED
      BY <3>1 DEF UpTo
  <2> QED
    BY <2>2, <2>3
<1>3. F = [rest \in Nat |-> Turns(side, F, rest)]
  <2>1. F = [rest \in Nat |-> F[rest]]
    OBVIOUS
  <2> HIDE DEF F
  <2> QED
    BY <1>2, <2>1
<1> HIDE DEF F
<1> QED
  BY <1>3, SpreadChoose

\* Where a part begins is where the one before it ends.
OffsetStep(parts, f, j) == IF j = 0 THEN 0 ELSE f[j - 1] + parts[j - 1]

OffsetsTo(parts, n, f) == f = [j \in 0 .. n |-> OffsetStep(parts, f, j)]

LEMMA OffsetExists ==
    ASSUME NEW parts
    PROVE  \A n \in Nat : \E f : OffsetsTo(parts, n, f)
<1> DEFINE S == {n \in Nat : \E f : OffsetsTo(parts, n, f)}
<1>1. 0 \in S
  <2> DEFINE f == [j \in 0 .. 0 |-> 0]
  <2>1. \A j \in 0 .. 0 : OffsetStep(parts, f, j) = 0
    BY DEF OffsetStep
  <2>2. OffsetsTo(parts, 0, f)
    BY <2>1 DEF OffsetsTo
  <2> QED
    BY <2>2
<1>2. \A n \in Nat : n \in S => n + 1 \in S
  <2> SUFFICES ASSUME NEW n \in Nat, n \in S PROVE n + 1 \in S
    OBVIOUS
  <2> PICK f : OffsetsTo(parts, n, f)
    OBVIOUS
  <2> DEFINE h == [j \in 0 .. n + 1 |-> OffsetStep(parts, f, j)]
  <2>1. \A j \in 0 .. n : h[j] = f[j]
    BY DEF OffsetsTo
  <2>2. \A j \in 0 .. n + 1 : OffsetStep(parts, h, j) = OffsetStep(parts, f, j)
    <3> SUFFICES ASSUME NEW j \in 0 .. n + 1 PROVE OffsetStep(parts, h, j) = OffsetStep(parts, f, j)
      OBVIOUS
    <3> HIDE DEF h
    <3>1. j # 0 => h[j - 1] = f[j - 1]
      BY <2>1
    <3> QED
      BY <3>1 DEF OffsetStep
  <2>3. OffsetsTo(parts, n + 1, h)
    BY <2>2 DEF OffsetsTo
  <2> QED
    BY <2>3
<1> HIDE DEF S
<1>3. \A n \in Nat : n \in S
  BY <1>1, <1>2, NatSet
<1> QED
  BY <1>3 DEF S

LEMMA OffsetRecursion ==
    ASSUME NEW n \in Nat, NEW parts, DOMAIN parts = 0 .. n
    PROVE  DivOffset(parts) = [j \in 0 .. n |-> OffsetStep(parts, DivOffset(parts), j)]
<1>1. DivOffset(parts) = CHOOSE f : OffsetsTo(parts, n, f)
  BY DEF DivOffset, OffsetStep, OffsetsTo
<1>2. \E f : OffsetsTo(parts, n, f)
  BY OffsetExists
<1>3. OffsetsTo(parts, n, DivOffset(parts))
  BY <1>1, <1>2, Zenon
<1> QED
  BY <1>3 DEF OffsetsTo

\* Induction over the channels 0 .. n.
LEMMA ChannelInduction ==
    ASSUME NEW n \in Nat, NEW S, 0 \in S, \A j \in 0 .. n : j # n /\ j \in S => j + 1 \in S
    PROVE  \A j \in 0 .. n : j \in S
<1> DEFINE T == S \cup {j \in Nat : j > n}
<1>1. 0 \in T /\ \A k \in Nat : k \in T => k + 1 \in T
  OBVIOUS
<1> HIDE DEF T
<1>2. \A k \in Nat : k \in T
  BY <1>1, NatSet
<1> QED
  BY <1>2 DEF T

LEMMA OffsetsFollow ==
    ASSUME NEW n \in Nat, NEW parts \in [0 .. n -> Nat], NEW off, OffsetsTo(parts, n, off)
    PROVE  /\ off \in [0 .. n -> Nat]
           /\ off[0] = 0
           /\ \A j \in 0 .. n : j # n => off[j + 1] = off[j] + parts[j]
<1> DEFINE S == {j \in 0 .. n : off[j] \in Nat}
<1>1. off = [j \in 0 .. n |-> OffsetStep(parts, off, j)]
  BY DEF OffsetsTo
<1>2. \A j \in 0 .. n : off[j] = OffsetStep(parts, off, j)
  BY <1>1
<1>3. off[0] = 0
  BY <1>2 DEF OffsetStep
<1>7. ASSUME NEW j \in 0 .. n, j # n PROVE off[j + 1] = off[j] + parts[j]
  <2>1. j + 1 \in 0 .. n /\ j + 1 # 0 /\ (j + 1) - 1 = j
    BY <1>7
  <2>2. off[j + 1] = OffsetStep(parts, off, j + 1)
    BY <1>2, <2>1
  <2> QED
    BY <2>1, <2>2 DEF OffsetStep
<1>4. 0 \in S /\ \A j \in 0 .. n : j # n /\ j \in S => j + 1 \in S
  BY <1>3, <1>7
<1> HIDE DEF S
<1>5. \A j \in 0 .. n : j \in S
  BY <1>4, ChannelInduction
<1>6. off \in [0 .. n -> Nat]
  BY <1>5, <1>1 DEF S
<1> QED
  BY <1>3, <1>6, <1>7

LEMMA OffsetFacts ==
    ASSUME NEW n \in Nat, NEW parts \in [0 .. n -> Nat]
    PROVE  /\ DivOffset(parts) \in [0 .. n -> Nat]
           /\ DivOffset(parts)[0] = 0
           /\ \A j \in 0 .. n : j # n => DivOffset(parts)[j + 1] = DivOffset(parts)[j] + parts[j]
<1> DEFINE off == DivOffset(parts)
<1>1. OffsetsTo(parts, n, off)
  BY OffsetRecursion DEF OffsetsTo
<1> HIDE DEF off
<1>2. /\ off \in [0 .. n -> Nat]
      /\ off[0] = 0
      /\ \A j \in 0 .. n : j # n => off[j + 1] = off[j] + parts[j]
  BY <1>1, OffsetsFollow
<1> QED
  BY <1>2 DEF off

\* The bytes of all parts.
Total(n, parts) == DivOffset(parts)[n] + parts[n]

\* Parts follow each other without overlap.
LEMMA OffsetsGrow ==
    ASSUME NEW n \in Nat, NEW parts \in [0 .. n -> Nat]
    PROVE  /\ \A i, j \in 0 .. n : i < j => DivOffset(parts)[i] + parts[i] <= DivOffset(parts)[j]
           /\ \A j \in 0 .. n : DivOffset(parts)[j] + parts[j] <= Total(n, parts)
<1> DEFINE off == DivOffset(parts)
           S == {j \in 0 .. n : \A i \in 0 .. n : i < j => off[i] + parts[i] <= off[j]}
<1>1. /\ off \in [0 .. n -> Nat] /\ off[0] = 0
      /\ \A j \in 0 .. n : j # n => off[j + 1] = off[j] + parts[j]
  BY OffsetFacts
<1> HIDE DEF off
<1>2. 0 \in S
  OBVIOUS
<1>3. ASSUME NEW j \in 0 .. n, j # n, j \in S PROVE j + 1 \in S
  <2>1. off[j + 1] = off[j] + parts[j] /\ j + 1 \in 0 .. n
    BY <1>1, <1>3
  <2>2. ASSUME NEW i \in 0 .. n, i < j + 1 PROVE off[i] + parts[i] <= off[j + 1]
    <3>1. CASE i = j
      BY <3>1, <2>1, <1>1
    <3>2. CASE i < j
      BY <3>2, <2>1, <1>1, <1>3
    <3> QED
      BY <3>1, <3>2, <2>2
  <2> QED
    BY <2>1, <2>2
<1>4. \A j \in 0 .. n : j \in S
  <2> HIDE DEF S
  <2> QED
    BY <1>2, <1>3, ChannelInduction
<1>5. \A j \in 0 .. n : off[j] + parts[j] <= off[n] + parts[n]
  <2> SUFFICES ASSUME NEW j \in 0 .. n PROVE off[j] + parts[j] <= off[n] + parts[n]
    OBVIOUS
  <2>1. CASE j = n
    BY <2>1, <1>1
  <2>2. CASE j < n
    BY <2>2, <1>1, <1>4
  <2> QED
    BY <2>1, <2>2
<1> QED
  BY <1>4, <1>5 DEF off, Total

\* Bytes added to one channel are added to the total.
LEMMA TotalOfOneMore ==
    ASSUME NEW n \in Nat, NEW parts \in [0 .. n -> Nat], NEW c \in 0 .. n, NEW t \in Nat,
           NEW more \in [0 .. n -> Nat],
           \A j \in 0 .. n : more[j] = IF j = c THEN parts[c] + t ELSE parts[j]
    PROVE  Total(n, more) = Total(n, parts) + t
<1> DEFINE off == DivOffset(parts)
           mff == DivOffset(more)
           S == {j \in 0 .. n : mff[j] = off[j] + (IF c < j THEN t ELSE 0)}
<1>1. /\ off \in [0 .. n -> Nat] /\ off[0] = 0
      /\ \A j \in 0 .. n : j # n => off[j + 1] = off[j] + parts[j]
  BY OffsetFacts
<1>2. /\ mff \in [0 .. n -> Nat] /\ mff[0] = 0
      /\ \A j \in 0 .. n : j # n => mff[j + 1] = mff[j] + more[j]
  BY OffsetFacts
<1> HIDE DEF off, mff
<1>3. 0 \in S
  BY <1>1, <1>2
<1>4. ASSUME NEW j \in 0 .. n, j # n, j \in S PROVE j + 1 \in S
  <2>1. off[j + 1] = off[j] + parts[j] /\ mff[j + 1] = mff[j] + more[j] /\ j + 1 \in 0 .. n
    BY <1>1, <1>2, <1>4
  <2>4. mff[j] = off[j] + (IF c < j THEN t ELSE 0)
    BY <1>4
  <2>2. CASE c = j
    <3>1. more[j] = parts[j] + t
      BY <2>2
    <3>2. mff[j + 1] = off[j + 1] + t
      BY <2>1, <2>2, <2>4, <3>1, <1>1
    <3> QED
      BY <3>2, <2>1, <2>2
  <2>3. CASE c # j
    <3>1. more[j] = parts[j]
      BY <2>3
    <3>2. c < j + 1 <=> c < j
      BY <2>3
    <3>3. mff[j + 1] = off[j + 1] + (IF c < j + 1 THEN t ELSE 0)
      BY <2>1, <2>3, <2>4, <3>1, <3>2, <1>1
    <3> QED
      BY <3>3, <2>1
  <2> QED
    BY <2>2, <2>3
<1>5. \A j \in 0 .. n : j \in S
  <2> HIDE DEF S
  <2> QED
    BY <1>3, <1>4, ChannelInduction
<1>6. mff[n] = off[n] + (IF c < n THEN t ELSE 0)
  BY <1>5
<1>7. mff[n] + more[n] = off[n] + parts[n] + t
  <2>1. CASE c = n
    BY <2>1, <1>6, <1>1
  <2>2. CASE c # n
    BY <2>2, <1>6, <1>1
  <2> QED
    BY <2>1, <2>2
<1> QED
  BY <1>7 DEF Total, off, mff

\* ... and full rounds to every channel.
LEMMA TotalOfRounds ==
    ASSUME NEW n \in Nat, NEW parts \in [0 .. n -> Nat], NEW a \in Nat,
           NEW more \in [0 .. n -> Nat], \A j \in 0 .. n : more[j] = a + parts[j]
    PROVE  Total(n, more) = Total(n, parts) + (n + 1) * a
<1> DEFINE off == DivOffset(parts)
           mff == DivOffset(more)
           S == {j \in 0 .. n : mff[j] = off[j] + j * a}
<1>1. /\ off \in [0 .. n -> Nat] /\ off[0] = 0
      /\ \A j \in 0 .. n : j # n => off[j + 1] = off[j] + parts[j]
  BY OffsetFacts
<1>2. /\ mff \in [0 .. n -> Nat] /\ mff[0] = 0
      /\ \A j \in 0 .. n : j # n => mff[j + 1] = mff[j] + more[j]
  BY OffsetFacts
<1> HIDE DEF off, mff
<1>3. 0 \in S
  BY <1>1, <1>2
<1>4. ASSUME NEW j \in 0 .. n, j # n, j \in S PROVE j + 1 \in S
  <2>1. off[j + 1] = off[j] + parts[j] /\ mff[j + 1] = mff[j] + more[j] /\ j + 1 \in 0 .. n
    BY <1>1, <1>2, <1>4
  <2>2. (j + 1) * a = j * a + a /\ j * a \in Nat
    OBVIOUS
  <2>3. mff[j] = off[j] + j * a /\ more[j] = a + parts[j]
    BY <1>4
  <2> QED
    BY <2>1, <2>2, <2>3, <1>1, <1>2
<1>5. \A j \in 0 .. n : j \in S
  <2> HIDE DEF S
  <2> QED
    BY <1>3, <1>4, ChannelInduction
<1>6. mff[n] = off[n] + n * a /\ more[n] = a + parts[n] /\ n * a \in Nat /\ (n + 1) * a = n * a + a
  BY <1>5
<1>7. mff[n] + more[n] = off[n] + parts[n] + (n + 1) * a
  BY <1>6, <1>1
<1> QED
  BY <1>7 DEF Total, off, mff

\* Parts whose total is the message tile it.
LEMMA TotalTiles ==
    ASSUME NEW n \in Nat, NEW parts \in [0 .. n -> Nat]
    PROVE  Tiled(Total(n, parts), parts)
<1> DEFINE off == DivOffset(parts)
           Here(b) == {j \in Used(parts) : off[j] <= b /\ b < off[j] + parts[j]}
<1>1. /\ off \in [0 .. n -> Nat] /\ off[0] = 0
      /\ \A j \in 0 .. n : j # n => off[j + 1] = off[j] + parts[j]
  BY OffsetFacts
<1>2. /\ \A i, j \in 0 .. n : i < j => off[i] + parts[i] <= off[j]
      /\ \A j \in 0 .. n : off[j] + parts[j] <= Total(n, parts)
  BY OffsetsGrow
<1>3. Used(parts) = {j \in 0 .. n : parts[j] # 0}
  BY DEF Used
<1>4. Total(n, parts) = off[n] + parts[n]
  BY DEF Total
<1> HIDE DEF off
<1>5. ASSUME NEW b \in 0 .. Total(n, parts) - 1 PROVE Cardinality(Here(b)) = 1
  <2> DEFINE E == {j \in 0 .. n : b < off[j] + parts[j]}
  <2>1. E \in SUBSET Nat /\ E # {}
    <3>1. b \in Nat /\ b < Total(n, parts) /\ n \in 0 .. n
      BY <1>1, <1>4
    <3>2. n \in E
      BY <3>1, <1>4
    <3> QED
      BY <3>2
  <2>2. PICK j \in E : \A k \in E : j <= k
    BY <2>1, Smallest, Zenon
  <2>3. j \in 0 .. n /\ b < off[j] + parts[j]
    OBVIOUS
  <2>4. off[j] <= b
    <3>1. CASE j = 0
      BY <3>1, <1>1
    <3>2. CASE j # 0
      <4>1. j - 1 \in 0 .. n /\ j - 1 # n /\ (j - 1) + 1 = j
        BY <3>2, <2>3
      <4>2. off[j] = off[j - 1] + parts[j - 1]
        BY <4>1, <1>1
      <4>3. j - 1 \notin E
        BY <4>1, <2>2
      <4> QED
        BY <4>1, <4>2, <4>3, <1>1
    <3> QED
      BY <3>1, <3>2
  <2>5. j \in Here(b)
    BY <2>3, <2>4, <1>1, <1>3
  <2>6. ASSUME NEW k \in Here(b) PROVE k = j
    <3>1. k \in 0 .. n /\ off[k] <= b /\ b < off[k] + parts[k]
      BY <1>3
    <3>2. ~(k < j)
      BY <3>1, <2>3, <2>4, <1>1, <1>2
    <3>3. ~(j < k)
      BY <3>1, <2>3, <2>4, <1>1, <1>2
    <3> QED
      BY <3>1, <3>2, <3>3, <2>3
  <2>7. Here(b) = {j}
    BY <2>5, <2>6
  <2> QED
    BY <2>7, FS_Singleton
<1> QED
  BY <1>2, <1>3, <1>5 DEF Tiled, off

-----------------------------------------------------------------------------
(* The loop over the rest *)

\* How far channel j is behind channel c in the rotation.
Behind(side, c, j) == IF c <= j THEN j - c ELSE j - c + NumChannels[side]

\* What the loop gives the k channels from c on, of a rest.
Shape(side, rest, c, k, r) ==
    /\ r.add \in [Channels(side) -> Nat] /\ r.next \in Channels(side)
    /\ rest = 0 <=> k = 0
    /\ \A j \in Channels(side) :
         /\ Behind(side, c, j) >= k => r.add[j] = 0
         /\ Behind(side, c, j) < k =>
              /\ r.add[j] # 0 /\ r.add[j] < 2 * BlkSize[side]
              /\ r.add[j] >= BlkSize[side] \/ (k = 1 /\ rest < BlkSize[side])
    /\ Total(NumChannels[side] - 1, r.add) = rest

\* The constants of a side.
LEMMA SideFacts ==
    ASSUME NEW side \in Sides
    PROVE  /\ NumChannels[side] \in Nat \ {0} /\ BlkSize[side] \in Nat \ {0}
           /\ NumChannels[side] - 1 \in Nat
           /\ Channels(side) = 0 .. NumChannels[side] - 1
           /\ 0 \in Channels(side)
BY SplitAssumption DEF Channels

LEMMA NextFacts ==
    ASSUME NEW side \in Sides, NEW c \in Channels(side)
    PROVE  /\ (c + 1) % NumChannels[side] \in Channels(side)
           /\ Behind(side, c, c) = 0
           /\ Behind(side, (c + 1) % NumChannels[side], c) = NumChannels[side] - 1
           /\ \A j \in Channels(side) :
                /\ Behind(side, c, j) \in 0 .. NumChannels[side] - 1
                /\ j # c => Behind(side, c, j) = Behind(side, (c + 1) % NumChannels[side], j) + 1
<1> DEFINE n == NumChannels[side]
           d == (c + 1) % n
<1>1. n \in Nat \ {0} /\ Channels(side) = 0 .. n - 1
  BY SideFacts
<1>2. d = IF c = n - 1 THEN 0 ELSE c + 1
  <2>1. CASE c = n - 1
    BY <2>1, <1>1
  <2>2. CASE c # n - 1
    <3>1. c + 1 \in Nat /\ c + 1 < n
      BY <2>2, <1>1
    <3> HIDE DEF n
    <3> QED
      BY <3>1, <2>2, <1>1
  <2> QED
    BY <2>1, <2>2
<1> HIDE DEF d
<1>3. n \in Int /\ c \in Int /\ c <= n - 1 /\ 0 <= c
  BY <1>1
<1>4. d \in Channels(side) /\ d \in Int
  BY <1>1, <1>2
<1>5. Behind(side, c, c) = 0 /\ Behind(side, d, c) = n - 1
  BY <1>2, <1>3 DEF Behind
<1>6. ASSUME NEW j \in Channels(side)
      PROVE  /\ Behind(side, c, j) \in 0 .. n - 1
             /\ j # c => Behind(side, c, j) = Behind(side, d, j) + 1
  <2>1. j \in Int /\ j <= n - 1 /\ 0 <= j
    BY <1>1
  <2> HIDE DEF n
  <2>2. /\ Behind(side, c, j) = IF c <= j THEN j - c ELSE j - c + n
        /\ Behind(side, d, j) = IF d <= j THEN j - d ELSE j - d + n
    BY DEF Behind, n
  <2>3. CASE c = n - 1
    BY <1>2, <1>3, <2>1, <2>2, <2>3
  <2>4. CASE c # n - 1
    BY <1>2, <1>3, <2>1, <2>2, <2>4
  <2> QED
    BY <2>3, <2>4
<1> QED
  BY <1>4, <1>5, <1>6 DEF d

LEMMA SpreadAt ==
    ASSUME NEW side \in Sides, NEW rest \in Nat, NEW c \in Channels(side)
    PROVE  Spread(side)[rest][c] = Turn(side, Spread(side), rest, c)
<1>1. Spread(side)[rest] = Turns(side, Spread(side), rest)
  BY SpreadRecursion
<1> QED
  BY <1>1 DEF Turns

\* Nothing left: nothing is added.
LEMMA TotalOfNothing ==
    ASSUME NEW n \in Nat
    PROVE  Total(n, [j \in 0 .. n |-> 0]) = 0
<1> DEFINE zero == [j \in 0 .. n |-> 0]
           off == DivOffset(zero)
           S == {j \in 0 .. n : off[j] = 0}
<1>0. zero \in [0 .. n -> Nat]
  OBVIOUS
<1>1. /\ off \in [0 .. n -> Nat] /\ off[0] = 0
      /\ \A j \in 0 .. n : j # n => off[j + 1] = off[j] + zero[j]
  <2> HIDE DEF zero
  <2> QED
    BY <1>0, OffsetFacts
<1> HIDE DEF off
<1>2. 0 \in S /\ \A j \in 0 .. n : j # n /\ j \in S => j + 1 \in S
  BY <1>1
<1>3. \A j \in 0 .. n : j \in S
  <2> HIDE DEF S
  <2> QED
    BY <1>2, ChannelInduction
<1>4. off[n] = 0
  BY <1>3
<1> QED
  BY <1>4 DEF Total, off

LEMMA ShapeOfNothing ==
    ASSUME NEW side \in Sides, NEW c \in Channels(side)
    PROVE  Shape(side, 0, c, 0, Spread(side)[0][c])
<1>1. Spread(side)[0][c] = [add |-> [j \in Channels(side) |-> 0], next |-> c]
  BY SpreadAt DEF Turn
<1>2. Total(NumChannels[side] - 1, [j \in Channels(side) |-> 0]) = 0
  BY TotalOfNothing, SideFacts
<1>3. \A j \in Channels(side) : Behind(side, c, j) \in 0 .. NumChannels[side] - 1
  BY NextFacts
<1> QED
  BY <1>1, <1>2, <1>3, SideFacts DEF Shape

\* One channel gets more.
LEMMA AddFacts ==
    ASSUME NEW side \in Sides, NEW add \in [Channels(side) -> Nat], NEW c \in Channels(side),
           NEW t \in Nat, NEW more, more = [add EXCEPT ![c] = @ + t]
    PROVE  /\ more \in [Channels(side) -> Nat]
           /\ \A j \in Channels(side) : more[j] = IF j = c THEN add[c] + t ELSE add[j]
           /\ Total(NumChannels[side] - 1, more) = Total(NumChannels[side] - 1, add) + t
<1>1. more \in [Channels(side) -> Nat]
  OBVIOUS
<1>2. \A j \in Channels(side) : more[j] = IF j = c THEN add[c] + t ELSE add[j]
  OBVIOUS
<1> SUFFICES ASSUME NEW n \in Nat, n = NumChannels[side] - 1
             PROVE  Total(n, more) = Total(n, add) + t
  BY <1>1, <1>2, SideFacts
<1>3. Channels(side) = 0 .. n
  BY SideFacts
<1>5. add \in [0 .. n -> Nat] /\ c \in 0 .. n
  BY <1>3
<1>7. more \in [0 .. n -> Nat] /\ \A j \in 0 .. n : more[j] = IF j = c THEN add[c] + t ELSE add[j]
  BY <1>1, <1>2, <1>3
<1> QED
  BY ONLY n \in Nat, t \in Nat, <1>5, <1>7, TotalOfOneMore

\* A turn takes all that is left ...
LEMMA TurnOfLast ==
    ASSUME NEW side \in Sides, NEW c \in Channels(side), NEW rest \in Nat, rest # 0,
           rest < 2 * BlkSize[side], NEW f
    PROVE  LET tail == f[0][(c + 1) % NumChannels[side]] IN
           Turn(side, f, rest, c) = [add |-> [tail.add EXCEPT ![c] = @ + rest], next |-> tail.next]
<1> DEFINE blk == BlkSize[side]
           block == IF rest > blk THEN blk ELSE rest
           taken == IF rest - block < blk THEN rest ELSE block
           tail == f[rest - taken][(c + 1) % NumChannels[side]]
<1>1. blk \in Nat \ {0}
  BY SideFacts
<1>2. taken = rest
  BY <1>1
<1>3. Turn(side, f, rest, c) = [add |-> [tail.add EXCEPT ![c] = @ + taken], next |-> tail.next]
  BY Zenon DEF Turn
<1> HIDE DEF taken
<1>4. rest - taken = 0
  BY <1>2
<1> QED
  BY <1>2, <1>3, <1>4

\* ... or a block.
LEMMA TurnOfBlock ==
    ASSUME NEW side \in Sides, NEW c \in Channels(side), NEW rest \in Nat,
           rest >= 2 * BlkSize[side], NEW f
    PROVE  LET tail == f[rest - BlkSize[side]][(c + 1) % NumChannels[side]] IN
           Turn(side, f, rest, c) =
               [add |-> [tail.add EXCEPT ![c] = @ + BlkSize[side]], next |-> tail.next]
<1> DEFINE blk == BlkSize[side]
           block == IF rest > blk THEN blk ELSE rest
           taken == IF rest - block < blk THEN rest ELSE block
           tail == f[rest - taken][(c + 1) % NumChannels[side]]
<1>1. blk \in Nat \ {0}
  BY SideFacts
<1>2. taken = blk /\ rest # 0
  BY <1>1
<1>3. Turn(side, f, rest, c) = [add |-> [tail.add EXCEPT ![c] = @ + taken], next |-> tail.next]
  BY <1>2, Zenon DEF Turn
<1> HIDE DEF taken
<1> QED
  BY <1>2, <1>3

LEMMA ShapeOfLast ==
    ASSUME NEW side \in Sides, NEW c \in Channels(side), NEW rest \in Nat, rest # 0,
           rest < 2 * BlkSize[side]
    PROVE  Shape(side, rest, c, 1, Spread(side)[rest][c])
<1> DEFINE blk == BlkSize[side]
           d == (c + 1) % NumChannels[side]
           tail == Spread(side)[0][d]
           r == Spread(side)[rest][c]
<1>1. blk \in Nat \ {0} /\ NumChannels[side] - 1 \in Nat /\ Channels(side) = 0 .. NumChannels[side] - 1
  BY SideFacts
<1>3. d \in Channels(side) /\ Shape(side, 0, d, 0, tail)
  BY NextFacts, ShapeOfNothing
<1>4. r = [add |-> [tail.add EXCEPT ![c] = @ + rest], next |-> tail.next]
  BY TurnOfLast, SpreadAt
<1> HIDE DEF r, tail, d, blk
<1>5. /\ tail.add \in [Channels(side) -> Nat] /\ tail.next \in Channels(side)
      /\ \A j \in Channels(side) : tail.add[j] = 0
      /\ Total(NumChannels[side] - 1, tail.add) = 0
  <2>1. \A j \in Channels(side) : Behind(side, d, j) >= 0
    BY <1>3, NextFacts, SideFacts
  <2> QED
    BY <1>3, <2>1 DEF Shape
<1>6. r.add = [tail.add EXCEPT ![c] = @ + rest] /\ r.next = tail.next
  BY <1>4
<1>7. /\ r.add \in [Channels(side) -> Nat] /\ Total(NumChannels[side] - 1, r.add) = rest
      /\ \A j \in Channels(side) : r.add[j] = IF j = c THEN rest ELSE 0
  BY <1>5, <1>6, AddFacts
<1>8. \A j \in Channels(side) : Behind(side, c, j) \in Nat /\ (Behind(side, c, j) = 0 <=> j = c)
  BY <1>1, SideFacts DEF Behind
<1>10. ASSUME NEW j \in Channels(side)
       PROVE  /\ Behind(side, c, j) >= 1 => r.add[j] = 0
              /\ Behind(side, c, j) < 1 =>
                   /\ r.add[j] # 0 /\ r.add[j] < 2 * blk
                   /\ r.add[j] >= blk \/ rest < blk
  BY <1>1, <1>7, <1>8 DEF blk
<1> QED
  BY <1>5, <1>6, <1>7, <1>10 DEF Shape, blk, r

\* A turn that takes a block.
LEMMA ShapeOfBlock ==
    ASSUME NEW side \in Sides, NEW c \in Channels(side), NEW rest \in Nat,
           rest >= 2 * BlkSize[side],
           NEW k \in Nat, k < NumChannels[side],
           Shape(side, rest - BlkSize[side], (c + 1) % NumChannels[side], k,
                 Spread(side)[rest - BlkSize[side]][(c + 1) % NumChannels[side]])
    PROVE  Shape(side, rest, c, k + 1, Spread(side)[rest][c])
<1> DEFINE blk == BlkSize[side]
           left == rest - blk
           d == (c + 1) % NumChannels[side]
           tail == Spread(side)[left][d]
           r == Spread(side)[rest][c]
<1>1. /\ blk \in Nat \ {0} /\ NumChannels[side] \in Nat /\ NumChannels[side] - 1 \in Nat
      /\ Channels(side) = 0 .. NumChannels[side] - 1
  BY SideFacts
<1>2. left \in Nat /\ left # 0 /\ ~(left < blk) /\ rest # 0 /\ rest = left + blk
  BY <1>1
<1>3. d \in Channels(side) /\ Shape(side, left, d, k, tail)
  BY NextFacts
<1>4. r = [add |-> [tail.add EXCEPT ![c] = @ + blk], next |-> tail.next]
  BY TurnOfBlock, SpreadAt
<1>5. /\ Behind(side, c, c) = 0 /\ Behind(side, d, c) = NumChannels[side] - 1
      /\ \A j \in Channels(side) :
                /\ Behind(side, d, j) \in 0 .. NumChannels[side] - 1
                /\ j # c => Behind(side, c, j) = Behind(side, d, j) + 1
  BY NextFacts
<1> HIDE DEF r, tail, d, blk, left
<1>6. /\ tail.add \in [Channels(side) -> Nat] /\ tail.next \in Channels(side) /\ k # 0
      /\ \A j \in Channels(side) :
           /\ Behind(side, d, j) >= k => tail.add[j] = 0
           /\ Behind(side, d, j) < k =>
              /\ tail.add[j] # 0 /\ tail.add[j] < 2 * blk /\ tail.add[j] >= blk
      /\ Total(NumChannels[side] - 1, tail.add) = left
  BY <1>1, <1>2, <1>3 DEF Shape, blk
<1>7. tail.add[c] = 0
  BY <1>1, <1>5, <1>6
<1>8. r.add = [tail.add EXCEPT ![c] = @ + blk] /\ r.next = tail.next
  BY <1>4
<1>9. /\ r.add \in [Channels(side) -> Nat]
      /\ Total(NumChannels[side] - 1, r.add) = left + blk
      /\ \A j \in Channels(side) : r.add[j] = IF j = c THEN tail.add[c] + blk ELSE tail.add[j]
  <2>1. blk \in Nat
    BY <1>1
  <2> QED
    BY <1>6, <1>8, <2>1, AddFacts
<1>10. ASSUME NEW j \in Channels(side)
       PROVE  /\ Behind(side, c, j) >= k + 1 => r.add[j] = 0
              /\ Behind(side, c, j) < k + 1 =>
                   r.add[j] # 0 /\ r.add[j] < 2 * blk /\ r.add[j] >= blk
  <2>1. CASE j = c
    <3>1. r.add[j] = 0 + blk /\ Behind(side, c, j) = 0
      BY <2>1, <1>5, <1>7, <1>9
    <3> QED
      BY <3>1, <1>1
  <2>2. CASE j # c
    <3>1. r.add[j] = tail.add[j] /\ Behind(side, c, j) = Behind(side, d, j) + 1
      BY <2>2, <1>5, <1>9
    <3>2. Behind(side, d, j) \in Nat
      BY <1>1, <1>5
    <3> QED
      BY <3>1, <3>2, <1>6
  <2> QED
    BY <2>1, <2>2
<1>11. k + 1 # 0 /\ Total(NumChannels[side] - 1, r.add) = rest
  BY <1>2, <1>9
<1> QED
  BY <1>2, <1>6, <1>8, <1>9, <1>10, <1>11 DEF Shape, blk, r

\* The rest fits m + 1 channels, and the loop ends within as many turns.
Fits(side, m) ==
    \A rest \in Nat, c \in Channels(side) :
        rest < (m + 1) * BlkSize[side] =>
            \E k \in 0 .. m + 1 : Shape(side, rest, c, k, Spread(side)[rest][c])

LEMMA SpreadFits ==
    ASSUME NEW side \in Sides
    PROVE  \A m \in 0 .. NumChannels[side] - 1 : Fits(side, m)
<1> DEFINE n == NumChannels[side] - 1
           blk == BlkSize[side]
           S == {m \in 0 .. n : Fits(side, m)}
<1>1. n \in Nat /\ NumChannels[side] = n + 1 /\ blk \in Nat \ {0} /\ Channels(side) = 0 .. n
  BY SideFacts
<1> HIDE DEF n
<1>2. 0 \in S
  <2> SUFFICES ASSUME NEW rest \in Nat, NEW c \in Channels(side), rest < (0 + 1) * blk
               PROVE  \E k \in 0 .. 0 + 1 : Shape(side, rest, c, k, Spread(side)[rest][c])
    BY <1>1 DEF Fits
  <2>1. CASE rest = 0
    BY <2>1, ShapeOfNothing
  <2>2. CASE rest # 0
    <3>1. rest < 2 * BlkSize[side]
      BY <1>1
    <3>2. Shape(side, rest, c, 1, Spread(side)[rest][c])
      BY <2>2, <3>1, ShapeOfLast
    <3> QED
      BY <3>2
  <2> QED
    BY <2>1, <2>2
<1>3. ASSUME NEW m \in 0 .. n, m # n, m \in S PROVE m + 1 \in S
  <2>1. m \in Nat /\ m + 1 \in 0 .. n /\ m + 1 < NumChannels[side]
    BY <1>1, <1>3
  <2>2. Fits(side, m)
    BY <1>3
  <2> SUFFICES ASSUME NEW rest \in Nat, NEW c \in Channels(side), rest < ((m + 1) + 1) * blk
               PROVE  \E k \in 0 .. (m + 1) + 1 : Shape(side, rest, c, k, Spread(side)[rest][c])
    BY <2>1 DEF Fits
  <2>3. CASE rest = 0
    BY <2>1, <2>3, ShapeOfNothing
  <2>4. CASE rest # 0 /\ rest < 2 * blk
    <3>1. Shape(side, rest, c, 1, Spread(side)[rest][c])
      BY <2>4, ShapeOfLast
    <3> QED
      BY <3>1, <2>1
  <2>5. CASE ~(rest < 2 * blk)
    <3> DEFINE left == rest - blk
               d == (c + 1) % NumChannels[side]
    <3>1. left \in Nat /\ rest >= 2 * blk
      BY <2>5, <1>1
    <3>2. d \in Channels(side)
      BY NextFacts
    <3>3. left < (m + 1) * blk
      <4>1. ((m + 1) + 1) * blk = (m + 1) * blk + blk /\ (m + 1) * blk \in Nat
        BY <2>1, <1>1
      <4> HIDE DEF blk
      <4> QED
        BY <4>1, <1>1
    <3>4. PICK k \in 0 .. m + 1 : Shape(side, left, d, k, Spread(side)[left][d])
      <4> HIDE DEF left, d
      <4> QED
        BY <3>1, <3>2, <3>3, <2>2 DEF Fits
    <3>5. Shape(side, rest, c, k + 1, Spread(side)[rest][c])
      <4>1. k \in Nat /\ k < NumChannels[side]
        BY <2>1, <1>1
      <4> QED
        BY <3>1, <3>4, <4>1, ShapeOfBlock
    <3> QED
      BY <3>5, <2>1
  <2> QED
    BY <2>3, <2>4, <2>5
<1>4. \A m \in 0 .. n : m \in S
  <2> HIDE DEF S
  <2> QED
    BY <1>1, <1>2, <1>3, ChannelInduction
<1> QED
  BY <1>4 DEF n

\* Less than a round is divided as Shape says, within one round.
LEMMA SpreadShape ==
    ASSUME NEW side \in Sides, NEW rest \in Nat, rest < BlkSizeSum(side), NEW c \in Channels(side)
    PROVE  \E k \in 0 .. NumChannels[side] : Shape(side, rest, c, k, Spread(side)[rest][c])
<1> DEFINE m == NumChannels[side] - 1
<1>1. m \in Nat /\ m + 1 = NumChannels[side]
  BY SideFacts
<1>2. Fits(side, m)
  BY <1>1, SpreadFits
<1>3. rest < (m + 1) * BlkSize[side]
  BY <1>1 DEF BlkSizeSum
<1> HIDE DEF m
<1> QED
  BY <1>1, <1>2, <1>3 DEF Fits

-----------------------------------------------------------------------------
(* The parts of a message *)

LEMMA Regroup ==
    ASSUME NEW a \in Int, NEW b \in Int, NEW c \in Int
    PROVE  (a * b) * c = a * (c * b)
OBVIOUS

\* Full rounds and a rest.
LEMMA Rounds ==
    ASSUME NEW side \in Sides, NEW size \in Nat
    PROVE  /\ size \div BlkSizeSum(side) \in Nat
           /\ size % BlkSizeSum(side) \in Nat /\ size % BlkSizeSum(side) < BlkSizeSum(side)
           /\ size = NumChannels[side] * ((size \div BlkSizeSum(side)) * BlkSize[side])
                       + (size % BlkSizeSum(side))
<1> DEFINE s == BlkSizeSum(side)
           q == size \div s
           n == NumChannels[side]
           b == BlkSize[side]
<1>1. n \in Nat \ {0} /\ b \in Nat \ {0} /\ s = n * b
  BY SideFacts DEF BlkSizeSum
<1>2. s \in Nat \ {0}
  <2> HIDE DEF s, n, b
  <2> QED
    BY <1>1
<1> HIDE DEF s, n, b
<1>3. q \in Nat /\ size % s \in Nat /\ size % s < s /\ size = s * q + (size % s)
  BY <1>2
<1> HIDE DEF q
<1>4. s * q = n * (q * b)
  BY <1>1, <1>3, Regroup
<1>5. q \in Nat /\ size % s \in Nat /\ size % s < s /\ size = n * (q * b) + (size % s)
  BY <1>3, <1>4
<1> QED
  BY <1>5 DEF s, q, n, b

\* A message is divided into parts that make it up, that are no runts and load
\* the channels evenly, from wherever the rotation stands.
LEMMA PartsFacts ==
    ASSUME NEW side \in Sides, NEW size \in Nat, NEW c \in Channels(side)
    PROVE  LET parts == DivSize(side, size, c) IN
           /\ parts \in [Channels(side) -> Nat]
           /\ Tiled(size, parts)
           /\ NoRunt(BlkSize[side], parts)
           /\ Balanced(BlkSize[side], parts)
           /\ NextChannel(side, size, c) \in Channels(side)
           /\ size # 0 => Used(parts) # {}
           /\ Total(NumChannels[side] - 1, parts) = size
<1> DEFINE n == NumChannels[side] - 1
           blk == BlkSize[side]
           full == (size \div BlkSizeSum(side)) * blk
           left == size % BlkSizeSum(side)
           r == Spread(side)[left][c]
           parts == DivSize(side, size, c)
<1>1. n \in Nat /\ NumChannels[side] = n + 1 /\ blk \in Nat \ {0} /\ Channels(side) = 0 .. n
  BY SideFacts
<1>2. /\ size \div BlkSizeSum(side) \in Nat
      /\ left \in Nat /\ left < BlkSizeSum(side)
      /\ size = (n + 1) * full + left
  BY <1>1, Rounds
<1>3. full \in Nat /\ (full = 0 \/ full >= blk)
  <2> DEFINE q == size \div BlkSizeSum(side)
  <2>1. q \in Nat
    BY <1>2
  <2> HIDE DEF q, blk
  <2>2. q * blk \in Nat /\ (q * blk = 0 \/ q * blk >= blk)
    <3>1. CASE q = 0
      BY <3>1, <1>1
    <3>2. CASE q # 0
      <4>1. q - 1 \in Nat /\ q * blk = (q - 1) * blk + blk /\ (q - 1) * blk \in Nat
        BY <3>2, <2>1, <1>1
      <4> QED
        BY <4>1, <1>1
    <3> QED
      BY <3>1, <3>2
  <2> QED
    BY <2>2 DEF q
<1>4. PICK k \in 0 .. NumChannels[side] : Shape(side, left, c, k, r)
  BY <1>2, SpreadShape
<1>5. parts = [j \in Channels(side) |-> full + r.add[j]]
  BY DEF DivSize
<1>6. NextChannel(side, size, c) = r.next
  BY DEF NextChannel
<1> HIDE DEF r, full, left, parts, n, blk
<1>7. /\ r.add \in [Channels(side) -> Nat] /\ r.next \in Channels(side)
      /\ \A j \in Channels(side) :
         /\ Behind(side, c, j) >= k => r.add[j] = 0
         /\ Behind(side, c, j) < k =>
              /\ r.add[j] # 0 /\ r.add[j] < 2 * blk
              /\ r.add[j] >= blk \/ (k = 1 /\ left < blk)
      /\ Total(n, r.add) = left
  BY <1>4 DEF Shape, n, blk
<1>8. parts \in [Channels(side) -> Nat] /\ Total(n, parts) = size
  <2>1. parts \in [Channels(side) -> Nat]
    BY <1>3, <1>5, <1>7
  <2>2. r.add \in [0 .. n -> Nat] /\ parts \in [0 .. n -> Nat]
    BY <2>1, <1>1, <1>7
  <2>3. \A j \in 0 .. n : parts[j] = full + r.add[j]
    BY <1>1, <1>5
  <2> SUFFICES ASSUME NEW g, g = r.add, NEW m \in Nat, m = n, NEW a \in Nat, a = full
               PROVE  Total(n, parts) = size
    BY <2>1, <1>1, <1>3
  <2>4. Total(m, parts) = Total(m, g) + (m + 1) * a
    <3>1. g \in [0 .. m -> Nat] /\ parts \in [0 .. m -> Nat] /\ \A j \in 0 .. m : parts[j] = a + g[j]
      BY <2>2, <2>3
    <3> QED
      BY ONLY m \in Nat, a \in Nat, <3>1, TotalOfRounds
  <2>5. (m + 1) * a \in Nat
    OBVIOUS
  <2> QED
    BY <2>4, <2>5, <1>2, <1>7
<1>9. Tiled(size, parts)
  BY <1>1, <1>8, TotalTiles
<1>10. \A j \in Channels(side) : parts[j] = full + r.add[j]
  BY <1>5
<1>11. \A j \in Channels(side) : Behind(side, c, j) \in Nat
  BY NextFacts, SideFacts
<1>12. \A j \in Channels(side) : r.add[j] \in Nat /\ r.add[j] < 2 * blk
  BY <1>1, <1>7, <1>11
<1>13. Balanced(blk, parts)
  <2>1. DOMAIN parts = Channels(side)
    BY <1>5
  <2> SUFFICES ASSUME NEW i \in Channels(side), NEW j \in Channels(side)
               PROVE  parts[i] < parts[j] + 2 * blk
    BY <2>1 DEF Balanced
  <2> SUFFICES ASSUME NEW x \in Nat, x = r.add[i], NEW y \in Nat, y = r.add[j],
                      NEW b \in Nat, b = blk, NEW f \in Nat, f = full
               PROVE  parts[i] < parts[j] + 2 * blk
    BY <1>1, <1>3, <1>12
  <2>2. parts[i] = f + x /\ parts[j] = f + y /\ x < 2 * b
    BY <1>10, <1>12
  <2> QED
    BY <2>2
<1>14. NoRunt(blk, parts)
  <2>1. DOMAIN parts = Channels(side)
    BY <1>5
  <2> SUFFICES ASSUME NEW i \in Channels(side), parts[i] # 0, ~(parts[i] >= blk)
               PROVE  Used(parts) = {i}
    BY <2>1 DEF NoRunt, Used
  <2>2. full = 0
    BY <1>1, <1>3, <1>10, <1>12
  <2>3. \A j \in Channels(side) : parts[j] = r.add[j]
    BY <2>2, <1>10, <1>12
  <2>8. r.add[i] # 0 /\ ~(r.add[i] >= blk) /\ Behind(side, c, i) \in Nat /\ k \in Nat
    BY <2>3, <1>11, SideFacts
  <2>9. Behind(side, c, i) < k
    BY <2>8, <1>7
  <2>4. k = 1 /\ Behind(side, c, i) < 1
    BY <2>8, <2>9, <1>7
  <2>5. \A j \in Channels(side) : Behind(side, c, j) = 0 => j = c
    BY <1>1 DEF Behind
  <2>6. i = c
    BY <2>4, <2>5, <1>11
  <2>7. ASSUME NEW j \in Channels(side), j # c PROVE parts[j] = 0
    BY <2>3, <2>4, <2>5, <2>7, <1>7, <1>11
  <2> QED
    BY <2>1, <2>6, <2>7 DEF Used
<1>15. size # 0 => Used(parts) # {}
  <2> SUFFICES ASSUME size # 0, Used(parts) = {} PROVE FALSE
    OBVIOUS
  <2>1. 0 \in 0 .. size - 1
    OBVIOUS
  <2>2. PICK b \in 0 .. size - 1 :
          Cardinality({j \in Used(parts) : DivOffset(parts)[j] <= b /\ b < DivOffset(parts)[j] + parts[j]}) = 1
    BY <2>1, <1>9 DEF Tiled
  <2>3. {j \in Used(parts) : DivOffset(parts)[j] <= b /\ b < DivOffset(parts)[j] + parts[j]} = {}
    OBVIOUS
  <2> QED
    BY <2>2, <2>3, FS_EmptySet
<1> QED
  BY <1>6, <1>7, <1>8, <1>9, <1>13, <1>14, <1>15 DEF parts, blk, n

-----------------------------------------------------------------------------
(* Sums over finite sets *)

LEMMA NoElements ==
    ASSUME NEW S, IsFiniteSet(S), Cardinality(S) = 0
    PROVE  S = {}
BY FS_EmptySet

LEMMA OneLess ==
    ASSUME NEW T, IsFiniteSet(T), NEW n \in Nat, Cardinality(T) = n + 1, NEW x \in T
    PROVE  IsFiniteSet(T \ {x}) /\ Cardinality(T \ {x}) = n
<1>1. /\ IsFiniteSet(T \ {x})
      /\ Cardinality(T \ {x}) = IF x \in T THEN Cardinality(T) - 1 ELSE Cardinality(T)
  BY FS_RemoveElement
<1> QED
  BY <1>1

\* Induction over the subsets of a finite set.
LEMMA SubsetInduction ==
    ASSUME NEW S, IsFiniteSet(S), NEW K, {} \in K,
           \A T \in SUBSET S : \A x \in S \ T : T \in K => T \cup {x} \in K
    PROVE  \A T \in SUBSET S : T \in K
<1> DEFINE N == {n \in Nat : \A T \in SUBSET S : Cardinality(T) = n => T \in K}
<1>1. \A T \in SUBSET S : IsFiniteSet(T) /\ Cardinality(T) \in Nat
  BY FS_Subset, FS_CardinalityType
<1>2. 0 \in N
  BY <1>1, NoElements
<1>3. ASSUME NEW n \in Nat, n \in N PROVE n + 1 \in N
  <2> SUFFICES ASSUME NEW T \in SUBSET S, Cardinality(T) = n + 1 PROVE T \in K
    OBVIOUS
  <2>1. T # {}
    BY <1>1, FS_EmptySet
  <2>2. PICK x \in T : TRUE
    BY <2>1
  <2>3. Cardinality(T \ {x}) = n
    BY <1>1, <2>2, OneLess
  <2>4. T \ {x} \in SUBSET S /\ x \in S \ (T \ {x}) /\ (T \ {x}) \cup {x} = T
    BY <2>2
  <2>5. T \ {x} \in K
    BY <2>3, <2>4, <1>3
  <2> QED
    BY <2>4, <2>5
<1> HIDE DEF N
<1>4. \A n \in Nat : n \in N
  BY <1>2, <1>3, NatSet
<1> QED
  BY <1>1, <1>4 DEF N

\* The fold takes out an element and goes on with the others.
Pick(s) == CHOOSE x \in s : TRUE
FoldStep(f, h, s) == IF s = {} THEN 0 ELSE f[Pick(s)] + h[s \ {Pick(s)}]
FoldsTo(f, S, h) == h = [s \in SUBSET S |-> FoldStep(f, h, s)]

LEMMA SumChoose ==
    ASSUME NEW f, NEW S
    PROVE  SumOf(f, S) = (CHOOSE h : FoldsTo(f, S, h))[S]
BY DEF SumOf, MapThenSumSet, MapThenFoldSet, FoldStep, FoldsTo, Pick

LEMMA PickIn ==
    ASSUME NEW s, s # {}
    PROVE  Pick(s) \in s
BY DEF Pick

\* Two folds agree where both are defined.
LEMMA FoldsAgree ==
    ASSUME NEW f, NEW S, NEW g, FoldsTo(f, S, g), NEW R, NEW h, FoldsTo(f, R, h),
           R \subseteq S, IsFiniteSet(R)
    PROVE  \A T \in SUBSET R : g[T] = h[T]
<1> DEFINE N == {n \in Nat : \A T \in SUBSET R : Cardinality(T) = n => g[T] = h[T]}
<1>1. \A T \in SUBSET R : /\ IsFiniteSet(T) /\ Cardinality(T) \in Nat
                          /\ g[T] = FoldStep(f, g, T) /\ h[T] = FoldStep(f, h, T)
  BY FS_Subset, FS_CardinalityType DEF FoldsTo
<1>2. 0 \in N
  <2>1. \A T \in SUBSET R : Cardinality(T) = 0 => T = {}
    BY <1>1, NoElements
  <2> QED
    BY <2>1, <1>1 DEF FoldStep
<1>3. ASSUME NEW n \in Nat, n \in N PROVE n + 1 \in N
  <2> SUFFICES ASSUME NEW T \in SUBSET R, Cardinality(T) = n + 1 PROVE g[T] = h[T]
    OBVIOUS
  <2>1. T # {} /\ Pick(T) \in T
    BY <1>1, FS_EmptySet, PickIn
  <2>2. Cardinality(T \ {Pick(T)}) = n
    BY <1>1, <2>1, OneLess
  <2>3. g[T \ {Pick(T)}] = h[T \ {Pick(T)}]
    BY <2>2, <1>3
  <2> QED
    BY <1>1, <2>1, <2>3 DEF FoldStep
<1> HIDE DEF N
<1>4. \A n \in Nat : n \in N
  BY <1>2, <1>3, NatSet
<1> QED
  BY <1>1, <1>4 DEF N

\* A fold of every finite set exists, as it does of smaller sets.
LEMMA FoldsExist ==
    ASSUME NEW f
    PROVE  \A n \in Nat : \A S : IsFiniteSet(S) /\ Cardinality(S) = n => \E h : FoldsTo(f, S, h)
<1> DEFINE Exists(S) == \E h : FoldsTo(f, S, h)
           N == {n \in Nat : \A S : IsFiniteSet(S) /\ Cardinality(S) <= n => Exists(S)}
<1>1. 0 \in N
  <2> SUFFICES ASSUME NEW S, IsFiniteSet(S), Cardinality(S) <= 0 PROVE Exists(S)
    OBVIOUS
  <2>1. S = {}
    BY FS_EmptySet, FS_CardinalityType
  <2> DEFINE h == [s \in SUBSET S |-> 0]
  <2>2. \A s \in SUBSET S : FoldStep(f, h, s) = 0
    BY <2>1 DEF FoldStep
  <2>3. FoldsTo(f, S, h)
    BY <2>2 DEF FoldsTo
  <2> QED
    BY <2>3
<1>2. ASSUME NEW n \in Nat, n \in N PROVE n + 1 \in N
  <2> SUFFICES ASSUME NEW S, IsFiniteSet(S), Cardinality(S) <= n + 1 PROVE Exists(S)
    OBVIOUS
  <2> DEFINE G(R) == CHOOSE h : FoldsTo(f, R, h)
             Rest(s) == s \ {Pick(s)}
             h == [s \in SUBSET S |-> IF s = {} THEN 0 ELSE f[Pick(s)] + G(Rest(s))[Rest(s)]]
  <2>1. \A R : IsFiniteSet(R) /\ Cardinality(R) <= n => FoldsTo(f, R, G(R))
    BY <1>2
  <2>2. ASSUME NEW s \in SUBSET S, s # {}
        PROVE  /\ Pick(s) \in s /\ Rest(s) \in SUBSET S
               /\ IsFiniteSet(Rest(s)) /\ Cardinality(Rest(s)) <= n
    <3>1. IsFiniteSet(s) /\ Cardinality(s) <= n + 1 /\ Cardinality(s) \in Nat
      BY FS_Subset, FS_CardinalityType
    <3>2. Pick(s) \in s
      BY <2>2, PickIn
    <3>3. IsFiniteSet(Rest(s)) /\ Cardinality(Rest(s)) = Cardinality(s) - 1
      BY <3>1, <3>2, FS_RemoveElement
    <3> QED
      BY <3>1, <3>2, <3>3
  <2>3. ASSUME NEW s \in SUBSET S, s # {}
        PROVE  G(Rest(s))[Rest(s)] = h[Rest(s)]
    <3> DEFINE R == Rest(s)
    <3>1. FoldsTo(f, R, G(R)) /\ R \in SUBSET S /\ IsFiniteSet(R) /\ Cardinality(R) <= n
      BY <2>1, <2>2, <2>3
    <3> HIDE DEF R
    <3>2. G(R)[R] = FoldStep(f, G(R), R)
      BY <3>1 DEF FoldsTo
    <3>3. CASE R = {}
      <4>1. h[R] = 0
        BY <3>1, <3>3
      <4> QED
        BY <3>2, <3>3, <4>1 DEF FoldStep, R
    <3>4. CASE R # {}
      <4>1. /\ IsFiniteSet(Rest(R)) /\ Cardinality(Rest(R)) <= n /\ Rest(R) \subseteq R
        BY <2>2, <3>1, <3>4
      <4>2. FoldsTo(f, Rest(R), G(Rest(R)))
        BY <2>1, <4>1
      <4>3. G(R)[Rest(R)] = G(Rest(R))[Rest(R)]
        <5> HIDE DEF G, Rest
        <5> QED
          BY <3>1, <4>1, <4>2, FoldsAgree
      <4>4. G(R)[R] = f[Pick(R)] + G(R)[Rest(R)]
        BY <3>2, <3>4 DEF FoldStep
      <4>5. h[R] = f[Pick(R)] + G(Rest(R))[Rest(R)]
        BY <3>1, <3>4
      <4> QED
        BY <4>3, <4>4, <4>5 DEF R
    <3> QED
      BY <3>3, <3>4
  <2>4. ASSUME NEW s \in SUBSET S PROVE h[s] = FoldStep(f, h, s)
    <3>1. CASE s = {}
      BY <3>1 DEF FoldStep
    <3>2. CASE s # {}
      <4>1. h[s] = f[Pick(s)] + G(Rest(s))[Rest(s)]
        BY <3>2
      <4> HIDE DEF h, G
      <4> QED
        BY <3>2, <4>1, <2>3 DEF FoldStep
    <3> QED
      BY <3>1, <3>2
  <2>5. FoldsTo(f, S, h)
    <3>1. h = [s \in SUBSET S |-> h[s]]
      OBVIOUS
    <3> HIDE DEF h
    <3> QED
      BY <3>1, <2>4 DEF FoldsTo
  <2> QED
    BY <2>5
<1> HIDE DEF N
<1>3. \A n \in Nat : n \in N
  BY <1>1, <1>2, NatSet
<1> QED
  BY <1>3 DEF N

\* The sum over a finite set is that of one of its elements and of the rest.
LEMMA SumPick ==
    ASSUME NEW f, NEW S, IsFiniteSet(S)
    PROVE  SumOf(f, S) = IF S = {} THEN 0 ELSE f[Pick(S)] + SumOf(f, S \ {Pick(S)})
<1> DEFINE G(R) == CHOOSE h : FoldsTo(f, R, h)
<1>1. \A R : IsFiniteSet(R) => FoldsTo(f, R, G(R))
  BY FoldsExist, FS_CardinalityType
<1>2. \A R : SumOf(f, R) = G(R)[R]
  BY SumChoose
<1> HIDE DEF G
<1>3. G(S)[S] = FoldStep(f, G(S), S)
  BY <1>1 DEF FoldsTo
<1>4. CASE S = {}
  BY <1>2, <1>3, <1>4 DEF FoldStep
<1>5. CASE S # {}
  <2> DEFINE R == S \ {Pick(S)}
  <2>1. IsFiniteSet(R) /\ R \subseteq S
    BY FS_RemoveElement
  <2> HIDE DEF R
  <2>2. G(S)[R] = G(R)[R]
    BY <1>1, <2>1, FoldsAgree
  <2>3. G(S)[S] = f[Pick(S)] + G(S)[R]
    BY <1>3, <1>5 DEF FoldStep, R
  <2>4. SumOf(f, S) = f[Pick(S)] + SumOf(f, R)
    BY <1>2, <2>2, <2>3
  <2> QED
    BY <2>4, <1>5 DEF R
<1> QED
  BY <1>4, <1>5

LEMMA SumOfNone ==
    ASSUME NEW f
    PROVE  SumOf(f, {}) = 0
BY SumPick, FS_EmptySet

LEMMA SumType ==
    ASSUME NEW S, IsFiniteSet(S), NEW f, \A x \in S : f[x] \in Int
    PROVE  \A T \in SUBSET S : SumOf(f, T) \in Int
<1> DEFINE N == {n \in Nat : \A T \in SUBSET S : Cardinality(T) = n => SumOf(f, T) \in Int}
<1>1. \A T \in SUBSET S : IsFiniteSet(T) /\ Cardinality(T) \in Nat
  BY FS_Subset, FS_CardinalityType
<1>2. 0 \in N
  <2>1. \A T \in SUBSET S : Cardinality(T) = 0 => T = {}
    BY <1>1, NoElements
  <2> QED
    BY <2>1, SumOfNone
<1>3. ASSUME NEW n \in Nat, n \in N PROVE n + 1 \in N
  <2> SUFFICES ASSUME NEW T \in SUBSET S, Cardinality(T) = n + 1 PROVE SumOf(f, T) \in Int
    OBVIOUS
  <2>1. T # {} /\ Pick(T) \in T
    BY <1>1, FS_EmptySet, PickIn
  <2>2. Cardinality(T \ {Pick(T)}) = n
    BY <1>1, <2>1, OneLess
  <2>3. SumOf(f, T \ {Pick(T)}) \in Int
    BY <2>2, <1>3
  <2>4. SumOf(f, T) = f[Pick(T)] + SumOf(f, T \ {Pick(T)})
    BY <2>1, <1>1, SumPick
  <2> QED
    BY <2>1, <2>3, <2>4
<1> HIDE DEF N
<1>4. \A n \in Nat : n \in N
  BY <1>2, <1>3, NatSet
<1> QED
  BY <1>1, <1>4 DEF N

\* ... of any of its elements.
LEMMA SumTake ==
    ASSUME NEW S, IsFiniteSet(S), NEW f, \A x \in S : f[x] \in Int
    PROVE  \A T \in SUBSET S : \A y \in T : SumOf(f, T) = f[y] + SumOf(f, T \ {y})
<1> DEFINE Takes(T) == \A y \in T : SumOf(f, T) = f[y] + SumOf(f, T \ {y})
           N == {n \in Nat : \A T \in SUBSET S : Cardinality(T) = n => Takes(T)}
<1>1. \A T \in SUBSET S : IsFiniteSet(T) /\ Cardinality(T) \in Nat
  BY FS_Subset, FS_CardinalityType
<1>2. 0 \in N
  <2>1. \A T \in SUBSET S : Cardinality(T) = 0 => T = {}
    BY <1>1, NoElements
  <2> QED
    BY <2>1
<1>3. ASSUME NEW n \in Nat, n \in N PROVE n + 1 \in N
  <2> SUFFICES ASSUME NEW T \in SUBSET S, Cardinality(T) = n + 1, NEW y \in T
               PROVE  SumOf(f, T) = f[y] + SumOf(f, T \ {y})
    OBVIOUS
  <2>1. T # {} /\ Pick(T) \in T
    BY PickIn
  <2>2. SumOf(f, T) = f[Pick(T)] + SumOf(f, T \ {Pick(T)})
    BY <2>1, <1>1, SumPick
  <2>3. CASE y = Pick(T)
    BY <2>2, <2>3
  <2>4. CASE y # Pick(T)
    <3> SUFFICES ASSUME NEW x \in T, x = Pick(T), x # y
                 PROVE  SumOf(f, T) = f[y] + SumOf(f, T \ {y})
      BY <2>1, <2>4
    <3> DEFINE A == T \ {x}
               B == T \ {y}
               C == T \ {x, y}
    <3>1. /\ A \in SUBSET S /\ B \in SUBSET S /\ C \in SUBSET S
          /\ y \in A /\ x \in B /\ A \ {y} = C /\ B \ {x} = C
      OBVIOUS
    <3>2. Cardinality(A) = n /\ Cardinality(B) = n
      BY <1>1, OneLess
    <3> HIDE DEF A, B, C
    <3>3. SumOf(f, A) = f[y] + SumOf(f, C) /\ SumOf(f, B) = f[x] + SumOf(f, C)
      BY <3>1, <3>2, <1>3
    <3>4. f[x] \in Int /\ f[y] \in Int /\ SumOf(f, C) \in Int
      BY <3>1, SumType
    <3>5. SumOf(f, T) = f[x] + SumOf(f, A)
      BY <2>2 DEF A
    <3>6. SumOf(f, T) = f[y] + SumOf(f, B)
      BY <3>3, <3>4, <3>5
    <3> QED
      BY <3>6 DEF B
  <2> QED
    BY <2>3, <2>4
<1> HIDE DEF N
<1>4. \A n \in Nat : n \in N
  BY <1>2, <1>3, NatSet
<1> QED
  BY <1>1, <1>4 DEF N

LEMMA SumPlus ==
    ASSUME NEW S, IsFiniteSet(S), NEW f, \A x \in S : f[x] \in Int,
           NEW T \in SUBSET S, NEW y \in S \ T
    PROVE  SumOf(f, T \cup {y}) = f[y] + SumOf(f, T)
<1>1. T \cup {y} \in SUBSET S /\ y \in T \cup {y} /\ (T \cup {y}) \ {y} = T
  OBVIOUS
<1> QED
  BY <1>1, SumTake

-----------------------------------------------------------------------------
(* The increments of the parts *)

\* Products by a number of at least two
LEMMA Doubles ==
    ASSUME NEW w \in Nat, w >= 2, NEW k \in Nat
    PROVE  /\ w * k \in Nat /\ w * (k + 1) = w * k + w
           /\ k # 0 => w * k >= 2
<1>1. w * k \in Nat /\ w * (k + 1) = w * k + w
  OBVIOUS
<1>2. ASSUME k # 0 PROVE w * k >= 2
  <2>1. k - 1 \in Nat
    BY <1>2
  <2>2. w * (k - 1) \in Nat /\ w * k = w * (k - 1) + w
    BY <2>1
  <2> QED
    BY <2>2
<1> QED
  BY <1>1, <1>2

\* The first of u + 1 parts announces the other ones.
Announced(add, U, first, w, u) ==
    \A j \in U : add[j] = IF j = first THEN -1 + w * u ELSE -w

\* What the increments of some of the parts add up to.
SumsTo(add, U, first, w, u) ==
    \A T \in SUBSET U :
       SumOf(add, T) = IF first \in T THEN -1 + w * (u + 1 - Cardinality(T))
                                     ELSE -(w * Cardinality(T))

\* A sum of parts without the first one, and with it.
LEMMA IncrementSums ==
    ASSUME NEW U, IsFiniteSet(U), NEW first \in U, NEW add, NEW w \in Nat, w >= 2,
           NEW u \in Nat, Cardinality(U) = u + 1,
           Announced(add, U, first, w, u)
    PROVE  SumsTo(add, U, first, w, u)
<1> DEFINE S == U \ {first}
           K == {T \in SUBSET S : SumOf(add, T) = -(w * Cardinality(T))}
<1>1. IsFiniteSet(S) /\ Cardinality(S) = u
  BY OneLess
<1>2. w * u \in Nat
  BY Doubles
<1>3. /\ \A j \in U : add[j] = IF j = first THEN -1 + w * u ELSE -w
      /\ \A j \in U : add[j] \in Int
  BY <1>2 DEF Announced
<1>4. \A T \in SUBSET U : IsFiniteSet(T) /\ Cardinality(T) \in Nat
  BY FS_Subset, FS_CardinalityType
<1>5. {} \in K
  <2>1. Cardinality({}) = 0 /\ SumOf(add, {}) = 0 /\ w * 0 = 0
    BY SumOfNone, FS_EmptySet
  <2> QED
    BY <2>1
<1>6. ASSUME NEW T \in SUBSET S, NEW x \in S \ T, T \in K PROVE T \cup {x} \in K
  <2>1. Cardinality(T \cup {x}) = Cardinality(T) + 1 /\ Cardinality(T) \in Nat
    BY <1>4, FS_AddElement
  <2>2. SumOf(add, T \cup {x}) = add[x] + SumOf(add, T)
    BY <1>1, <1>3, SumPlus
  <2>3. add[x] = -w /\ SumOf(add, T) = -(w * Cardinality(T))
    BY <1>3, <1>6
  <2> SUFFICES ASSUME NEW k \in Nat, k = Cardinality(T)
               PROVE  SumOf(add, T \cup {x}) = -(w * Cardinality(T \cup {x}))
    BY <2>1
  <2>4. w * (k + 1) = w * k + w /\ w * k \in Nat
    BY Doubles
  <2> QED
    BY <2>1, <2>2, <2>3, <2>4
<1>7. \A T \in SUBSET S : SumOf(add, T) = -(w * Cardinality(T))
  <2>1. \A T \in SUBSET S : T \in K
    <3> HIDE DEF K, S
    <3> QED
      BY <1>1, <1>5, <1>6, SubsetInduction
  <2> QED
    BY <2>1
<1> SUFFICES ASSUME NEW T \in SUBSET U
             PROVE  SumOf(add, T) = IF first \in T THEN -1 + w * (u + 1 - Cardinality(T))
                                                   ELSE -(w * Cardinality(T))
  BY DEF SumsTo
<1>8. CASE first \notin T
  BY <1>7, <1>8
<1>9. CASE first \in T
  <2> DEFINE R == T \ {first}
  <2>1. R \in SUBSET S /\ R \in SUBSET U
    OBVIOUS
  <2>2. SumOf(add, T) = add[first] + SumOf(add, R)
    BY <1>3, <1>9, SumTake
  <2>3. Cardinality(R) = Cardinality(T) - 1 /\ Cardinality(R) \in Nat
    BY <1>4, <1>9, <2>1, FS_RemoveElement
  <2>4. Cardinality(R) <= u
    BY <1>1, <2>1, FS_Subset
  <2>5. add[first] = -1 + w * u /\ SumOf(add, R) = -(w * Cardinality(R))
    BY <1>3, <1>7, <2>1
  <2> SUFFICES ASSUME NEW k \in Nat, k = Cardinality(R)
               PROVE  SumOf(add, T) = -1 + w * (u + 1 - Cardinality(T))
    BY <1>9, <2>3
  <2>6. w * u - w * k = w * (u - k) /\ w * u \in Int /\ w * k \in Int
    OBVIOUS
  <2>7. u + 1 - Cardinality(T) = u - k
    BY <2>3, <1>4
  <2> QED
    BY <2>2, <2>5, <2>6, <2>7
<1> QED
  BY <1>8, <1>9

LEMMA UpToFinite == \A n \in Int : IsFiniteSet(0 .. n) /\ IsFiniteSet(0 .. n - 1)
<1> SUFFICES ASSUME NEW n \in Int PROVE IsFiniteSet(0 .. n) /\ IsFiniteSet(0 .. n - 1)
  OBVIOUS
<1>1. 0 \in Int /\ n - 1 \in Int
  OBVIOUS
<1>2. IsFiniteSet(0 .. n)
  BY ONLY <1>1, n \in Int, FS_Interval
<1>3. IsFiniteSet(0 .. n - 1)
  BY ONLY <1>1, FS_Interval
<1> QED
  BY ONLY <1>2, <1>3

\* The increments of the parts are one event, all together and not before.
LEMMA IncrementsOneEvent ==
    ASSUME NEW n \in Nat, NEW parts \in [0 .. n -> Nat], Used(parts) # {}
    PROVE  OneEvent(parts, SigAddArr(parts))
<1> DEFINE U == Used(parts)
           add == SigAddArr(parts)
           first == CHOOSE j \in U : \A k \in U : j <= k
           u == Cardinality(U) - 1
<1>1. U \in SUBSET (0 .. n) /\ IsFiniteSet(U)
  <2>1. U \in SUBSET (0 .. n)
    BY DEF Used
  <2>2. IsFiniteSet(0 .. n)
    BY UpToFinite
  <2> HIDE DEF U
  <2> QED
    BY <2>1, <2>2, FS_Subset
<1>2. first \in U
  <2>1. U \in SUBSET Nat
    BY <1>1
  <2>2. \E j \in U : \A k \in U : j <= k
    BY <2>1, Smallest
  <2> QED
    BY <2>2
<1>3. u \in Nat /\ Cardinality(U) = u + 1
  BY <1>1, FS_CardinalityType, FS_EmptySet
<1>4. W \in Nat /\ W >= 2
  BY SplitAssumption
<1>5. add = [j \in 0 .. n |-> IF j \notin U THEN 0 ELSE IF j = first THEN -1 + W * u ELSE -W]
  BY DEF SigAddArr, Used
<1> HIDE DEF first, U, add, u
<1>6. \A j \in U : add[j] = IF j = first THEN -1 + W * u ELSE -W
  BY <1>1, <1>5
<1>7. \A T \in SUBSET U :
             SumOf(add, T) = IF first \in T THEN -1 + W * (u + 1 - Cardinality(T))
                                            ELSE -(W * Cardinality(T))
  <2>1. Announced(add, U, first, W, u)
    BY <1>6 DEF Announced
  <2>2. SumsTo(add, U, first, W, u)
    BY <1>1, <1>2, <1>3, <1>4, <2>1, IncrementSums
  <2> QED
    BY <2>2 DEF SumsTo
<1>8. SumOf(add, U) = -1
  <2>1. SumOf(add, U) = -1 + W * (u + 1 - Cardinality(U))
    BY <1>2, <1>7
  <2>2. u + 1 - Cardinality(U) = 0
    BY <1>3
  <2> QED
    BY <2>1, <2>2, <1>4
<1>9. ASSUME NEW T \in SUBSET U, T # {}, T # U PROVE SumOf(add, T) \notin {0, -1}
  <2>1. Cardinality(T) \in Nat /\ Cardinality(T) # 0 /\ Cardinality(T) < u + 1
    <3>1. IsFiniteSet(T) /\ Cardinality(T) <= Cardinality(U)
          /\ (Cardinality(T) = Cardinality(U) => T = U)
      BY <1>1, FS_Subset
    <3>2. Cardinality(T) \in Nat
      BY <3>1, FS_CardinalityType
    <3>3. Cardinality(T) # 0
      BY <3>1, <1>9, NoElements
    <3> QED
      BY <3>1, <3>2, <3>3, <1>3, <1>9
  <2> SUFFICES ASSUME NEW k \in Nat, k = Cardinality(T) PROVE SumOf(add, T) \notin {0, -1}
    BY <2>1
  <2>2. CASE first \in T
    <3>1. SumOf(add, T) = -1 + W * (u + 1 - k)
      BY <1>7, <2>2
    <3>2. u + 1 - k \in Nat /\ u + 1 - k # 0
      BY <1>3, <2>1
    <3>3. W * (u + 1 - k) \in Nat /\ W * (u + 1 - k) >= 2
      BY <1>4, <3>2, Doubles
    <3> QED
      BY <3>1, <3>3
  <2>3. CASE first \notin T
    <3>1. SumOf(add, T) = -(W * k)
      BY <1>7, <2>3
    <3>2. W * k \in Nat /\ W * k >= 2
      BY <1>4, <2>1, Doubles
    <3> QED
      BY <3>1, <3>2
  <2> QED
    BY <2>2, <2>3
<1> QED
  BY <1>8, <1>9 DEF OneEvent, SumOf, U, add

\* Every message of every size, over any number of channels with blocks of any
\* size, from wherever the rotation stands, is divided exactly.
THEOREM DivisionIsExact ==
    \A maxSize \in Nat : DivisionExact(maxSize)
<1> SUFFICES ASSUME NEW side \in Sides, NEW size \in Nat \ {0}, NEW c \in Channels(side)
             PROVE  LET parts == DivSize(side, size, c) IN
                    /\ Exact(side, size, parts, SigAddArr(parts))
                    /\ NextChannel(side, size, c) \in Channels(side)
  BY DEF DivisionExact
<1> DEFINE parts == DivSize(side, size, c)
<1>1. /\ parts \in [Channels(side) -> Nat]
      /\ Tiled(size, parts) /\ NoRunt(BlkSize[side], parts) /\ Balanced(BlkSize[side], parts)
      /\ NextChannel(side, size, c) \in Channels(side)
      /\ Used(parts) # {}
  BY PartsFacts
<1> HIDE DEF parts
<1>2. OneEvent(parts, SigAddArr(parts))
  BY <1>1, SideFacts, IncrementsOneEvent
<1> QED
  BY <1>1, <1>2 DEF Exact, parts

-----------------------------------------------------------------------------
(* Memory handles *)

\* The concatenation of the first i sequences
FlatStep(seqs, f, i) == IF i = 1 THEN seqs[i] ELSE f[i - 1] \o seqs[i]
FlatTo(seqs, n, f) == f = [i \in 1 .. n |-> FlatStep(seqs, f, i)]

LEMMA FlatExists ==
    ASSUME NEW seqs
    PROVE  \A n \in Nat : \E f : FlatTo(seqs, n, f)
<1> DEFINE S == {n \in Nat : \E f : FlatTo(seqs, n, f)}
<1>1. 0 \in S
  <2> DEFINE f == [i \in 1 .. 0 |-> 0]
  <2>1. FlatTo(seqs, 0, f)
    BY DEF FlatTo
  <2> QED
    BY <2>1
<1>2. \A n \in Nat : n \in S => n + 1 \in S
  <2> SUFFICES ASSUME NEW n \in Nat, n \in S PROVE n + 1 \in S
    OBVIOUS
  <2> PICK f : FlatTo(seqs, n, f)
    OBVIOUS
  <2> DEFINE h == [i \in 1 .. n + 1 |-> FlatStep(seqs, f, i)]
  <2>1. \A i \in 1 .. n : h[i] = f[i]
    BY DEF FlatTo
  <2>2. \A i \in 1 .. n + 1 : FlatStep(seqs, h, i) = FlatStep(seqs, f, i)
    <3> SUFFICES ASSUME NEW i \in 1 .. n + 1 PROVE FlatStep(seqs, h, i) = FlatStep(seqs, f, i)
      OBVIOUS
    <3> HIDE DEF h
    <3>1. i # 1 => h[i - 1] = f[i - 1]
      BY <2>1
    <3> QED
      BY <3>1 DEF FlatStep
  <2>3. FlatTo(seqs, n + 1, h)
    BY <2>2 DEF FlatTo
  <2> QED
    BY <2>3
<1> HIDE DEF S
<1>3. \A n \in Nat : n \in S
  BY <1>1, <1>2, NatSet
<1> QED
  BY <1>3 DEF S

LEMMA FlatRecursion ==
    ASSUME NEW seqs, Len(seqs) \in Nat \ {0}
    PROVE  \E f : FlatTo(seqs, Len(seqs), f) /\ FlattenSeq(seqs) = f[Len(seqs)]
<1> DEFINE P(f) == f = [i \in 1 .. Len(seqs) |-> IF i = 1 THEN seqs[i] ELSE f[i - 1] \o seqs[i]]
           F == CHOOSE f : P(f)
<1>1. \A f : P(f) <=> FlatTo(seqs, Len(seqs), f)
  BY DEF FlatTo, FlatStep
<1>2. \E f : P(f)
  BY <1>1, FlatExists
<1>3. FlattenSeq(seqs) = F[Len(seqs)]
  BY DEF FlattenSeq
<1> HIDE DEF P
<1>4. P(F)
  BY <1>2, Zenon
<1> QED
  BY <1>1, <1>3, <1>4

\* The lengths that the ranks contributed to the k-th call of unr_mem_reg_sync
Lens(k) == [q \in Ranks |-> sent[q][k]]

\* The ranks are numbered from 0.
LEMMA RankFacts ==
    /\ NumRanks \in Nat \ {0} /\ NumRanks - 1 \in Nat /\ Ranks = 0 .. NumRanks - 1
    /\ 0 \in Ranks
BY PlanAssumption DEF Ranks

\* Displs adds the lengths of the ranks before.
LEMMA DisplsFollow ==
    ASSUME NEW k
    PROVE  OffsetsTo(Lens(k), NumRanks - 1, Displs(k))
<1> DEFINE Body(f) == [q \in Ranks |-> IF q = 0 THEN 0 ELSE f[q - 1] + sent[q - 1][k]]
           P(f) == f = Body(f)
<1>1. \A f : \A q \in Ranks : OffsetStep(Lens(k), f, q) = Body(f)[q]
  <2> SUFFICES ASSUME NEW f, NEW q \in Ranks PROVE OffsetStep(Lens(k), f, q) = Body(f)[q]
    OBVIOUS
  <2>1. CASE q = 0
    BY <2>1 DEF OffsetStep
  <2>2. CASE q # 0
    <3>1. q - 1 \in Ranks
      BY <2>2, RankFacts
    <3>2. Lens(k)[q - 1] = sent[q - 1][k]
      BY <3>1 DEF Lens
    <3> QED
      BY <2>2, <3>2 DEF OffsetStep
  <2> QED
    BY <2>1, <2>2
<1>2. \A f : OffsetsTo(Lens(k), NumRanks - 1, f) <=> P(f)
  <2> SUFFICES ASSUME NEW f PROVE OffsetsTo(Lens(k), NumRanks - 1, f) <=> P(f)
    OBVIOUS
  <2>1. Body(f) = [q \in Ranks |-> OffsetStep(Lens(k), f, q)]
    BY <1>1
  <2> HIDE DEF Body
  <2> QED
    BY <2>1, RankFacts DEF OffsetsTo
<1>3. \E f : P(f)
  BY <1>2, OffsetExists, RankFacts
<1>4. Displs(k) = CHOOSE f : P(f)
  BY DEF Displs
<1> HIDE DEF P
<1>5. P(Displs(k))
  BY <1>3, <1>4, Zenon
<1> QED
  BY <1>2, <1>5

\* What a concatenation holds
LEMMA ConcatFacts ==
    ASSUME NEW S, NEW s \in Seq(S), NEW t \in Seq(S)
    PROVE  /\ s \o t \in Seq(S) /\ Len(s \o t) = Len(s) + Len(t)
           /\ Len(s) \in Nat /\ Len(t) \in Nat
           /\ \A j \in 1 .. Len(s) : (s \o t)[j] = s[j]
           /\ \A j \in 1 .. Len(t) : (s \o t)[Len(s) + j] = t[j]
OBVIOUS

\* A function on 1 .. n is a sequence.
LEMMA SeqFacts ==
    ASSUME NEW S, NEW n \in Nat, NEW s \in [1 .. n -> S]
    PROVE  s \in Seq(S) /\ Len(s) = n
OBVIOUS

LEMMA ElementFacts ==
    ASSUME NEW S, NEW s \in Seq(S), NEW j \in 1 .. Len(s)
    PROVE  s[j] \in S
OBVIOUS

LEMMA AppendFacts ==
    ASSUME NEW S, NEW s \in Seq(S), NEW x \in S
    PROVE  /\ Append(s, x) \in Seq(S) /\ Len(Append(s, x)) = Len(s) + 1
           /\ DOMAIN s = 1 .. Len(s) /\ DOMAIN Append(s, x) = 1 .. Len(s) + 1
           /\ Len(s) \in Nat
           /\ Append(s, x)[Len(s) + 1] = x
           /\ \A j \in 1 .. Len(s) : Append(s, x)[j] = s[j]
OBVIOUS

\* Each rank's handles are in the buffer from its displacement on.
LEMMA RecvBufAt ==
    ASSUME NEW k, \A q \in Ranks : sent[q][k] \in Nat
    PROVE  \A q \in Ranks : \A j \in 1 .. sent[q][k] : RecvBuf(k)[Displs(k)[q] + j] = <<q, j - 1>>
<1> DEFINE n == NumRanks - 1
           H == Ranks \X Nat
           off == Displs(k)
           seqs == [i \in 1 .. NumRanks |-> [j \in 1 .. sent[i - 1][k] |-> <<i - 1, j - 1>>]]
<1>1. n \in Nat /\ NumRanks = n + 1 /\ Ranks = 0 .. n
  BY RankFacts
<1>2. Lens(k) \in [0 .. n -> Nat] /\ \A q \in 0 .. n : Lens(k)[q] = sent[q][k]
  BY <1>1 DEF Lens
<1>3. /\ off \in [0 .. n -> Nat] /\ off[0] = 0
      /\ \A q \in 0 .. n : q # n => off[q + 1] = off[q] + sent[q][k]
  <2>1. OffsetsTo(Lens(k), n, off)
    BY DisplsFollow
  <2> HIDE DEF n, off
  <2>2. /\ off \in [0 .. n -> Nat] /\ off[0] = 0
        /\ \A q \in 0 .. n : q # n => off[q + 1] = off[q] + Lens(k)[q]
    BY <1>1, <1>2, <2>1, OffsetsFollow
  <2> QED
    BY <1>2, <2>2
<1> DEFINE hs(q) == [j \in 1 .. sent[q][k] |-> <<q, j - 1>>]
<1>4. \A q \in 0 .. n : /\ seqs[q + 1] = hs(q) /\ hs(q) \in Seq(H) /\ Len(hs(q)) = sent[q][k]
                        /\ \A j \in 1 .. sent[q][k] : hs(q)[j] = <<q, j - 1>>
  <2> SUFFICES ASSUME NEW q \in 0 .. n
               PROVE  /\ seqs[q + 1] = hs(q) /\ hs(q) \in Seq(H) /\ Len(hs(q)) = sent[q][k]
                      /\ \A j \in 1 .. sent[q][k] : hs(q)[j] = <<q, j - 1>>
    OBVIOUS
  <2>1. q + 1 \in 1 .. NumRanks /\ (q + 1) - 1 = q
    BY <1>1
  <2>2. hs(q) \in [1 .. sent[q][k] -> H] /\ sent[q][k] \in Nat
    BY <1>1
  <2>3. hs(q) \in Seq(H) /\ Len(hs(q)) = sent[q][k]
    <3> HIDE DEF hs, H
    <3> QED
      BY <2>2, SeqFacts
  <2> QED
    BY <2>1, <2>3
<1>5. Len(seqs) = NumRanks
  <2> DEFINE all == {seqs[i] : i \in 1 .. NumRanks}
  <2>1. seqs = [i \in 1 .. NumRanks |-> seqs[i]]
    OBVIOUS
  <2> HIDE DEF seqs
  <2>2. seqs \in [1 .. NumRanks -> all]
    BY <2>1
  <2> HIDE DEF all
  <2> QED
    BY <2>2, RankFacts, SeqFacts
<1>6. PICK f : FlatTo(seqs, NumRanks, f) /\ FlattenSeq(seqs) = f[NumRanks]
  <2> HIDE DEF seqs
  <2> QED
    BY <1>5, RankFacts, FlatRecursion
<1>7. RecvBuf(k) = f[NumRanks]
  BY <1>6 DEF RecvBuf
<1> HIDE DEF seqs, off, hs, H, n
<1>8. /\ f[1] = hs(0)
      /\ \A q \in 0 .. n : q # n => f[q + 2] = f[q + 1] \o hs(q + 1)
  <2>1. \A i \in 1 .. n + 1 : f[i] = FlatStep(seqs, f, i)
    BY <1>1, <1>6 DEF FlatTo
  <2>2. f[1] = hs(0)
    <3>1. 1 \in 1 .. n + 1 /\ 0 \in 0 .. n /\ 0 + 1 = 1
      BY <1>1
    <3>2. seqs[1] = hs(0)
      BY <3>1, <1>4
    <3> QED
      BY <3>1, <3>2, <2>1 DEF FlatStep
  <2>3. ASSUME NEW q \in 0 .. n, q # n PROVE f[q + 2] = f[q + 1] \o hs(q + 1)
    <3>1. q + 2 \in 1 .. n + 1 /\ q + 2 # 1 /\ (q + 2) - 1 = q + 1 /\ (q + 1) + 1 = q + 2
          /\ q + 1 \in 0 .. n
      BY <1>1, <2>3
    <3>2. f[q + 2] = f[(q + 2) - 1] \o seqs[q + 2]
      BY <2>1, <3>1 DEF FlatStep
    <3>3. seqs[(q + 1) + 1] = hs(q + 1)
      BY <1>4, <3>1
    <3> QED
      BY <3>1, <3>2, <3>3
  <2> QED
    BY <2>2, <2>3
<1> DEFINE Filled(i) == /\ f[i + 1] \in Seq(H) /\ Len(f[i + 1]) = off[i] + sent[i][k]
                        /\ \A q \in 0 .. i : /\ off[q] + sent[q][k] <= off[i] + sent[i][k]
                                             /\ \A j \in 1 .. sent[q][k] :
                                                  f[i + 1][off[q] + j] = <<q, j - 1>>
           S == {i \in 0 .. n : Filled(i)}
<1>9. 0 \in S
  <2>1. f[0 + 1] = hs(0) /\ 0 \in 0 .. n /\ sent[0][k] \in Nat
    BY <1>1, <1>8
  <2>2. \A q \in 0 .. 0 : q = 0
    OBVIOUS
  <2>3. \A j \in 1 .. sent[0][k] : f[0 + 1][off[0] + j] = <<0, j - 1>>
    BY <1>3, <1>4, <2>1
  <2>4. f[0 + 1] \in Seq(H) /\ Len(f[0 + 1]) = off[0] + sent[0][k]
        /\ off[0] + sent[0][k] <= off[0] + sent[0][k]
    BY <1>3, <1>4, <2>1
  <2> QED
    BY <2>1, <2>2, <2>3, <2>4
<1>10. ASSUME NEW i \in 0 .. n, i # n, Filled(i) PROVE Filled(i + 1)
  <2>1. i + 1 \in 0 .. n /\ (i + 1) + 1 = i + 2
    BY <1>1, <1>10
  <2>2. /\ f[i + 2] \in Seq(H) /\ Len(f[i + 2]) = Len(f[i + 1]) + Len(hs(i + 1))
        /\ \A j \in 1 .. Len(f[i + 1]) : f[i + 2][j] = f[i + 1][j]
        /\ \A j \in 1 .. Len(hs(i + 1)) : f[i + 2][Len(f[i + 1]) + j] = hs(i + 1)[j]
    <3>1. f[i + 1] \in Seq(H) /\ hs(i + 1) \in Seq(H) /\ f[i + 2] = f[i + 1] \o hs(i + 1)
      BY <1>4, <1>8, <1>10, <2>1
    <3> DEFINE s == f[i + 1]
               t == hs(i + 1)
    <3> HIDE DEF s, t
    <3>2. /\ s \o t \in Seq(H) /\ Len(s \o t) = Len(s) + Len(t)
          /\ \A j \in 1 .. Len(s) : (s \o t)[j] = s[j]
          /\ \A j \in 1 .. Len(t) : (s \o t)[Len(s) + j] = t[j]
      <4>1. s \in Seq(H) /\ t \in Seq(H)
        BY <3>1 DEF s, t
      <4> QED
        BY <4>1, ConcatFacts
    <3>3. f[i + 2] = s \o t
      BY <3>1 DEF s, t
    <3> QED
      BY <3>2, <3>3 DEF s, t
  <2>3. off[i + 1] = off[i] + sent[i][k] /\ Len(hs(i + 1)) = sent[i + 1][k]
    BY <1>3, <1>4, <1>10, <2>1
  <2>4. Len(f[i + 1]) = off[i + 1] /\ off[i + 1] \in Nat /\ sent[i + 1][k] \in Nat
    BY <1>1, <1>3, <1>10, <2>1, <2>3
  <2>5. Len(f[i + 2]) = off[i + 1] + sent[i + 1][k]
    BY <2>2, <2>3, <2>4
  <2>6. ASSUME NEW q \in 0 .. i + 1
        PROVE  /\ off[q] + sent[q][k] <= off[i + 1] + sent[i + 1][k]
               /\ \A j \in 1 .. sent[q][k] : f[i + 2][off[q] + j] = <<q, j - 1>>
    <3>1. CASE q = i + 1
      <4>1. \A j \in 1 .. sent[i + 1][k] : hs(i + 1)[j] = <<i + 1, j - 1>>
        BY <1>4, <2>1
      <4>2. \A j \in 1 .. sent[i + 1][k] : f[i + 2][off[i + 1] + j] = hs(i + 1)[j]
        BY <2>2, <2>3, <2>4
      <4>3. off[i + 1] + sent[i + 1][k] <= off[i + 1] + sent[i + 1][k]
        BY <2>4
      <4> QED
        BY <3>1, <4>1, <4>2, <4>3
    <3>2. CASE q # i + 1
      <4>1. q \in 0 .. i /\ q \in 0 .. n
        <5>1. i \in Nat /\ i <= n /\ q \in Nat /\ q <= i + 1
          BY <1>1
        <5> QED
          BY <5>1, <3>2, <1>1
      <4>2. off[q] \in Nat /\ sent[q][k] \in Nat /\ off[q] + sent[q][k] <= off[i + 1]
        <5>1. off[q] \in Nat /\ sent[q][k] \in Nat
          BY <4>1, <1>1, <1>3
        <5>2. off[q] + sent[q][k] <= off[i] + sent[i][k]
          BY <4>1, <1>10
        <5> QED
          BY <5>1, <5>2, <2>3
      <4>3. ASSUME NEW j \in 1 .. sent[q][k] PROVE f[i + 2][off[q] + j] = <<q, j - 1>>
        <5>1. off[q] + j \in 1 .. Len(f[i + 1])
          <6> SUFFICES ASSUME NEW x \in Nat, x = off[q], NEW y \in Nat, y = sent[q][k],
                              NEW z \in Nat, z = off[i + 1]
                       PROVE  off[q] + j \in 1 .. Len(f[i + 1])
            BY <4>2, <2>4
          <6>1. x + y <= z /\ Len(f[i + 1]) = z /\ j \in 1 .. y
            BY <4>2, <2>4
          <6>2. x + j \in 1 .. z
            BY ONLY <6>1, x \in Nat, y \in Nat, z \in Nat
          <6> QED
            BY <6>1, <6>2
        <5>2. f[i + 1][off[q] + j] = <<q, j - 1>>
          BY <4>1, <1>10
        <5> QED
          BY <5>1, <5>2, <2>2
      <4>4. off[q] + sent[q][k] <= off[i + 1] + sent[i + 1][k]
        BY <4>2, <2>4
      <4> QED
        BY <4>3, <4>4
    <3> QED
      BY <3>1, <3>2
  <2> QED
    BY <2>1, <2>2, <2>5, <2>6
<1> HIDE DEF Filled
<1>11. \A i \in 0 .. n : i \in S
  <2>1. \A i \in 0 .. n : i # n /\ i \in S => i + 1 \in S
    BY <1>1, <1>10
  <2> HIDE DEF S
  <2> QED
    BY <1>1, <1>9, <2>1, ChannelInduction
<1>12. Filled(n)
  BY <1>1, <1>11
<1>13. f[n + 1] = RecvBuf(k)
  BY <1>1, <1>7
<1> QED
  BY <1>1, <1>12, <1>13 DEF Filled, off

\* What the calls of unr_mem_reg_sync keep: no rank leaves a call before all
\* have entered it, and what a rank took along is what the others sent.
SyncInv ==
    /\ TypeOK
    /\ \A r, q \in Ranks : Done(r) <= Len(sent[q])
    /\ \A r \in Ranks : inSync[r] => sent[r] # <<>>
    /\ \A r \in Ranks : halted[r] => ~inSync[r]
    /\ HandlesInOrder

\* The bounds of the runs are natural numbers.
LEMMA Bounds == MaxMem \in Nat /\ MaxStart \in Nat /\ MaxStart >= 1
BY PlanAssumption

LEMMA SyncInit == Init => SyncInv
<1> SUFFICES ASSUME Init PROVE SyncInv
  OBVIOUS
<1> USE DEF Init
<1>1. TypeOK
  BY Bounds DEF TypeOK
<1>2. \A r \in Ranks : Done(r) = 0
  BY DEF Done
<1>3. HandlesInOrder
  <2> SUFFICES ASSUME NEW r \in Ranks, NEW q \in Ranks
               PROVE  /\ rmtMem[r][q] = [j \in 1 .. Len(rmtMem[r][q]) |-> <<q, j - 1>>]
                      /\ Len(rmtMem[r][q]) = 0
    BY <1>2 DEF HandlesInOrder
  <2>1. rmtMem[r][q] = <<>> /\ Len(<<>>) = 0
    OBVIOUS
  <2>2. <<>> = [j \in 1 .. 0 |-> <<q, j - 1>>]
    OBVIOUS
  <2> QED
    BY <2>1, <2>2
<1> QED
  BY <1>1, <1>2, <1>3 DEF SyncInv

\* Steps that leave the calls of unr_mem_reg_sync alone
LEMMA SyncKept ==
    ASSUME SyncInv, TypeOK', sent' = sent, inSync' = inSync, rmtMem' = rmtMem,
           \A r \in Ranks : halted'[r] => halted[r] \/ ~inSync[r]
    PROVE  SyncInv'
<1>1. \A r \in Ranks : Done(r)' = Done(r)
  BY DEF Done
<1>2. HandlesInOrder'
  BY <1>1 DEF SyncInv, HandlesInOrder
<1> QED
  BY <1>1, <1>2 DEF SyncInv

LEMMA SyncEnterInv ==
    ASSUME SyncInv, NEW r \in Ranks, SyncEnter(r)
    PROVE  SyncInv'
<1>1. /\ sent' = [sent EXCEPT ![r] = Append(@, memLen[r])]
      /\ inSync' = [inSync EXCEPT ![r] = TRUE]
      /\ memLen' = memLen /\ rmtMem' = rmtMem /\ halted' = halted
      /\ status' = status /\ uri' = uri /\ starts' = starts
      /\ ~inSync[r] /\ ~halted[r]
  BY DEF SyncEnter, planVars, Running
<1>2. sent \in [Ranks -> Seq(0 .. MaxMem)] /\ memLen[r] \in 0 .. MaxMem
  BY DEF SyncInv, TypeOK
<1>3. /\ sent'[r] = Append(sent[r], memLen[r]) /\ sent'[r] \in Seq(0 .. MaxMem)
      /\ \A q \in Ranks : q # r => sent'[q] = sent[q]
  BY <1>1, <1>2
<1>4. Len(sent'[r]) = Len(sent[r]) + 1 /\ Len(sent[r]) \in Nat
      /\ \A k \in 1 .. Len(sent[r]) : sent'[r][k] = sent[r][k]
  BY <1>2, <1>3
<1>5. TypeOK'
  BY <1>1, <1>2, <1>3 DEF SyncInv, TypeOK
<1>6. \A q \in Ranks : Done(q)' = Done(q)
  <2>1. Done(r) = Len(sent[r]) /\ Done(r)' = Len(sent'[r]) - 1
    BY <1>1 DEF Done, SyncInv, TypeOK
  <2>2. \A q \in Ranks : q # r => Done(q)' = Done(q)
    BY <1>1, <1>3 DEF Done, SyncInv, TypeOK
  <2> QED
    BY <2>1, <2>2, <1>4
<1>7. \A q \in Ranks : Len(sent[q]) \in Nat /\ Len(sent[q]) <= Len(sent'[q])
                       /\ \A k \in 1 .. Len(sent[q]) : sent'[q][k] = sent[q][k]
  BY <1>2, <1>3, <1>4
<1>8. \A q \in Ranks : Done(q) \in Nat
  BY <1>2 DEF Done, SyncInv
<1>9. \A p, q \in Ranks : Done(p) <= Len(sent[q]) /\ (Done(p) # 0 => sent'[q][Done(p)] = sent[q][Done(p)])
  <2> SUFFICES ASSUME NEW p \in Ranks, NEW q \in Ranks
               PROVE  Done(p) <= Len(sent[q]) /\ (Done(p) # 0 => sent'[q][Done(p)] = sent[q][Done(p)])
    OBVIOUS
  <2>1. Done(p) <= Len(sent[q])
    BY DEF SyncInv
  <2>2. Done(p) # 0 => Done(p) \in 1 .. Len(sent[q])
    BY <2>1, <1>7, <1>8
  <2> QED
    BY <2>1, <2>2, <1>7
<1>10. \A p, q \in Ranks : Done(p)' <= Len(sent'[q])
  <2> SUFFICES ASSUME NEW p \in Ranks, NEW q \in Ranks PROVE Done(p)' <= Len(sent'[q])
    OBVIOUS
  <2>1. Done(p)' = Done(p) /\ Done(p) <= Len(sent[q]) /\ Len(sent[q]) <= Len(sent'[q])
        /\ Done(p) \in Nat /\ Len(sent[q]) \in Nat
    BY <1>6, <1>7, <1>8, <1>9
  <2>2. Len(sent'[q]) \in Nat
    BY <1>5 DEF TypeOK
  <2> QED
    BY <2>1, <2>2
<1>11. HandlesInOrder'
  <2> SUFFICES ASSUME NEW p \in Ranks, NEW q \in Ranks
               PROVE  /\ rmtMem'[p][q] = [j \in 1 .. Len(rmtMem'[p][q]) |-> <<q, j - 1>>]
                      /\ Len(rmtMem'[p][q]) = IF Done(p)' = 0 THEN 0 ELSE sent'[q][Done(p)']
    BY DEF HandlesInOrder
  <2>1. /\ rmtMem[p][q] = [j \in 1 .. Len(rmtMem[p][q]) |-> <<q, j - 1>>]
        /\ Len(rmtMem[p][q]) = IF Done(p) = 0 THEN 0 ELSE sent[q][Done(p)]
    BY DEF SyncInv, HandlesInOrder
  <2>2. rmtMem'[p][q] = rmtMem[p][q] /\ Done(p)' = Done(p)
    BY <1>1, <1>6
  <2>3. (IF Done(p)' = 0 THEN 0 ELSE sent'[q][Done(p)'])
          = IF Done(p) = 0 THEN 0 ELSE sent[q][Done(p)]
    BY <1>9, <2>2
  <2> QED
    BY <2>1, <2>2, <2>3
<1>12. \A q \in Ranks : /\ inSync'[q] => sent'[q] # <<>>
                        /\ halted'[q] => ~inSync'[q]
  <2> SUFFICES ASSUME NEW q \in Ranks
               PROVE  (inSync'[q] => sent'[q] # <<>>) /\ (halted'[q] => ~inSync'[q])
    OBVIOUS
  <2>1. CASE q = r
    BY <2>1, <1>1, <1>2, <1>3
  <2>2. CASE q # r
    BY <2>2, <1>1, <1>3 DEF SyncInv, TypeOK
  <2> QED
    BY <2>1, <2>2
<1> QED
  BY <1>5, <1>10, <1>11, <1>12 DEF SyncInv

LEMMA SyncExitInv ==
    ASSUME SyncInv, NEW r \in Ranks, SyncExit(r)
    PROVE  SyncInv'
<1> DEFINE k == Len(sent[r])
           hs(q) == [j \in 1 .. sent[q][k] |-> <<q, j - 1>>]
<1>1. /\ rmtMem' = [rmtMem EXCEPT ![r] =
                      [q \in Ranks |-> [j \in 1 .. sent[q][k] |-> RecvBuf(k)[Displs(k)[q] + j]]]]
      /\ inSync' = [inSync EXCEPT ![r] = FALSE] /\ inSync[r]
      /\ \A q \in Ranks : Len(sent[q]) >= k
      /\ memLen' = memLen /\ sent' = sent /\ halted' = halted
      /\ status' = status /\ uri' = uri /\ starts' = starts
  BY DEF SyncExit, planVars
<1>2. sent \in [Ranks -> Seq(0 .. MaxMem)]
  BY DEF SyncInv, TypeOK
<1>3. k \in Nat /\ k # 0
  BY <1>1, <1>2 DEF SyncInv
<1> HIDE DEF k
<1>4. \A q \in Ranks : sent[q][k] \in 0 .. MaxMem
  <2> SUFFICES ASSUME NEW q \in Ranks PROVE sent[q][k] \in 0 .. MaxMem
    OBVIOUS
  <2>1. k \in 1 .. Len(sent[q]) /\ sent[q] \in Seq(0 .. MaxMem)
    BY <1>1, <1>2, <1>3
  <2> QED
    BY ONLY <2>1, ElementFacts
<1>5. \A q \in Ranks : \A j \in 1 .. sent[q][k] : RecvBuf(k)[Displs(k)[q] + j] = <<q, j - 1>>
  <2>1. \A q \in Ranks : sent[q][k] \in Nat
    BY <1>4, Bounds
  <2> QED
    BY <2>1, RecvBufAt
<1>6. /\ \A q \in Ranks : rmtMem'[r][q] = hs(q)
      /\ \A p \in Ranks : p # r => rmtMem'[p] = rmtMem[p]
  BY <1>1, <1>5 DEF SyncInv, TypeOK
<1>7. \A q \in Ranks : /\ hs(q) \in Seq(Ranks \X (0 .. MaxMem - 1))
                       /\ Len(hs(q)) = sent[q][k]
  <2> SUFFICES ASSUME NEW q \in Ranks
               PROVE  /\ hs(q) \in Seq(Ranks \X (0 .. MaxMem - 1))
                      /\ Len(hs(q)) = sent[q][k]
    OBVIOUS
  <2> DEFINE H == Ranks \X (0 .. MaxMem - 1)
  <2>1. sent[q][k] \in Nat /\ sent[q][k] <= MaxMem
    BY <1>4, Bounds
  <2>2. hs(q) \in [1 .. sent[q][k] -> H]
    BY <2>1, Bounds
  <2> HIDE DEF hs, H
  <2>3. hs(q) \in Seq(H) /\ Len(hs(q)) = sent[q][k]
    BY <2>1, <2>2, SeqFacts
  <2> QED
    BY <2>3 DEF H
<1>8. TypeOK'
  <2>1. rmtMem' \in [Ranks -> [Ranks -> Seq(Ranks \X (0 .. MaxMem - 1))]]
    <3>1. rmtMem' = [p \in Ranks |-> rmtMem'[p]]
      BY <1>1 DEF SyncInv, TypeOK
    <3>2. rmtMem'[r] = [q \in Ranks |-> rmtMem'[r][q]]
      BY <1>1 DEF SyncInv, TypeOK
    <3>3. rmtMem'[r] \in [Ranks -> Seq(Ranks \X (0 .. MaxMem - 1))]
      <4> HIDE DEF hs
      <4> QED
        BY <3>2, <1>6, <1>7
    <3>4. \A p \in Ranks : rmtMem'[p] \in [Ranks -> Seq(Ranks \X (0 .. MaxMem - 1))]
      BY <3>3, <1>6 DEF SyncInv, TypeOK
    <3> QED
      BY <3>1, <3>4
  <2> QED
    BY <2>1, <1>1 DEF SyncInv, TypeOK
<1>9. Done(r)' = k /\ \A p \in Ranks : p # r => Done(p)' = Done(p)
  BY <1>1 DEF Done, SyncInv, TypeOK, k
<1>10. \A p, q \in Ranks : Done(p)' <= Len(sent'[q])
  <2> SUFFICES ASSUME NEW p \in Ranks, NEW q \in Ranks PROVE Done(p)' <= Len(sent'[q])
    OBVIOUS
  <2>1. CASE p = r
    BY <2>1, <1>1, <1>2, <1>3, <1>9
  <2>2. CASE p # r
    BY <2>2, <1>1, <1>9 DEF SyncInv
  <2> QED
    BY <2>1, <2>2
<1>11. HandlesInOrder'
  <2> SUFFICES ASSUME NEW p \in Ranks, NEW q \in Ranks
               PROVE  /\ rmtMem'[p][q] = [j \in 1 .. Len(rmtMem'[p][q]) |-> <<q, j - 1>>]
                      /\ Len(rmtMem'[p][q]) = IF Done(p)' = 0 THEN 0 ELSE sent'[q][Done(p)']
    BY DEF HandlesInOrder
  <2>1. CASE p = r
    <3>1. rmtMem'[p][q] = hs(q) /\ Len(rmtMem'[p][q]) = sent[q][k]
      BY <2>1, <1>6, <1>7
    <3>2. Len(rmtMem'[p][q]) = sent'[q][Done(p)'] /\ Done(p)' # 0
      BY <2>1, <3>1, <1>1, <1>3, <1>9
    <3> QED
      BY <3>1, <3>2
  <2>2. CASE p # r
    BY <2>2, <1>1, <1>6, <1>9 DEF SyncInv, HandlesInOrder
  <2> QED
    BY <2>1, <2>2
<1>12. \A q \in Ranks : /\ inSync'[q] => sent'[q] # <<>>
                        /\ halted'[q] => ~inSync'[q]
  BY <1>1 DEF SyncInv, TypeOK
<1> QED
  BY <1>8, <1>10, <1>11, <1>12 DEF SyncInv

\* A registration and the calls on plans leave unr_mem_reg_sync alone.
LEMMA MemRegInv ==
    ASSUME SyncInv, NEW r \in Ranks, MemReg(r)
    PROVE  SyncInv'
<1>1. /\ memLen' = [memLen EXCEPT ![r] = @ + 1] /\ memLen[r] < MaxMem
      /\ sent' = sent /\ inSync' = inSync /\ rmtMem' = rmtMem /\ halted' = halted
      /\ status' = status /\ uri' = uri /\ starts' = starts
  BY DEF MemReg, planVars
<1>2. memLen' \in [Ranks -> 0 .. MaxMem]
  <2>1. memLen[r] + 1 \in 0 .. MaxMem
    BY <1>1, Bounds DEF SyncInv, TypeOK
  <2> QED
    BY <2>1, <1>1 DEF SyncInv, TypeOK
<1>3. TypeOK'
  BY <1>1, <1>2 DEF SyncInv, TypeOK
<1> QED
  BY <1>1, <1>3, SyncKept

LEMMA RdmaStartInv ==
    ASSUME SyncInv, NEW p \in Plans, NEW a \in Args[p], RdmaStart(p, a)
    PROVE  SyncInv'
<1>1. Owner[p] \in Ranks
  BY PlanAssumption
<1>2. /\ sent' = sent /\ inSync' = inSync /\ rmtMem' = rmtMem /\ memLen' = memLen
      /\ ~inSync[Owner[p]]
      /\ \/ /\ uri' = [uri EXCEPT ![p] = Build(Owner[p], a)]
            /\ starts' = [starts EXCEPT ![p] = 1]
            /\ status' = [status EXCEPT ![p] = "gone"]
            /\ halted' = halted
         \/ /\ halted' = [halted EXCEPT ![Owner[p]] = TRUE]
            /\ uri' = uri /\ starts' = starts /\ status' = status
  BY DEF RdmaStart, memVars, Running
<1>3. TypeOK'
  <2> DEFINE Stat == {"none", "deferred", "ready", "gone"}
  <2>0. 1 \in 0 .. MaxStart /\ "gone" \in Stat
    BY Bounds
  <2>1. /\ status' \in [Plans -> Stat] /\ DOMAIN uri' = Plans
        /\ starts' \in [Plans -> 0 .. MaxStart]
    <3>1. status \in [Plans -> Stat] /\ starts \in [Plans -> 0 .. MaxStart] /\ DOMAIN uri = Plans
      BY DEF SyncInv, TypeOK
    <3> HIDE DEF Stat
    <3> QED
      BY <3>1, <2>0, <1>2
  <2>2. halted' \in [Ranks -> BOOLEAN]
    BY <1>1, <1>2 DEF SyncInv, TypeOK
  <2> QED
    BY <2>1, <2>2, <1>2 DEF SyncInv, TypeOK
<1>4. \A r \in Ranks : halted'[r] => halted[r] \/ ~inSync[r]
  BY <1>1, <1>2 DEF SyncInv, TypeOK
<1> QED
  BY <1>2, <1>3, <1>4, SyncKept

LEMMA RdmaPlanInv ==
    ASSUME SyncInv, NEW p \in Plans, NEW a \in Args[p], RdmaPlan(p, a)
    PROVE  SyncInv'
<1>1. /\ sent' = sent /\ inSync' = inSync /\ rmtMem' = rmtMem /\ memLen' = memLen
      /\ starts' = starts /\ halted' = halted
      /\ \/ /\ uri' = [uri EXCEPT ![p] = Build(Owner[p], a)]
            /\ status' = [status EXCEPT ![p] = "ready"]
         \/ /\ status' = [status EXCEPT ![p] = "deferred"]
            /\ uri' = uri
  BY DEF RdmaPlan, memVars
<1>2. TypeOK'
  <2>1. status' \in [Plans -> {"none", "deferred", "ready", "gone"}] /\ DOMAIN uri' = Plans
    BY <1>1 DEF SyncInv, TypeOK
  <2> QED
    BY <2>1, <1>1 DEF SyncInv, TypeOK
<1> QED
  BY <1>1, <1>2, SyncKept

LEMMA PlanStartInv ==
    ASSUME SyncInv, NEW p \in Plans, PlanStart(p)
    PROVE  SyncInv'
<1>1. Owner[p] \in Ranks
  BY PlanAssumption
<1>2. /\ sent' = sent /\ inSync' = inSync /\ rmtMem' = rmtMem /\ memLen' = memLen
      /\ ~inSync[Owner[p]] /\ starts[p] < MaxStart
      /\ \/ /\ uri' = [uri EXCEPT ![p] = Build(Owner[p], KeptArgs(p))]
            /\ starts' = [starts EXCEPT ![p] = @ + 1]
            /\ status' = [status EXCEPT ![p] = "ready"]
            /\ halted' = halted
         \/ /\ halted' = [halted EXCEPT ![Owner[p]] = TRUE]
            /\ uri' = uri /\ starts' = starts /\ status' = status
         \/ /\ starts' = [starts EXCEPT ![p] = @ + 1]
            /\ uri' = uri /\ status' = status /\ halted' = halted
  BY DEF PlanStart, memVars, Running
<1>3. TypeOK'
  <2>1. starts[p] + 1 \in 0 .. MaxStart
    BY <1>2, Bounds DEF SyncInv, TypeOK
  <2>2. starts' \in [Plans -> 0 .. MaxStart]
    BY <2>1, <1>2 DEF SyncInv, TypeOK
  <2> QED
    BY <2>2, <1>1, <1>2 DEF SyncInv, TypeOK
<1>4. \A r \in Ranks : halted'[r] => halted[r] \/ ~inSync[r]
  BY <1>1, <1>2 DEF SyncInv, TypeOK
<1> QED
  BY <1>2, <1>3, <1>4, SyncKept

LEMMA PlanRestInv ==
    ASSUME SyncInv, NEW p \in Plans,
           PlanDestroy(p) \/ \E a \in Args[p] : Overwrite(p, a)
    PROVE  SyncInv'
<1>1. /\ sent' = sent /\ inSync' = inSync /\ rmtMem' = rmtMem /\ memLen' = memLen
      /\ starts' = starts /\ halted' = halted /\ uri' = uri
      /\ status' = status \/ status' = [status EXCEPT ![p] = "gone"]
  BY DEF PlanDestroy, Overwrite, memVars
<1>2. TypeOK'
  BY <1>1 DEF SyncInv, TypeOK
<1> QED
  BY <1>1, <1>2, SyncKept

LEMMA SyncNext == SyncInv /\ [Next]_vars => SyncInv'
<1> SUFFICES ASSUME SyncInv, [Next]_vars PROVE SyncInv'
  OBVIOUS
<1>1. CASE UNCHANGED vars
  <2>1. /\ sent' = sent /\ inSync' = inSync /\ rmtMem' = rmtMem /\ memLen' = memLen
        /\ starts' = starts /\ halted' = halted /\ uri' = uri /\ status' = status
    BY <1>1 DEF vars, memVars, planVars
  <2>2. TypeOK'
    BY <2>1 DEF SyncInv, TypeOK
  <2> QED
    BY <2>1, <2>2, SyncKept
<1>2. ASSUME NEW r \in Ranks, MemReg(r) \/ SyncEnter(r) \/ SyncExit(r) PROVE SyncInv'
  BY <1>2, MemRegInv, SyncEnterInv, SyncExitInv
<1>3. ASSUME NEW p \in Plans, NEW a \in Args[p], RdmaStart(p, a) \/ RdmaPlan(p, a) \/ Overwrite(p, a)
      PROVE  SyncInv'
  BY <1>3, RdmaStartInv, RdmaPlanInv, PlanRestInv
<1>4. ASSUME NEW p \in Plans, PlanStart(p) \/ PlanDestroy(p) PROVE SyncInv'
  BY <1>4, PlanStartInv, PlanRestInv
<1> QED
  BY <1>1, <1>2, <1>3, <1>4 DEF Next

\* The state of the memories and plans keeps its types.
THEOREM PlanTypes == Spec => []TypeOK
<1>1. SyncInv => TypeOK
  BY DEF SyncInv
<1> QED
  BY <1>1, SyncInit, SyncNext, PTL DEF Spec

\* For any number of ranks and memories and however the calls of
\* unr_mem_reg_sync overlap, a rank's list of another rank's handles is the
\* beginning of that rank's own list, as long as in the same call.
THEOREM HandlesAreInOrder == Spec => []HandlesInOrder
<1>1. SyncInv => HandlesInOrder
  BY DEF SyncInv
<1> QED
  BY <1>1, SyncInit, SyncNext, PTL DEF Spec

-----------------------------------------------------------------------------
(* Exits *)

\* Every call has its arguments, and a deferred plan keeps them.
KeepInv ==
    /\ DOMAIN given = Plans /\ DOMAIN para = Plans
    /\ \A p \in Plans :
         /\ status[p] = "none" => starts[p] = 0
         /\ status[p] # "none" => given[p] \in Args[p]
         /\ status[p] = "deferred" => para[p] = given[p] /\ starts[p] = 0

LEMMA KeepInit == Init => KeepInv
BY DEF Init, KeepInv

LEMMA KeepNext == SyncInv /\ KeepInv /\ [Next]_vars => KeepInv'
<1> SUFFICES ASSUME SyncInv, KeepInv, [Next]_vars PROVE KeepInv'
  OBVIOUS
<1> DEFINE Kept(q) == /\ status[q] = "none" => starts[q] = 0
                      /\ status[q] # "none" => given[q] \in Args[q]
                      /\ status[q] = "deferred" => para[q] = given[q] /\ starts[q] = 0
<1>1. /\ DOMAIN given = Plans /\ DOMAIN para = Plans /\ DOMAIN status = Plans
      /\ DOMAIN starts = Plans /\ \A q \in Plans : Kept(q)
  BY DEF KeepInv, SyncInv, TypeOK
<1>2. SUFFICES DOMAIN given' = Plans /\ DOMAIN para' = Plans /\ \A q \in Plans : Kept(q)'
  BY DEF KeepInv
<1>3. CASE /\ status' = status /\ starts' = starts /\ given' = given /\ para' = para
  BY <1>1, <1>3
<1>4. ASSUME NEW r \in Ranks, MemReg(r) \/ SyncEnter(r) \/ SyncExit(r)
      PROVE  DOMAIN given' = Plans /\ DOMAIN para' = Plans /\ \A q \in Plans : Kept(q)'
  <2>1. status' = status /\ starts' = starts /\ given' = given /\ para' = para
    BY <1>4 DEF MemReg, SyncEnter, SyncExit, planVars
  <2> QED
    BY <2>1, <1>3
<1>5. ASSUME NEW p \in Plans, NEW a \in Args[p], RdmaStart(p, a) \/ RdmaPlan(p, a) \/ Overwrite(p, a)
      PROVE  DOMAIN given' = Plans /\ DOMAIN para' = Plans /\ \A q \in Plans : Kept(q)'
  <2>1. CASE RdmaStart(p, a)
    <3>1. /\ given' = [given EXCEPT ![p] = a] /\ para' = para /\ status[p] = "none"
          /\ \/ /\ starts' = [starts EXCEPT ![p] = 1]
                /\ status' = [status EXCEPT ![p] = "gone"]
             \/ starts' = starts /\ status' = status
      BY <2>1 DEF RdmaStart, memVars
    <3> QED
      BY <3>1, <1>1
  <2>2. CASE RdmaPlan(p, a)
    <3>1. /\ given' = [given EXCEPT ![p] = a] /\ starts' = starts /\ status[p] = "none"
          /\ \/ /\ status' = [status EXCEPT ![p] = "ready"] /\ para' = para
             \/ /\ status' = [status EXCEPT ![p] = "deferred"]
                /\ para' = [para EXCEPT ![p] = a]
      BY <2>2 DEF RdmaPlan, memVars
    <3> QED
      BY <3>1, <1>1
  <2>3. CASE Overwrite(p, a)
    <3>1. status' = status /\ starts' = starts /\ given' = given /\ para' = para
      BY <2>3 DEF Overwrite
    <3> QED
      BY <3>1, <1>3
  <2> QED
    BY <1>5, <2>1, <2>2, <2>3
<1>6. ASSUME NEW p \in Plans, PlanStart(p) \/ PlanDestroy(p)
      PROVE  DOMAIN given' = Plans /\ DOMAIN para' = Plans /\ \A q \in Plans : Kept(q)'
  <2>1. CASE PlanStart(p)
    <3>1. /\ given' = given /\ status[p] \in {"deferred", "ready"}
          /\ \/ /\ starts' = [starts EXCEPT ![p] = @ + 1]
                /\ status' = [status EXCEPT ![p] = "ready"]
                /\ para' = [para EXCEPT ![p] = <<>>]
             \/ starts' = starts /\ status' = status /\ para' = para
             \/ /\ starts' = [starts EXCEPT ![p] = @ + 1] /\ status[p] # "deferred"
                /\ status' = status /\ para' = para
      BY <2>1 DEF PlanStart
    <3> QED
      BY <3>1, <1>1
  <2>2. CASE PlanDestroy(p)
    <3>1. /\ given' = given /\ para' = para /\ starts' = starts
          /\ status[p] \in {"deferred", "ready"} /\ status' = [status EXCEPT ![p] = "gone"]
      BY <2>2 DEF PlanDestroy
    <3> QED
      BY <3>1, <1>1
  <2> QED
    BY <1>6, <2>1, <2>2
<1>7. CASE UNCHANGED vars
  BY <1>3, <1>7 DEF vars, planVars
<1> HIDE DEF Kept
<1> QED
  BY <1>4, <1>5, <1>6, <1>7 DEF Next

\* A block of a memory that r has not heard of
Unheard(r, b) == Done(r) = 0 \/ b.mem >= sent[b.rank][Done(r)]

\* A plan that makes its owner exit
Fails(r, p) ==
    /\ Owner[p] = r /\ status[p] \in {"none", "deferred"}
    /\ given[p] \in Args[p]
    /\ \E i \in DOMAIN given[p].sends : Unheard(r, given[p].sends[i].rmt)

ExitInv == \A r \in Ranks : halted[r] => \E p \in Plans : Fails(r, p)

\* A rank knows the memories that were registered when their owners made its
\* last completed call.
LEMMA UnknownUnheard ==
    ASSUME SyncInv, NEW r \in Ranks, NEW b, Block(b), ~Known(r, b)
    PROVE  Unheard(r, b)
<1>1. b.mem \in Nat /\ b.rank \in Ranks
  BY DEF Block
<1>2. Len(rmtMem[r][b.rank]) = IF Done(r) = 0 THEN 0 ELSE sent[b.rank][Done(r)]
  BY <1>1 DEF SyncInv, HandlesInOrder
<1>3. rmtMem[r][b.rank] \in Seq(Ranks \X (0 .. MaxMem - 1))
  BY <1>1 DEF SyncInv, TypeOK
<1>4. Len(rmtMem[r][b.rank]) \in Nat /\ ~(b.mem < Len(rmtMem[r][b.rank]))
  BY <1>3 DEF Known
<1> QED
  BY <1>1, <1>2, <1>4 DEF Unheard

\* The sends of a call are between blocks.
LEMMA SendFacts ==
    ASSUME NEW p \in Plans, NEW a \in Args[p], NEW i \in DOMAIN a.sends
    PROVE  /\ Owner[p] \in Ranks /\ Arguments(a)
           /\ Block(a.sends[i].rmt) /\ Block(a.sends[i].loc)
BY PlanAssumption DEF Arguments

\* What a rank that has exited leaves behind does not change.
LEMMA HaltedStays ==
    ASSUME SyncInv, KeepInv, [Next]_vars, NEW r \in Ranks, halted[r]
    PROVE  /\ Done(r)' = Done(r)
           /\ \A q \in Ranks : Done(r) # 0 => sent'[q][Done(r)] = sent[q][Done(r)]
           /\ \A p \in Plans : Owner[p] = r => status'[p] = status[p] /\ given'[p] = given[p]
<1>1. ~inSync[r] /\ ~Running(r)
  BY DEF SyncInv, Running
<1>2. Done(r) \in Nat /\ \A q \in Ranks : Done(r) <= Len(sent[q]) /\ sent[q] \in Seq(0 .. MaxMem)
  BY <1>1 DEF Done, SyncInv, TypeOK
<1>3. CASE UNCHANGED vars
  BY <1>3 DEF vars, memVars, planVars, Done
<1>4. ASSUME NEW s \in Ranks, MemReg(s) \/ SyncExit(s)
      PROVE  sent' = sent /\ status' = status /\ given' = given /\ inSync'[r] = inSync[r]
  BY <1>1, <1>4 DEF MemReg, SyncExit, planVars, SyncInv, TypeOK
<1>5. ASSUME NEW s \in Ranks, SyncEnter(s)
      PROVE  /\ status' = status /\ given' = given /\ inSync'[r] = inSync[r] /\ sent'[r] = sent[r]
             /\ \A q \in Ranks : Done(r) # 0 => sent'[q][Done(r)] = sent[q][Done(r)]
  <2>1. /\ s # r /\ sent' = [sent EXCEPT ![s] = Append(@, memLen[s])]
        /\ inSync' = [inSync EXCEPT ![s] = TRUE] /\ status' = status /\ given' = given
    BY <1>1, <1>5 DEF SyncEnter, planVars
  <2>2. sent'[r] = sent[r] /\ inSync'[r] = inSync[r]
    BY <2>1 DEF SyncInv, TypeOK
  <2>3. ASSUME NEW q \in Ranks, Done(r) # 0 PROVE sent'[q][Done(r)] = sent[q][Done(r)]
    <3>1. CASE q # s
      BY <3>1, <2>1 DEF SyncInv, TypeOK
    <3>2. CASE q = s
      <4>1. sent'[q] = Append(sent[q], memLen[s])
        BY <3>2, <2>1 DEF SyncInv, TypeOK
      <4>2. Done(r) \in 1 .. Len(sent[q]) /\ sent[q] \in Seq(0 .. MaxMem)
        BY <1>2, <2>3
      <4>3. memLen[s] \in 0 .. MaxMem
        BY DEF SyncInv, TypeOK
      <4> QED
        BY <4>1, <4>2, <4>3, AppendFacts
    <3> QED
      BY <3>1, <3>2
  <2> QED
    BY <2>1, <2>2, <2>3
<1>6. ASSUME NEW p \in Plans,
             \/ \E a \in Args[p] : RdmaStart(p, a) \/ RdmaPlan(p, a) \/ Overwrite(p, a)
             \/ PlanStart(p) \/ PlanDestroy(p)
      PROVE  /\ sent' = sent /\ inSync' = inSync
             /\ \A q \in Plans : Owner[q] = r => status'[q] = status[q] /\ given'[q] = given[q]
  <2>1. /\ sent' = sent /\ inSync' = inSync /\ Owner[p] # r
        /\ \/ status' = status
           \/ \E x : status' = [status EXCEPT ![p] = x]
        /\ \/ given' = given
           \/ \E x : given' = [given EXCEPT ![p] = x]
    BY <1>1, <1>6 DEF RdmaStart, RdmaPlan, Overwrite, PlanStart, PlanDestroy, memVars
  <2>2. DOMAIN status = Plans /\ DOMAIN given = Plans
    BY DEF SyncInv, TypeOK, KeepInv
  <2> SUFFICES ASSUME NEW q \in Plans, q # p
               PROVE  status'[q] = status[q] /\ given'[q] = given[q]
    BY <2>1
  <2> QED
    BY <2>1, <2>2
<1> USE DEF Done
<1>7. ASSUME NEW s \in Ranks, MemReg(s) \/ SyncEnter(s) \/ SyncExit(s)
      PROVE  /\ Done(r)' = Done(r)
             /\ \A q \in Ranks : Done(r) # 0 => sent'[q][Done(r)] = sent[q][Done(r)]
             /\ \A p \in Plans : Owner[p] = r => status'[p] = status[p] /\ given'[p] = given[p]
  BY <1>4, <1>5, <1>7
<1>8. ASSUME NEW p \in Plans,
             \/ \E a \in Args[p] : RdmaStart(p, a) \/ RdmaPlan(p, a) \/ Overwrite(p, a)
             \/ PlanStart(p) \/ PlanDestroy(p)
      PROVE  /\ Done(r)' = Done(r)
             /\ \A q \in Ranks : Done(r) # 0 => sent'[q][Done(r)] = sent[q][Done(r)]
             /\ \A q \in Plans : Owner[q] = r => status'[q] = status[q] /\ given'[q] = given[q]
  BY <1>6, <1>8
<1> QED
  BY <1>3, <1>7, <1>8 DEF Next

LEMMA ExitInit == Init => ExitInv
BY DEF Init, ExitInv

LEMMA ExitNext == SyncInv /\ KeepInv /\ ExitInv /\ [Next]_vars => ExitInv'
<1> SUFFICES ASSUME SyncInv, KeepInv, ExitInv, [Next]_vars, NEW r \in Ranks, halted'[r]
             PROVE  \E p \in Plans : Fails(r, p)'
  BY DEF ExitInv
<1>1. CASE halted[r]
  <2>1. PICK p \in Plans : Fails(r, p)
    BY <1>1 DEF ExitInv
  <2>2. PICK i \in DOMAIN given[p].sends : Unheard(r, given[p].sends[i].rmt)
    BY <2>1 DEF Fails
  <2> DEFINE b == given[p].sends[i].rmt
  <2>3. b.rank \in Ranks
    BY <2>1, SendFacts DEF Fails, Block
  <2>4. /\ Done(r)' = Done(r) /\ given'[p] = given[p] /\ status'[p] = status[p]
        /\ Done(r) # 0 => sent'[b.rank][Done(r)] = sent[b.rank][Done(r)]
    BY <1>1, <2>1, <2>3, HaltedStays DEF Fails
  <2>5. Done(r)' = 0 \/ b.mem >= sent'[b.rank][Done(r)']
    BY <2>2, <2>4 DEF Unheard
  <2>6. \E k \in DOMAIN given'[p].sends :
          Done(r)' = 0 \/ given'[p].sends[k].rmt.mem >= sent'[given'[p].sends[k].rmt.rank][Done(r)']
    BY <2>4, <2>5
  <2>7. Owner[p] = r /\ status'[p] \in {"none", "deferred"} /\ given'[p] \in Args[p]
    BY <2>1, <2>4 DEF Fails
  <2> QED
    BY <2>6, <2>7 DEF Fails, Unheard
<1>2. CASE ~halted[r]
  <2>1. \A p \in Plans : \A a \in Args[p] :
          (\E i \in DOMAIN a.sends : ~Known(Owner[p], a.sends[i].rmt))
            => \E i \in DOMAIN a.sends : Unheard(Owner[p], a.sends[i].rmt)
    BY SendFacts, UnknownUnheard
  <2>2. PICK p \in Plans :
          /\ Owner[p] = r /\ halted' # halted
          /\ (\E a \in Args[p] : RdmaStart(p, a)) \/ PlanStart(p)
    <3>1. halted' # halted
      BY <1>2
    <3>2. PICK p \in Plans : (\E a \in Args[p] : RdmaStart(p, a)) \/ PlanStart(p)
      BY <3>1 DEF Next, MemReg, SyncEnter, SyncExit, RdmaPlan, Overwrite, PlanDestroy, vars
    <3>3. \/ halted' = halted
          \/ halted' = [halted EXCEPT ![Owner[p]] = TRUE]
      BY <3>2 DEF RdmaStart, PlanStart
    <3>4. Owner[p] = r
      BY <1>2, <3>1, <3>3 DEF SyncInv, TypeOK
    <3> QED
      BY <3>1, <3>2, <3>4
  <2>3. PICK a \in Args[p] :
          /\ \E i \in DOMAIN a.sends : ~Known(r, a.sends[i].rmt)
          /\ given'[p] = a /\ status'[p] \in {"none", "deferred"}
          /\ sent' = sent /\ inSync' = inSync
    <3>1. CASE \E a \in Args[p] : RdmaStart(p, a)
      <4>1. PICK a \in Args[p] : RdmaStart(p, a)
        BY <3>1
      <4>2. /\ ~Synced(r, a) /\ given' = [given EXCEPT ![p] = a] /\ status[p] = "none"
            /\ status' = status /\ sent' = sent /\ inSync' = inSync
        BY <2>2, <4>1 DEF RdmaStart, memVars
      <4>3. given'[p] = a
        BY <4>2 DEF KeepInv
      <4> QED
        BY <4>2, <4>3 DEF Synced
    <3>2. CASE PlanStart(p)
      <4>1. /\ status[p] = "deferred" /\ ~Buildable(r, para[p]) /\ given' = given
            /\ status' = status /\ sent' = sent /\ inSync' = inSync
        BY <2>2, <3>2 DEF PlanStart, memVars, KeptArgs
      <4>2. given[p] \in Args[p] /\ para[p] = given[p]
        BY <4>1 DEF KeepInv
      <4>3. \E i \in DOMAIN given[p].sends : ~Known(r, given[p].sends[i].rmt)
        BY <4>1, <4>2 DEF Buildable
      <4> QED
        BY <4>1, <4>2, <4>3
    <3> QED
      BY <2>2, <3>1, <3>2
  <2>4. PICK i \in DOMAIN a.sends : Unheard(r, a.sends[i].rmt)
    BY <2>1, <2>2, <2>3
  <2>5. Done(r)' = Done(r)
    BY <2>3 DEF Done
  <2>6. \E k \in DOMAIN given'[p].sends :
          Done(r)' = 0 \/ given'[p].sends[k].rmt.mem >= sent'[given'[p].sends[k].rmt.rank][Done(r)']
    BY <2>3, <2>4, <2>5 DEF Unheard
  <2> QED
    BY <2>2, <2>3, <2>6 DEF Fails, Unheard
<1> QED
  BY <1>1, <1>2

\* The three invariants hold together.
LEMMA ExitInvariant == Spec => [](SyncInv /\ KeepInv /\ ExitInv)
<1>1. Init => SyncInv /\ KeepInv /\ ExitInv
  BY SyncInit, KeepInit, ExitInit
<1>2. (SyncInv /\ KeepInv /\ ExitInv) /\ [Next]_vars => (SyncInv /\ KeepInv /\ ExitInv)'
  BY SyncNext, KeepNext, ExitNext
<1> QED
  BY <1>1, <1>2, PTL DEF Spec

\* Only a rank that uses a block of a memory registered after its owner made
\* the rank's last completed call of unr_mem_reg_sync exits, whether at the
\* call that names the block or at the start of the deferred plan.
THEOREM ExitsAreUnsynced == Spec => []ExitsUnsyncedOnly
<1>1. ExitInv => ExitsUnsyncedOnly
  BY DEF ExitInv, ExitsUnsyncedOnly, Fails, Unheard
<1> QED
  BY <1>1, ExitInvariant, PTL

-----------------------------------------------------------------------------
(* Building a plan *)

\* The write that the arguments ask for
Asked(r, a, i, c, j) ==
    LET s == a.sends[i]
        parts == Parts(r, a, i, c)
    IN  [send |-> i, dma |-> s.dma, size |-> parts[j],
         loc |-> <<r, s.loc.mem>>, rmt |-> <<s.rmt.rank, s.rmt.mem>>,
         locOff |-> LocBase(a, i) + DivOffset(parts)[j],
         rmtOff |-> RmtBase(a, i) + DivOffset(parts)[j],
         locFlag |-> LocFlag(s), rmtFlag |-> RmtFlag(s), add |-> SigAddArr(parts)[j]]

\* A handle that is known is the right one.
LEMMA KnownHandle ==
    ASSUME SyncInv, NEW r \in Ranks, NEW b, Block(b), Known(r, b)
    PROVE  rmtMem[r][b.rank][b.mem + 1] = <<b.rank, b.mem>>
<1>1. b.rank \in Ranks /\ b.mem \in Nat /\ b.mem < Len(rmtMem[r][b.rank])
  BY DEF Block, Known
<1>2. rmtMem[r][b.rank] = [j \in 1 .. Len(rmtMem[r][b.rank]) |-> <<b.rank, j - 1>>]
  BY <1>1 DEF SyncInv, HandlesInOrder
<1>3. Len(rmtMem[r][b.rank]) \in Nat
  BY <1>1 DEF SyncInv, TypeOK
<1> SUFFICES ASSUME NEW s, s = rmtMem[r][b.rank], NEW n \in Nat, n = Len(s),
                    NEW m \in Nat, m = b.mem
             PROVE  s[m + 1] = <<b.rank, m>>
  BY <1>1, <1>3
<1>4. m + 1 \in 1 .. n /\ (m + 1) - 1 = m
  BY <1>1
<1>5. s = [j \in 1 .. n |-> <<b.rank, j - 1>>]
  BY <1>2
<1> QED
  BY <1>4, <1>5

LEMMA WriteAsked ==
    ASSUME SyncInv, NEW r \in Ranks, NEW a, NEW i,
           Block(a.sends[i].rmt), Known(r, a.sends[i].rmt)
    PROVE  \A c, j : Write(r, a, i, c, j) = Asked(r, a, i, c, j)
<1>1. rmtMem[r][a.sends[i].rmt.rank][a.sends[i].rmt.mem + 1]
        = <<a.sends[i].rmt.rank, a.sends[i].rmt.mem>>
  BY KnownHandle
<1> QED
  BY <1>1 DEF Write, Asked

\* Channels of a plan are numbered apart.
LEMMA IdFacts ==
    ASSUME NEW side \in Sides
    PROVE  \A j \in Channels(side) :
             /\ Id(side, j) \in Ids
             /\ \A k \in Channels(side) : Id(side, j) = Id(side, k) => j = k
<1> DEFINE n == NumChannels["inter"]
           m == NumChannels["intra"]
<1>1. n \in Nat /\ m \in Nat
  BY SideFacts DEF Sides
<1>2. Channels(side) = 0 .. (IF side = "intra" THEN m ELSE n) - 1 /\ Ids = 0 .. n + m - 1
  BY DEF Channels, Ids, Sides
<1>3. \A j : Id(side, j) = IF side = "intra" THEN j + n ELSE j
  BY DEF Id
<1> HIDE DEF n, m
<1>4. CASE side = "intra"
  BY <1>1, <1>2, <1>3, <1>4
<1>5. CASE side # "intra"
  BY <1>1, <1>2, <1>3, <1>5
<1> QED
  BY <1>4, <1>5

\* The loop over the sends
NoSends == [next |-> [side \in Sides |-> 0], uri |-> NoWrites]
SendStep(r, a, f, i) == IF i = 0 THEN NoSends ELSE AddSend(r, a, f[i - 1], i)
SendsTo(r, a, n, f) == f = [i \in 0 .. n |-> SendStep(r, a, f, i)]

LEMMA SendsExist ==
    ASSUME NEW r, NEW a
    PROVE  \A n \in Nat : \E f : SendsTo(r, a, n, f)
<1> DEFINE S == {n \in Nat : \E f : SendsTo(r, a, n, f)}
<1>1. 0 \in S
  <2> DEFINE f == [i \in 0 .. 0 |-> NoSends]
  <2>1. \A i \in 0 .. 0 : SendStep(r, a, f, i) = NoSends
    BY DEF SendStep
  <2>2. SendsTo(r, a, 0, f)
    BY <2>1 DEF SendsTo
  <2> QED
    BY <2>2
<1>2. \A n \in Nat : n \in S => n + 1 \in S
  <2> SUFFICES ASSUME NEW n \in Nat, n \in S PROVE n + 1 \in S
    OBVIOUS
  <2> PICK f : SendsTo(r, a, n, f)
    OBVIOUS
  <2> DEFINE h == [i \in 0 .. n + 1 |-> SendStep(r, a, f, i)]
  <2>1. \A i \in 0 .. n : h[i] = f[i]
    BY DEF SendsTo
  <2>2. \A i \in 0 .. n + 1 : SendStep(r, a, h, i) = SendStep(r, a, f, i)
    <3> SUFFICES ASSUME NEW i \in 0 .. n + 1 PROVE SendStep(r, a, h, i) = SendStep(r, a, f, i)
      OBVIOUS
    <3> HIDE DEF h
    <3>1. i # 0 => h[i - 1] = f[i - 1]
      BY <2>1
    <3> QED
      BY <3>1 DEF SendStep
  <2>3. SendsTo(r, a, n + 1, h)
    BY <2>2 DEF SendsTo
  <2> QED
    BY <2>3
<1> HIDE DEF S
<1>3. \A n \in Nat : n \in S
  BY <1>1, <1>2, NatSet
<1> QED
  BY <1>3 DEF S

LEMMA BuildRecursion ==
    ASSUME NEW r, NEW a, NEW n \in Nat, Len(a.sends) = n
    PROVE  \E f : /\ Build(r, a) = f[n].uri
                  /\ f[0] = NoSends
                  /\ \A i \in 1 .. n : f[i] = AddSend(r, a, f[i - 1], i)
<1> DEFINE P(f) == f = [i \in 0 .. Len(a.sends) |->
                          IF i = 0 THEN [next |-> [side \in Sides |-> 0], uri |-> NoWrites]
                          ELSE AddSend(r, a, f[i - 1], i)]
           F == CHOOSE f : P(f)
<1>1. \A f : P(f) <=> SendsTo(r, a, n, f)
  BY DEF SendsTo, SendStep, NoSends
<1>2. \E f : P(f)
  BY <1>1, SendsExist
<1>3. Build(r, a) = F[n].uri
  BY DEF Build
<1> HIDE DEF P
<1>4. P(F)
  BY <1>2, Zenon
<1>5. F = [i \in 0 .. n |-> SendStep(r, a, F, i)]
  BY <1>1, <1>4 DEF SendsTo
<1> HIDE DEF F
<1>6. F[0] = NoSends
  BY <1>5 DEF SendStep
<1>7. \A i \in 1 .. n : F[i] = AddSend(r, a, F[i - 1], i)
  BY <1>5 DEF SendStep
<1> QED
  BY <1>3, <1>6, <1>7

\* The division of one message, of any size but zero
LEMMA PartsExact ==
    ASSUME NEW side \in Sides, NEW size \in Nat \ {0}, NEW c \in Channels(side)
    PROVE  /\ DivSize(side, size, c) \in [Channels(side) -> Nat]
           /\ Used(DivSize(side, size, c)) \subseteq Channels(side)
           /\ Exact(side, size, DivSize(side, size, c), SigAddArr(DivSize(side, size, c)))
           /\ NextChannel(side, size, c) \in Channels(side)
<1>1. DivSize(side, size, c) \in [Channels(side) -> Nat]
  BY PartsFacts
<1>2. DivisionExact(size)
  BY DivisionIsExact
<1>3. size \in 1 .. size
  OBVIOUS
<1>4. /\ Exact(side, size, DivSize(side, size, c), SigAddArr(DivSize(side, size, c)))
      /\ NextChannel(side, size, c) \in Channels(side)
  BY <1>2, <1>3 DEF DivisionExact
<1> QED
  BY <1>1, <1>4 DEF Used

\* The sends of a call are numbered from 1 and have sizes.
LEMMA ArgumentFacts ==
    ASSUME NEW r \in Ranks, NEW a, Arguments(a)
    PROVE  /\ Len(a.sends) \in Nat /\ DOMAIN a.sends = 1 .. Len(a.sends)
           /\ \A i \in DOMAIN a.sends :
                /\ SideOf(r, a, i) \in Sides /\ SizeOf(a, i) \in Nat
                /\ LocBase(a, i) \in Nat /\ RmtBase(a, i) \in Nat
                /\ Block(a.sends[i].loc) /\ Block(a.sends[i].rmt)
<1>1. Len(a.sends) \in Nat /\ DOMAIN a.sends = 1 .. Len(a.sends)
  BY DEF Arguments
<1> SUFFICES ASSUME NEW i \in DOMAIN a.sends
             PROVE  /\ SideOf(r, a, i) \in Sides /\ SizeOf(a, i) \in Nat
                    /\ LocBase(a, i) \in Nat /\ RmtBase(a, i) \in Nat
                    /\ Block(a.sends[i].loc) /\ Block(a.sends[i].rmt)
  BY <1>1
<1>2. /\ Block(a.sends[i].loc) /\ Block(a.sends[i].rmt) /\ a.part \in BOOLEAN
      /\ a.part => /\ a.sends[i].size \in Nat /\ a.sends[i].locOff \in Nat
                   /\ a.sends[i].rmtOff \in Nat
  BY DEF Arguments
<1>3. SideOf(r, a, i) \in Sides
  BY DEF SideOf, Side, Sides
<1>4. SizeOf(a, i) \in Nat /\ LocBase(a, i) \in Nat /\ RmtBase(a, i) \in Nat
  BY <1>2 DEF SizeOf, LocBase, RmtBase, Block
<1> QED
  BY <1>2, <1>3, <1>4

LEMMA SendsFinite ==
    ASSUME NEW r \in Ranks, NEW a, Arguments(a)
    PROVE  IsFiniteSet(DOMAIN a.sends)
<1>1. Len(a.sends) \in Int /\ DOMAIN a.sends = 1 .. Len(a.sends)
  BY ArgumentFacts
<1>2. 1 \in Int
  OBVIOUS
<1>3. IsFiniteSet(1 .. Len(a.sends))
  BY ONLY <1>1, <1>2, FS_Interval
<1> QED
  BY ONLY <1>1, <1>3

\* Where the rotation stood before each send, and the parts this gives.
PartsAt(r, a, at, i) == Parts(r, a, i, at[i])
UsedAt(r, a, at, i) == Used(PartsAt(r, a, at, i))
Writings(r, a, at) == {Asked(r, a, i, at[i], j) : i \in DOMAIN a.sends, j \in Int}

\* Each write is that of a part of one of the first m sends that is not empty,
\* and each such part has one write, on its channel.
FromPart(r, a, at, m, id, w) ==
    \E i \in 1 .. m : \E j \in UsedAt(r, a, at, i) :
        SizeOf(a, i) # 0 /\ Id(SideOf(r, a, i), j) = id /\ w = Asked(r, a, i, at[i], j)

OneWrite(s, i) == \E k \in DOMAIN s : s[k].send = i /\ \A l \in DOMAIN s : s[l].send = i => l = k

Cast(r, a, at, u, m) ==
    /\ u \in [Ids -> Seq(Writings(r, a, at))]
    /\ \A id \in Ids : \A k \in DOMAIN u[id] : FromPart(r, a, at, m, id, u[id][k])
    /\ \A i \in 1 .. m : SizeOf(a, i) # 0 =>
         \A j \in UsedAt(r, a, at, i) : OneWrite(u[Id(SideOf(r, a, i), j)], i)

\* What is built for the arguments a of a call by rank r
Follows(r, a, u) ==
    \E at : /\ \A i \in DOMAIN a.sends : at[i] \in Channels(SideOf(r, a, i))
            /\ Cast(r, a, at, u, Len(a.sends))

\* One write more
LEMMA OneMoreWrite ==
    ASSUME NEW S, NEW s \in Seq(S), NEW w \in S, NEW i, w.send = i,
           \A k \in DOMAIN s : s[k].send # i
    PROVE  /\ OneWrite(Append(s, w), i)
           /\ \A h : h # i /\ OneWrite(s, h) => OneWrite(Append(s, w), h)
<1> DEFINE t == Append(s, w)
<1>1. /\ Len(s) \in Nat /\ DOMAIN s = 1 .. Len(s) /\ DOMAIN t = 1 .. Len(s) + 1
      /\ t[Len(s) + 1] = w /\ \A k \in 1 .. Len(s) : t[k] = s[k]
  BY AppendFacts
<1> HIDE DEF t
<1>2. OneWrite(t, i)
  BY <1>1 DEF OneWrite
<1>3. ASSUME NEW h, h # i, OneWrite(s, h) PROVE OneWrite(t, h)
  <2>1. PICK k \in DOMAIN s : s[k].send = h /\ \A l \in DOMAIN s : s[l].send = h => l = k
    BY <1>3 DEF OneWrite
  <2>2. k \in DOMAIN t /\ t[k].send = h
    BY <1>1, <2>1
  <2>3. \A l \in DOMAIN t : t[l].send = h => l = k
    BY <1>1, <1>3, <2>1
  <2> QED
    BY <2>2, <2>3 DEF OneWrite
<1> QED
  BY <1>2, <1>3 DEF t

LEMMA CastStep ==
    ASSUME NEW r \in Ranks, NEW a, NEW at, NEW m \in Nat, m + 1 \in DOMAIN a.sends,
           SizeOf(a, m + 1) # 0,
           \A i \in 1 .. m + 1 : SizeOf(a, i) # 0 =>
              SideOf(r, a, i) \in Sides /\ UsedAt(r, a, at, i) \subseteq Channels(SideOf(r, a, i)),
           NEW u, NEW v, Cast(r, a, at, u, m), v = [id \in Ids |-> v[id]],
           \A j \in UsedAt(r, a, at, m + 1) : LET id == Id(SideOf(r, a, m + 1), j) IN
              v[id] = Append(u[id], Asked(r, a, m + 1, at[m + 1], j)),
           \A id \in Ids : (\A j \in UsedAt(r, a, at, m + 1) : Id(SideOf(r, a, m + 1), j) # id)
              => v[id] = u[id]
    PROVE  Cast(r, a, at, v, m + 1)
<1> DEFINE n == m + 1
           side == SideOf(r, a, n)
           used == UsedAt(r, a, at, n)
           X == Writings(r, a, at)
           new(j) == Asked(r, a, n, at[n], j)
<1>1. \A i, c, j : Asked(r, a, i, c, j).send = i
  BY DEF Asked
<1>2. \A j \in used : /\ Id(side, j) \in Ids /\ new(j) \in X /\ new(j).send = n
                      /\ v[Id(side, j)] = Append(u[Id(side, j)], new(j))
  <2> SUFFICES ASSUME NEW j \in used
               PROVE  /\ Id(side, j) \in Ids /\ new(j) \in X /\ new(j).send = n
                      /\ v[Id(side, j)] = Append(u[Id(side, j)], new(j))
    OBVIOUS
  <2>1. n \in 1 .. n
    OBVIOUS
  <2>2. side \in Sides /\ j \in Channels(side)
    BY <2>1
  <2>3. Id(side, j) \in Ids
    BY <2>2, IdFacts
  <2>4. j \in Int
    BY <2>2 DEF Channels
  <2>5. new(j) \in X
    BY <2>4 DEF Writings
  <2> QED
    BY <1>1, <2>3, <2>5
<1>3. \A id \in Ids : /\ u[id] \in Seq(X)
                      /\ \A k \in DOMAIN u[id] : u[id][k].send # n
  <2> SUFFICES ASSUME NEW id \in Ids
               PROVE  u[id] \in Seq(X) /\ \A k \in DOMAIN u[id] : u[id][k].send # n
    OBVIOUS
  <2>1. u[id] \in Seq(X)
    BY DEF Cast
  <2>2. ASSUME NEW k \in DOMAIN u[id] PROVE u[id][k].send # n
    <3>1. FromPart(r, a, at, m, id, u[id][k])
      BY DEF Cast
    <3>2. u[id][k].send \in 1 .. m
      BY <1>1, <3>1 DEF FromPart
    <3> QED
      BY <3>2
  <2> QED
    BY <2>1, <2>2
<1> HIDE DEF X, new, used, side
<1>5. ASSUME NEW id \in Ids
      PROVE  /\ v[id] \in Seq(X)
             /\ \A k \in DOMAIN v[id] : FromPart(r, a, at, n, id, v[id][k])
             /\ \A i \in 1 .. m : OneWrite(u[id], i) => OneWrite(v[id], i)
  <2>1. \A w : FromPart(r, a, at, m, id, w) => FromPart(r, a, at, n, id, w)
    BY DEF FromPart
  <2>2. CASE \E j \in used : Id(side, j) = id
    <3>1. PICK j \in used : Id(side, j) = id
      BY <2>2
    <3>2. /\ v[id] = Append(u[id], new(j)) /\ new(j) \in X /\ u[id] \in Seq(X)
          /\ new(j).send = n /\ \A k \in DOMAIN u[id] : u[id][k].send # n
      BY <1>2, <1>3, <3>1
    <3>3. /\ v[id] \in Seq(X) /\ Len(u[id]) \in Nat
          /\ DOMAIN v[id] = 1 .. Len(u[id]) + 1 /\ DOMAIN u[id] = 1 .. Len(u[id])
          /\ v[id][Len(u[id]) + 1] = new(j)
          /\ \A k \in 1 .. Len(u[id]) : v[id][k] = u[id][k]
      BY <3>2, AppendFacts
    <3>4. FromPart(r, a, at, n, id, new(j))
      <4>1. n \in 1 .. n
        OBVIOUS
      <4> QED
        BY <3>1, <4>1 DEF FromPart, new, used, side
    <3>5. ASSUME NEW k \in DOMAIN v[id] PROVE FromPart(r, a, at, n, id, v[id][k])
      <4>1. CASE k \in DOMAIN u[id]
        BY <4>1, <2>1, <3>3 DEF Cast
      <4>2. CASE k \notin DOMAIN u[id]
        <5>1. k = Len(u[id]) + 1
          BY <4>2, <3>3
        <5> QED
          BY <5>1, <3>3, <3>4
      <4> QED
        BY <4>1, <4>2
    <3>6. \A i \in 1 .. m : i # n /\ (OneWrite(u[id], i) => OneWrite(v[id], i))
      <4>1. \A i \in 1 .. m : i # n
        OBVIOUS
      <4>2. \A h : h # n /\ OneWrite(u[id], h) => OneWrite(Append(u[id], new(j)), h)
        BY <3>2, OneMoreWrite
      <4> QED
        BY <4>1, <4>2, <3>2
    <3> QED
      BY <3>3, <3>5, <3>6
  <2>3. CASE \A j \in used : Id(side, j) # id
    <3>1. v[id] = u[id]
      BY <2>3 DEF used, side
    <3> QED
      BY <3>1, <1>3, <2>1 DEF Cast
  <2> QED
    BY <2>2, <2>3
<1>6. v \in [Ids -> Seq(X)]
  BY <1>5
<1>7. ASSUME NEW i \in 1 .. n, SizeOf(a, i) # 0, NEW j \in UsedAt(r, a, at, i)
      PROVE  OneWrite(v[Id(SideOf(r, a, i), j)], i)
  <2>1. CASE i = n
    <3>1. j \in used /\ Id(side, j) \in Ids
      BY <2>1, <1>2 DEF used
    <3>2. /\ v[Id(side, j)] = Append(u[Id(side, j)], new(j)) /\ new(j) \in X
          /\ u[Id(side, j)] \in Seq(X) /\ new(j).send = n
          /\ \A k \in DOMAIN u[Id(side, j)] : u[Id(side, j)][k].send # n
      BY <3>1, <1>2, <1>3
    <3>3. OneWrite(Append(u[Id(side, j)], new(j)), n)
      BY <3>2, OneMoreWrite
    <3> QED
      BY <2>1, <3>2, <3>3 DEF side
  <2>2. CASE i # n
    <3>1. i \in 1 .. m
      BY <2>2
    <3>2. OneWrite(u[Id(SideOf(r, a, i), j)], i)
      BY <3>1, <1>7 DEF Cast
    <3>3. Id(SideOf(r, a, i), j) \in Ids
      BY <1>7, IdFacts
    <3> QED
      BY <3>1, <3>2, <3>3, <1>5
  <2> QED
    BY <2>1, <2>2
<1> QED
  BY <1>5, <1>6, <1>7 DEF Cast, X

\* What one send adds to the writes, and where it leaves the rotation.
Turned(next) == next \in [Sides -> Nat] /\ \A side \in Sides : next[side] \in Channels(side)
Added(r, a, i, acc, res) ==
    LET c == acc.next[SideOf(r, a, i)]
        used == Used(Parts(r, a, i, c))
    IN  /\ Turned(res.next)
        /\ res.uri = [id \in Ids |-> res.uri[id]]
        /\ \A j \in used : res.uri[Id(SideOf(r, a, i), j)]
              = Append(acc.uri[Id(SideOf(r, a, i), j)], Asked(r, a, i, c, j))
        /\ \A id \in Ids : (\A j \in used : Id(SideOf(r, a, i), j) # id)
              => res.uri[id] = acc.uri[id]

LEMMA AddSendFacts ==
    ASSUME SyncInv, NEW r \in Ranks, NEW a, Arguments(a), Buildable(r, a),
           NEW i \in DOMAIN a.sends, SizeOf(a, i) # 0, NEW acc, Turned(acc.next),
           NEW res, res = AddSend(r, a, acc, i)
    PROVE  Added(r, a, i, acc, res)
<1> DEFINE side == SideOf(r, a, i)
           c == acc.next[side]
           used == Used(Parts(r, a, i, c))
           hit(id) == \E j \in used : Id(side, j) = id
           the(id) == CHOOSE j \in used : Id(side, j) = id
           next == [acc.next EXCEPT ![side] = NextChannel(side, SizeOf(a, i), c)]
           cells == [id \in Ids |-> IF hit(id)
                                    THEN Append(acc.uri[id], Write(r, a, i, c, the(id)))
                                    ELSE acc.uri[id]]
<1>1. side \in Sides /\ SizeOf(a, i) \in Nat \ {0} /\ Block(a.sends[i].rmt)
  BY ArgumentFacts
<1>2. Known(r, a.sends[i].rmt)
  BY <1>1 DEF Buildable
<1>3. \A j : Write(r, a, i, c, j) = Asked(r, a, i, c, j)
  BY <1>1, <1>2, WriteAsked
<1>0. acc.next \in [Sides -> Nat] /\ \A d \in Sides : acc.next[d] \in Channels(d)
  BY DEF Turned
<1>4. used \subseteq Channels(side) /\ NextChannel(side, SizeOf(a, i), c) \in Channels(side)
  BY <1>0, <1>1, PartsExact DEF Parts
<1>5. res = [next |-> next, uri |-> cells]
  BY DEF AddSend
<1>6. res.next = next /\ res.uri = cells
  BY <1>5
<1>7. ASSUME NEW j \in used PROVE Id(side, j) \in Ids /\ hit(Id(side, j)) /\ the(Id(side, j)) = j
  <2>1. Id(side, j) \in Ids /\ \A k \in used : Id(side, k) = Id(side, j) => k = j
    BY <1>1, <1>4, IdFacts
  <2> HIDE DEF used, side
  <2> QED
    BY <2>1
<1> HIDE DEF hit, the
<1>8. \A j \in used : res.uri[Id(side, j)] = Append(acc.uri[Id(side, j)], Asked(r, a, i, c, j))
  BY <1>3, <1>6, <1>7
<1>9. \A id \in Ids : (\A j \in used : Id(side, j) # id) => res.uri[id] = acc.uri[id]
  BY <1>6 DEF hit
<1>10. \A s \in Sides : next[s] \in Channels(s) /\ next[s] \in Nat
  <2>1. \A s \in Sides : next[s] = IF s = side THEN NextChannel(side, SizeOf(a, i), c) ELSE acc.next[s]
    BY <1>0
  <2>2. \A s \in Sides : \A j \in Channels(s) : j \in Nat
    BY SideFacts DEF Channels
  <2> QED
    BY <1>0, <1>4, <2>1, <2>2
<1>11. next \in [Sides -> Nat]
  <2>1. DOMAIN next = Sides
    BY <1>0
  <2>2. next = [s \in Sides |-> next[s]]
    BY <2>1
  <2> HIDE DEF next
  <2> QED
    BY <2>2, <1>10
<1>12. res.uri = [id \in Ids |-> res.uri[id]]
  BY <1>6
<1> QED
  <2>1. Turned(res.next)
    BY <1>6, <1>10, <1>11 DEF Turned
  <2> QED
    BY <2>1, <1>8, <1>9, <1>12 DEF Added

\* A send of no bytes leaves nothing to be written.
LEMMA CastNothing ==
    ASSUME NEW r, NEW a, NEW at, NEW u, NEW m \in Nat, Cast(r, a, at, u, m), SizeOf(a, m + 1) = 0
    PROVE  Cast(r, a, at, u, m + 1)
<1>1. \A id, w : FromPart(r, a, at, m, id, w) => FromPart(r, a, at, m + 1, id, w)
  BY DEF FromPart
<1>2. \A i \in 1 .. m + 1 : SizeOf(a, i) # 0 => i \in 1 .. m
  OBVIOUS
<1> QED
  BY <1>1, <1>2 DEF Cast

\* Building a plan writes what its arguments ask for.
LEMMA BuildFollows ==
    ASSUME SyncInv, NEW r \in Ranks, NEW a, Arguments(a), Buildable(r, a)
    PROVE  Follows(r, a, Build(r, a))
<1> DEFINE n == Len(a.sends)
<1>1. n \in Nat /\ DOMAIN a.sends = 1 .. n
  BY ArgumentFacts
<1>2. PICK f : /\ Build(r, a) = f[n].uri
               /\ f[0] = NoSends
               /\ \A i \in 1 .. n : f[i] = AddSend(r, a, f[i - 1], i)
  BY <1>1, BuildRecursion
<1> HIDE DEF n
<1> DEFINE at == [i \in 1 .. n |-> f[i - 1].next[SideOf(r, a, i)]]
           Upto(m) == Turned(f[m].next) /\ Cast(r, a, at, f[m].uri, m)
           S == {m \in 0 .. n : Upto(m)}
<1>3. Upto(0)
  <2>1. f[0].next = [side \in Sides |-> 0] /\ f[0].uri = [id \in Ids |-> <<>>]
    BY <1>2 DEF NoSends, NoWrites
  <2>2. Turned(f[0].next)
    BY <2>1, SideFacts DEF Turned
  <2>3. Cast(r, a, at, f[0].uri, 0)
    BY <2>1 DEF Cast
  <2> QED
    BY <2>2, <2>3
<1>4. \A i \in 1 .. n : UsedAt(r, a, at, i) \subseteq Channels(SideOf(r, a, i))
                        /\ SideOf(r, a, i) \in Sides
  BY <1>1, ArgumentFacts DEF UsedAt, PartsAt, Used, Parts, DivSize
<1>5. ASSUME NEW m \in 0 .. n, m # n, Upto(m) PROVE Upto(m + 1)
  <2> DEFINE i == m + 1
             side == SideOf(r, a, i)
  <2>1. i \in 1 .. n /\ i - 1 = m /\ m \in Nat /\ i \in DOMAIN a.sends
    BY <1>1, <1>5
  <2>2. f[i] = AddSend(r, a, f[m], i)
    BY <1>2, <2>1
  <2>3. CASE SizeOf(a, i) = 0
    <3>1. f[i] = f[m]
      BY <2>2, <2>3 DEF AddSend
    <3>2. Cast(r, a, at, f[m].uri, i)
      <4> HIDE DEF at
      <4> QED
        BY <1>5, <2>1, <2>3, CastNothing
    <3> QED
      BY <3>1, <3>2, <1>5
  <2>4. CASE SizeOf(a, i) # 0
    <3> DEFINE c == f[m].next[side]
               used == Used(Parts(r, a, i, c))
    <3>1. at[i] = c /\ UsedAt(r, a, at, i) = used
      BY <2>1 DEF UsedAt, PartsAt
    <3>2. Turned(f[m].next)
      BY <1>5
    <3> HIDE DEF at
    <3>3. Added(r, a, i, f[m], f[i])
      <4> SUFFICES ASSUME NEW acc, acc = f[m], NEW res, res = f[i], NEW k, k = i
                   PROVE  Added(r, a, k, acc, res)
        OBVIOUS
      <4>1. /\ k \in DOMAIN a.sends /\ SizeOf(a, k) # 0 /\ Turned(acc.next)
            /\ res = AddSend(r, a, acc, k)
        BY <2>1, <2>2, <2>4, <3>2
      <4> QED
        BY <4>1, AddSendFacts
    <3> DEFINE u == f[m].uri
               v == f[i].uri
    <3>4. /\ v = [id \in Ids |-> v[id]]
          /\ \A j \in UsedAt(r, a, at, i) : v[Id(side, j)]
                = Append(u[Id(side, j)], Asked(r, a, i, at[i], j))
          /\ \A id \in Ids : (\A j \in UsedAt(r, a, at, i) : Id(side, j) # id) => v[id] = u[id]
      BY <3>1, <3>3 DEF Added
    <3>5. Cast(r, a, at, u, m)
      BY <1>5
    <3>6. \A h \in 1 .. i : h \in 1 .. n
      BY <1>1, <2>1
    <3>7. \A h \in 1 .. i : SizeOf(a, h) # 0 =>
             SideOf(r, a, h) \in Sides /\ UsedAt(r, a, at, h) \subseteq Channels(SideOf(r, a, h))
      BY <1>4, <3>6
    <3> HIDE DEF u, v
    <3>8. Cast(r, a, at, v, i)
      BY <2>1, <2>4, <3>4, <3>5, <3>7, CastStep
    <3> QED
      BY <3>3, <3>8 DEF v, Added
  <2> QED
    BY <2>3, <2>4
<1> HIDE DEF Upto
<1>6. \A m \in 0 .. n : Upto(m)
  <2>1. 0 \in S /\ \A m \in 0 .. n : m # n /\ m \in S => m + 1 \in S
    BY <1>1, <1>3, <1>5
  <2> HIDE DEF S
  <2>2. \A m \in 0 .. n : m \in S
    BY <1>1, <2>1, ChannelInduction
  <2> QED
    BY <2>2 DEF S
<1>7. Cast(r, a, at, Build(r, a), n)
  <2>1. n \in 0 .. n
    BY <1>1
  <2>2. Cast(r, a, at, f[n].uri, n)
    BY <2>1, <1>6 DEF Upto
  <2> HIDE DEF at
  <2> QED
    BY <2>2, <1>2
<1>8. \A i \in 1 .. n : at[i] \in Channels(SideOf(r, a, i))
  <2> SUFFICES ASSUME NEW i \in 1 .. n PROVE at[i] \in Channels(SideOf(r, a, i))
    OBVIOUS
  <2>1. i - 1 \in 0 .. n
    BY <1>1
  <2>2. Turned(f[i - 1].next)
    BY <2>1, <1>6 DEF Upto
  <2> QED
    BY <2>2, <1>4 DEF Turned
<1>9. \E g : /\ \A i \in DOMAIN a.sends : g[i] \in Channels(SideOf(r, a, i))
             /\ Cast(r, a, g, Build(r, a), Len(a.sends))
  <2> HIDE DEF at
  <2> QED
    BY <1>1, <1>7, <1>8 DEF n
<1> QED
  BY <1>9 DEF Follows

\* A plan that has been built holds the writes of the arguments of its call.
BuiltInv ==
    \A p \in Plans : Built(p) => given[p] \in Args[p] /\ Follows(Owner[p], given[p], uri[p])

LEMMA BuiltInit == Init => BuiltInv
BY DEF Init, BuiltInv, Built

\* What a step does to the writes of a plan: nothing, or it builds them.
LEMMA BuiltStep ==
    ASSUME SyncInv, KeepInv, [Next]_vars, NEW q \in Plans, Built(q)'
    PROVE  \/ Built(q) /\ given'[q] = given[q] /\ uri'[q] = uri[q]
           \/ /\ given'[q] \in Args[q] /\ Buildable(Owner[q], given'[q])
              /\ uri'[q] = Build(Owner[q], given'[q])
<1>1. /\ DOMAIN given = Plans /\ DOMAIN para = Plans /\ DOMAIN status = Plans
      /\ DOMAIN starts = Plans /\ DOMAIN uri = Plans /\ starts[q] \in Nat
      /\ status[q] = "none" => starts[q] = 0
      /\ status[q] # "none" => given[q] \in Args[q]
      /\ status[q] = "deferred" => para[q] = given[q] /\ starts[q] = 0
  <2>1. starts[q] \in 0 .. MaxStart
    BY DEF SyncInv, TypeOK
  <2> QED
    BY <2>1, Bounds DEF KeepInv, SyncInv, TypeOK
<1>2. status'[q] = "ready" \/ starts'[q] > 0
  BY DEF Built
<1>3. CASE status' = status /\ starts' = starts /\ given' = given /\ uri' = uri
  BY <1>2, <1>3 DEF Built
<1>4. ASSUME NEW r \in Ranks, MemReg(r) \/ SyncEnter(r) \/ SyncExit(r)
      PROVE  status' = status /\ starts' = starts /\ given' = given /\ uri' = uri
  BY <1>4 DEF MemReg, SyncEnter, SyncExit, planVars
<1>5. \A r, a : Synced(r, a) => Buildable(r, a)
  BY DEF Synced, Buildable
<1>6. ASSUME NEW p \in Plans, NEW a \in Args[p], RdmaStart(p, a)
      PROVE  \/ Built(q) /\ given'[q] = given[q] /\ uri'[q] = uri[q]
             \/ /\ given'[q] \in Args[q] /\ Buildable(Owner[q], given'[q])
                /\ uri'[q] = Build(Owner[q], given'[q])
  <2>1. /\ given' = [given EXCEPT ![p] = a] /\ status[p] = "none"
        /\ \/ /\ starts' = [starts EXCEPT ![p] = 1]
              /\ status' = [status EXCEPT ![p] = "gone"]
              /\ uri' = [uri EXCEPT ![p] = Build(Owner[p], a)] /\ Synced(Owner[p], a)
           \/ starts' = starts /\ status' = status /\ uri' = uri
    BY <1>6 DEF RdmaStart
  <2>2. CASE p = q
    BY <1>1, <1>2, <1>5, <2>1, <2>2
  <2>3. CASE p # q
    BY <1>1, <1>2, <2>1, <2>3 DEF Built
  <2> QED
    BY <2>2, <2>3
<1>7. ASSUME NEW p \in Plans, NEW a \in Args[p], RdmaPlan(p, a)
      PROVE  \/ Built(q) /\ given'[q] = given[q] /\ uri'[q] = uri[q]
             \/ /\ given'[q] \in Args[q] /\ Buildable(Owner[q], given'[q])
                /\ uri'[q] = Build(Owner[q], given'[q])
  <2>1. /\ given' = [given EXCEPT ![p] = a] /\ status[p] = "none" /\ starts' = starts
        /\ \/ /\ status' = [status EXCEPT ![p] = "ready"]
              /\ uri' = [uri EXCEPT ![p] = Build(Owner[p], a)] /\ Synced(Owner[p], a)
           \/ status' = [status EXCEPT ![p] = "deferred"] /\ uri' = uri
    BY <1>7 DEF RdmaPlan
  <2>2. CASE p = q
    BY <1>1, <1>2, <1>5, <2>1, <2>2
  <2>3. CASE p # q
    BY <1>1, <1>2, <2>1, <2>3 DEF Built
  <2> QED
    BY <2>2, <2>3
<1>8. ASSUME NEW p \in Plans, PlanStart(p)
      PROVE  \/ Built(q) /\ given'[q] = given[q] /\ uri'[q] = uri[q]
             \/ /\ given'[q] \in Args[q] /\ Buildable(Owner[q], given'[q])
                /\ uri'[q] = Build(Owner[q], given'[q])
  <2>1. /\ given' = given /\ status[p] \in {"deferred", "ready"}
        /\ \/ /\ status[p] = "deferred" /\ Buildable(Owner[p], para[p])
              /\ uri' = [uri EXCEPT ![p] = Build(Owner[p], para[p])]
              /\ status' = [status EXCEPT ![p] = "ready"]
              /\ starts' = [starts EXCEPT ![p] = @ + 1]
           \/ status' = status /\ uri' = uri /\ starts' = starts
           \/ /\ status[p] # "deferred" /\ status' = status /\ uri' = uri
              /\ starts' = [starts EXCEPT ![p] = @ + 1]
    BY <1>8 DEF PlanStart, KeptArgs
  <2>2. CASE p = q
    BY <1>1, <1>2, <2>1, <2>2 DEF Built
  <2>3. CASE p # q
    BY <1>1, <1>2, <2>1, <2>3 DEF Built
  <2> QED
    BY <2>2, <2>3
<1>9. ASSUME NEW p \in Plans, NEW a, Overwrite(p, a)
      PROVE  status' = status /\ starts' = starts /\ given' = given /\ uri' = uri
  BY <1>9 DEF Overwrite
<1>10. ASSUME NEW p \in Plans, PlanDestroy(p)
       PROVE  Built(q) /\ given'[q] = given[q] /\ uri'[q] = uri[q]
  <2>1. /\ given' = given /\ uri' = uri /\ starts' = starts
        /\ status' = [status EXCEPT ![p] = "gone"]
    BY <1>10 DEF PlanDestroy
  <2> QED
    BY <1>1, <1>2, <2>1 DEF Built
<1>11. CASE UNCHANGED vars
  BY <1>3, <1>11 DEF vars, planVars
<1> QED
  BY <1>3, <1>4, <1>6, <1>7, <1>8, <1>9, <1>10, <1>11 DEF Next

LEMMA BuiltNext == SyncInv /\ KeepInv /\ BuiltInv /\ [Next]_vars => BuiltInv'
<1> SUFFICES ASSUME SyncInv, KeepInv, BuiltInv, [Next]_vars, NEW q \in Plans, Built(q)'
             PROVE  given'[q] \in Args[q] /\ Follows(Owner[q], given'[q], uri'[q])
  BY DEF BuiltInv
<1>1. CASE Built(q) /\ given'[q] = given[q] /\ uri'[q] = uri[q]
  BY <1>1 DEF BuiltInv
<1>2. CASE /\ given'[q] \in Args[q] /\ Buildable(Owner[q], given'[q])
           /\ uri'[q] = Build(Owner[q], given'[q])
  <2>1. Owner[q] \in Ranks /\ Arguments(given'[q])
    BY <1>2, PlanAssumption
  <2> SUFFICES ASSUME NEW a, a = given'[q], NEW r \in Ranks, r = Owner[q]
               PROVE  Follows(r, a, Build(r, a))
    BY <1>2, <2>1
  <2>2. Arguments(a) /\ Buildable(r, a)
    BY <1>2, <2>1
  <2> QED
    BY <2>2, BuildFollows
<1> QED
  BY <1>1, <1>2, BuiltStep

LEMMA BuiltInvariant == Spec => [](SyncInv /\ KeepInv /\ BuiltInv)
<1>1. Init => SyncInv /\ KeepInv /\ BuiltInv
  BY SyncInit, KeepInit, BuiltInit
<1>2. (SyncInv /\ KeepInv /\ BuiltInv) /\ [Next]_vars => (SyncInv /\ KeepInv /\ BuiltInv)'
  BY SyncNext, KeepNext, BuiltNext
<1> QED
  BY <1>1, <1>2, PTL DEF Spec

-----------------------------------------------------------------------------
(* The division of the sends of a plan *)

LEMMA SumOne ==
    ASSUME NEW f, NEW x, f[x] \in Int
    PROVE  SumOf(f, {x}) = f[x]
<1>1. /\ IsFiniteSet({x}) /\ {x} \in SUBSET {x} /\ x \in {x} /\ {x} \ {x} = {}
      /\ \A y \in {x} : f[y] \in Int
  BY FS_Singleton
<1>2. SumOf(f, {x}) = f[x] + SumOf(f, {x} \ {x})
  BY <1>1, SumTake
<1> QED
  BY <1>1, <1>2, SumOfNone

\* the writes of the i-th send in channel id
From(u, id, i) == {u[id][k] : k \in {l \in DOMAIN u[id] : u[id][l].send = i}}

LEMMA FromIs ==
    ASSUME NEW r \in Ranks, NEW a, Arguments(a), NEW at, NEW u,
           \A i \in DOMAIN a.sends : at[i] \in Channels(SideOf(r, a, i)),
           Cast(r, a, at, u, Len(a.sends)),
           NEW i \in DOMAIN a.sends, SizeOf(a, i) # 0, NEW j \in Channels(SideOf(r, a, i))
    PROVE  From(u, Id(SideOf(r, a, i), j), i)
             = IF j \in UsedAt(r, a, at, i) THEN {Asked(r, a, i, at[i], j)} ELSE {}
<1> DEFINE side == SideOf(r, a, i)
           id == Id(side, j)
           used == UsedAt(r, a, at, i)
<1>1. /\ Len(a.sends) \in Nat /\ DOMAIN a.sends = 1 .. Len(a.sends)
      /\ side \in Sides /\ SizeOf(a, i) \in Nat \ {0}
  BY ArgumentFacts
<1>2. used \subseteq Channels(side)
  BY <1>1, PartsExact DEF UsedAt, PartsAt, Parts
<1>3. id \in Ids /\ \A k \in Channels(side) : Id(side, k) = id => k = j
  BY <1>1, IdFacts
<1>4. \A k \in DOMAIN u[id] : FromPart(r, a, at, Len(a.sends), id, u[id][k])
  BY <1>3 DEF Cast
<1>5. \A h, c, k : Asked(r, a, h, c, k).send = h
  BY DEF Asked
<1>6. ASSUME NEW k \in DOMAIN u[id], u[id][k].send = i
      PROVE  j \in used /\ u[id][k] = Asked(r, a, i, at[i], j)
  <2>1. PICK h \in 1 .. Len(a.sends) : \E l \in UsedAt(r, a, at, h) :
          Id(SideOf(r, a, h), l) = id /\ u[id][k] = Asked(r, a, h, at[h], l)
    BY <1>4 DEF FromPart
  <2>2. h = i
    BY <2>1, <1>5, <1>6
  <2>3. PICK l \in used : Id(side, l) = id /\ u[id][k] = Asked(r, a, i, at[i], l)
    BY <2>1, <2>2
  <2>4. l = j
    BY <2>3, <1>2, <1>3
  <2> QED
    BY <2>3, <2>4
<1>7. j \in used => \E k \in DOMAIN u[id] : u[id][k].send = i
  BY <1>1 DEF Cast, OneWrite
<1> HIDE DEF used, id
<1> QED
  BY <1>6, <1>7 DEF From, used, id

\* Every non-empty send of a plan that has been built is divided exactly, into
\* parts that are one event, whatever the rotation was left at by the sends
\* before it and whether the plan was built at the call or at its first start.
THEOREM PlansAreDivided == Spec => []PlanDivided
<1>1. BuiltInv => PlanDivided
  <2> SUFFICES ASSUME BuiltInv, NEW p \in Plans, Built(p), NEW i \in Full(p)
               PROVE  LET side == SideOf(Owner[p], given[p], i)
                          size == [w \in UNION {Share(p, i, j) : j \in Channels(side)} |-> w.size]
                          add == [w \in UNION {Share(p, i, j) : j \in Channels(side)} |-> w.add]
                      IN  Exact(side, SizeOf(given[p], i),
                                [j \in Channels(side) |-> SumOf(size, Share(p, i, j))],
                                [j \in Channels(side) |-> SumOf(add, Share(p, i, j))])
    BY DEF PlanDivided
  <2>1. given[p] \in Args[p] /\ Follows(Owner[p], given[p], uri[p])
    BY DEF BuiltInv
  <2>2. Owner[p] \in Ranks /\ Arguments(given[p])
    BY <2>1, PlanAssumption
  <2> SUFFICES ASSUME NEW r \in Ranks, r = Owner[p], NEW a, a = given[p], NEW u, u = uri[p]
               PROVE  LET side == SideOf(r, a, i)
                          size == [w \in UNION {Share(p, i, j) : j \in Channels(side)} |-> w.size]
                          add == [w \in UNION {Share(p, i, j) : j \in Channels(side)} |-> w.add]
                      IN  Exact(side, SizeOf(a, i),
                                [j \in Channels(side) |-> SumOf(size, Share(p, i, j))],
                                [j \in Channels(side) |-> SumOf(add, Share(p, i, j))])
    BY <2>2
  <2>3. PICK at : /\ \A h \in DOMAIN a.sends : at[h] \in Channels(SideOf(r, a, h))
                  /\ Cast(r, a, at, u, Len(a.sends))
    BY <2>1 DEF Follows
  <2> DEFINE side == SideOf(r, a, i)
             parts == PartsAt(r, a, at, i)
             add0 == SigAddArr(parts)
             w0(j) == Asked(r, a, i, at[i], j)
             all == UNION {Share(p, i, j) : j \in Channels(side)}
             size == [w \in all |-> w.size]
             add == [w \in all |-> w.add]
  <2>4. i \in DOMAIN a.sends /\ SizeOf(a, i) # 0 /\ Arguments(a)
    BY <2>2 DEF Full
  <2>5. side \in Sides /\ SizeOf(a, i) \in Nat \ {0} /\ at[i] \in Channels(side)
    BY <2>3, <2>4, ArgumentFacts
  <2>6. /\ parts \in [Channels(side) -> Nat] /\ Used(parts) \subseteq Channels(side)
        /\ Exact(side, SizeOf(a, i), parts, add0)
    BY <2>5, PartsExact DEF Parts, PartsAt
  <2>7. \A j \in Channels(side) :
          Share(p, i, j) = IF j \in Used(parts) THEN {w0(j)} ELSE {}
    <3>1. \A j \in Channels(side) : From(u, Id(side, j), i)
             = IF j \in UsedAt(r, a, at, i) THEN {w0(j)} ELSE {}
      <4> HIDE DEF side, w0
      <4> QED
        BY <2>3, <2>4, FromIs DEF side, w0
    <3>2. \A j : Share(p, i, j) = From(u, Id(side, j), i)
      BY DEF Share, From
    <3> HIDE DEF side, w0, parts
    <3> QED
      BY <3>1, <3>2 DEF UsedAt, parts
  <2>8. \A j \in Channels(side) :
          /\ w0(j).size = parts[j] /\ w0(j).add = add0[j]
          /\ parts[j] \in Nat /\ add0[j] \in Int
          /\ j \notin Used(parts) => parts[j] = 0 /\ add0[j] = 0
    <3>1. \A j : w0(j).size = parts[j] /\ w0(j).add = add0[j]
      BY DEF Asked, PartsAt
    <3> HIDE DEF w0
    <3>2. DOMAIN parts = Channels(side) /\ \A j \in Channels(side) : parts[j] \in Nat
      BY <2>6
    <3> HIDE DEF parts
    <3>3. IsFiniteSet(Used(parts))
      <4>1. IsFiniteSet(Channels(side))
        <5>1. NumChannels[side] \in Nat
          BY <2>5, SideFacts
        <5>2. \A n \in Nat : IsFiniteSet(0 .. n - 1)
          BY UpToFinite
        <5> QED
          BY <5>1, <5>2 DEF Channels
      <4> QED
        BY <4>1, <2>6, FS_Subset
    <3>4. Cardinality(Used(parts)) \in Nat
      BY <3>3, FS_CardinalityType
    <3>5. \A j \in Channels(side) : /\ add0[j] \in Int
                                    /\ j \notin Used(parts) => parts[j] = 0 /\ add0[j] = 0
      <4> SUFFICES ASSUME NEW j \in Channels(side)
                   PROVE  add0[j] \in Int /\ (j \notin Used(parts) => parts[j] = 0 /\ add0[j] = 0)
        OBVIOUS
      <4>1. W * (Cardinality(Used(parts)) - 1) \in Int /\ W \in Int
        BY <3>4, SplitAssumption
      <4>2. add0[j] \in {0, -1 + W * (Cardinality(Used(parts)) - 1), -W}
        BY <3>2 DEF SigAddArr, Used
      <4>3. j \notin Used(parts) => parts[j] = 0 /\ add0[j] = 0
        BY <3>2 DEF SigAddArr, Used
      <4> QED
        BY <4>1, <4>2, <4>3
    <3> QED
      BY <3>1, <3>2, <3>5
  <2>9. \A j \in Channels(side) : /\ SumOf(size, Share(p, i, j)) = parts[j]
                                  /\ SumOf(add, Share(p, i, j)) = add0[j]
    <3> SUFFICES ASSUME NEW j \in Channels(side)
                 PROVE  /\ SumOf(size, Share(p, i, j)) = parts[j]
                        /\ SumOf(add, Share(p, i, j)) = add0[j]
      OBVIOUS
    <3> HIDE DEF parts, w0
    <3>1. CASE j \in Used(parts)
      <4>1. Share(p, i, j) = {w0(j)} /\ w0(j) \in all
        BY <2>7, <3>1
      <4>2. size[w0(j)] = parts[j] /\ add[w0(j)] = add0[j]
        BY <4>1, <2>8
      <4> HIDE DEF size, add, add0
      <4>3. size[w0(j)] \in Int /\ add[w0(j)] \in Int
        BY <4>2, <2>8
      <4> QED
        BY <4>1, <4>2, <4>3, SumOne
    <3>2. CASE j \notin Used(parts)
      BY <2>7, <2>8, <3>2, SumOfNone
    <3> QED
      BY <3>1, <3>2
  <2>10. /\ [j \in Channels(side) |-> SumOf(size, Share(p, i, j))] = parts
         /\ [j \in Channels(side) |-> SumOf(add, Share(p, i, j))] = add0
    <3>1. DOMAIN add0 = DOMAIN parts /\ add0 = [j \in DOMAIN parts |-> add0[j]]
      BY DEF SigAddArr
    <3>2. parts = [j \in Channels(side) |-> parts[j]]
      BY <2>6
    <3> HIDE DEF parts, add0, size, add, side
    <3> QED
      BY <2>9, <3>1, <3>2
  <2> HIDE DEF parts, add0
  <2> QED
    BY <2>6, <2>10
<1> QED
  BY <1>1, BuiltInvariant, PTL

-----------------------------------------------------------------------------
(* Sums over sets that correspond to each other *)

\* Functions that agree on a set have the same sum over it.
LEMMA SumSame ==
    ASSUME NEW S, IsFiniteSet(S), NEW f, NEW g, \A x \in S : f[x] \in Int /\ g[x] = f[x]
    PROVE  SumOf(g, S) = SumOf(f, S)
<1> DEFINE K == {T \in SUBSET S : SumOf(g, T) = SumOf(f, T)}
<1>1. {} \in K
  BY SumOfNone
<1>2. ASSUME NEW T \in SUBSET S, NEW x \in S \ T, T \in K PROVE T \cup {x} \in K
  <2>1. SumOf(f, T \cup {x}) = f[x] + SumOf(f, T)
    BY SumPlus
  <2>2. SumOf(g, T \cup {x}) = g[x] + SumOf(g, T)
    <3>1. \A y \in S : g[y] \in Int
      OBVIOUS
    <3> QED
      BY <3>1, SumPlus
  <2> QED
    BY <2>1, <2>2, <1>2
<1> HIDE DEF K
<1>3. S \in K
  BY <1>1, <1>2, SubsetInduction
<1> QED
  BY <1>3 DEF K

\* Sums over two disjoint sets
LEMMA SumDisjoint ==
    ASSUME NEW S, IsFiniteSet(S), NEW f, \A x \in S : f[x] \in Int,
           NEW A \in SUBSET S, NEW B \in SUBSET S, A \cap B = {}
    PROVE  SumOf(f, A \cup B) = SumOf(f, A) + SumOf(f, B)
<1> DEFINE K == {T \in SUBSET B : SumOf(f, A \cup T) = SumOf(f, A) + SumOf(f, T)}
<1>1. SumOf(f, A) \in Int /\ \A T \in SUBSET B : SumOf(f, T) \in Int
  BY SumType
<1>2. {} \in K
  <2>1. A \cup {} = A
    OBVIOUS
  <2> QED
    BY <1>1, <2>1, SumOfNone
<1>3. ASSUME NEW T \in SUBSET B, NEW x \in B \ T, T \in K PROVE T \cup {x} \in K
  <2>1. T \in SUBSET S /\ x \in S \ T /\ A \cup T \in SUBSET S /\ x \in S \ (A \cup T)
    OBVIOUS
  <2>2. SumOf(f, T \cup {x}) = f[x] + SumOf(f, T)
    BY <2>1, SumPlus
  <2>3. SumOf(f, (A \cup T) \cup {x}) = f[x] + SumOf(f, A \cup T)
    BY <2>1, SumPlus
  <2>4. (A \cup T) \cup {x} = A \cup (T \cup {x}) /\ T \cup {x} \in SUBSET B
    OBVIOUS
  <2>5. SumOf(f, A \cup T) = SumOf(f, A) + SumOf(f, T) /\ f[x] \in Int
    BY <1>3
  <2>6. SumOf(f, A \cup (T \cup {x})) = SumOf(f, A) + SumOf(f, T \cup {x})
    <3> SUFFICES ASSUME NEW a \in Int, a = SumOf(f, A), NEW t \in Int, t = SumOf(f, T),
                        NEW y \in Int, y = f[x]
                 PROVE  SumOf(f, A \cup (T \cup {x})) = SumOf(f, A) + SumOf(f, T \cup {x})
      BY <1>1, <2>5
    <3>1. SumOf(f, A \cup (T \cup {x})) = y + SumOf(f, A \cup T) /\ SumOf(f, A \cup T) = a + t
      BY <2>3, <2>4, <2>5
    <3>2. SumOf(f, T \cup {x}) = y + t
      BY <2>2
    <3>3. y + (a + t) = a + (y + t)
      OBVIOUS
    <3> QED
      BY <3>1, <3>2, <3>3
  <2> QED
    BY <2>4, <2>6
<1> HIDE DEF K
<1>4. IsFiniteSet(B)
  BY FS_Subset
<1>5. B \in K
  <2>1. \A T \in SUBSET B : \A x \in B \ T : T \in K => T \cup {x} \in K
    BY <1>3
  <2>2. \A T \in SUBSET B : T \in K
    BY ONLY <1>2, <1>4, <2>1, SubsetInduction
  <2> QED
    BY <2>2
<1> QED
  BY <1>5 DEF K

\* Numbers that are zero outside of a set
LEMMA SumZeros ==
    ASSUME NEW S, IsFiniteSet(S), NEW f, \A x \in S : f[x] \in Int,
           NEW A \in SUBSET S, \A x \in S \ A : f[x] = 0
    PROVE  SumOf(f, A) = SumOf(f, S)
<1> DEFINE Z == S \ A
           K == {T \in SUBSET Z : SumOf(f, T) = 0}
<1>1. Z \in SUBSET S /\ A \cup Z = S /\ A \cap Z = {} /\ \A x \in Z : f[x] = 0
  OBVIOUS
<1>2. IsFiniteSet(Z)
  BY FS_Subset
<1> HIDE DEF Z
<1>3. {} \in K
  BY SumOfNone
<1>4. ASSUME NEW T \in SUBSET Z, NEW x \in Z \ T, T \in K PROVE T \cup {x} \in K
  <2>1. T \in SUBSET S /\ x \in S \ T
    BY <1>1
  <2>2. SumOf(f, T \cup {x}) = f[x] + SumOf(f, T)
    BY <2>1, SumPlus
  <2> QED
    BY <2>2, <1>1, <1>4
<1> HIDE DEF K
<1>5. Z \in K
  <2>1. \A T \in SUBSET Z : \A x \in Z \ T : T \in K => T \cup {x} \in K
    BY <1>4
  <2>2. \A T \in SUBSET Z : T \in K
    BY ONLY <1>2, <1>3, <2>1, SubsetInduction
  <2> QED
    BY <2>2
<1>6. SumOf(f, A \cup Z) = SumOf(f, A) + SumOf(f, Z) /\ SumOf(f, A) \in Int
  BY <1>1, SumDisjoint, SumType
<1>7. SumOf(f, Z) = 0
  BY <1>5 DEF K
<1>8. SumOf(f, A \cup Z) = SumOf(f, A)
  BY <1>6, <1>7
<1> QED
  BY <1>1, <1>8

\* Sums over two sets whose elements correspond to each other
LEMMA SumReindex ==
    ASSUME NEW U, IsFiniteSet(U), NEW X, IsFiniteSet(X), NEW f, NEW g, NEW h,
           \A j \in U : h[j] \in X /\ g[j] \in Int /\ f[h[j]] = g[j],
           \A j, k \in U : h[j] = h[k] => j = k,
           \A x \in X : \E j \in U : x = h[j]
    PROVE  SumOf(f, X) = SumOf(g, U)
<1> DEFINE Image(T) == {h[j] : j \in T}
           K == {T \in SUBSET U : SumOf(f, Image(T)) = SumOf(g, T)}
<1>1. \A x \in X : f[x] \in Int
  OBVIOUS
<1>2. {} \in K
  <2>1. Image({}) = {}
    OBVIOUS
  <2> HIDE DEF Image
  <2> QED
    BY <2>1, SumOfNone
<1>3. ASSUME NEW T \in SUBSET U, NEW x \in U \ T, T \in K PROVE T \cup {x} \in K
  <2>1. /\ Image(T) \in SUBSET X /\ h[x] \in X \ Image(T)
        /\ Image(T \cup {x}) = Image(T) \cup {h[x]}
    OBVIOUS
  <2>2. SumOf(g, T \cup {x}) = g[x] + SumOf(g, T)
    BY SumPlus
  <2> HIDE DEF Image
  <2>3. SumOf(f, Image(T) \cup {h[x]}) = f[h[x]] + SumOf(f, Image(T))
    BY <1>1, <2>1, SumPlus
  <2> QED
    BY <2>1, <2>2, <2>3, <1>3
<1>4. Image(U) = X
  OBVIOUS
<1> HIDE DEF K
<1>5. U \in K
  BY <1>2, <1>3, SubsetInduction
<1> HIDE DEF Image
<1> QED
  BY <1>4, <1>5 DEF K

\* A sum over a set that is sorted by keys
WithKey(P, key, i) == {x \in P : key[x] = i}

LEMMA SumByKey ==
    ASSUME NEW P, IsFiniteSet(P), NEW f, \A x \in P : f[x] \in Int,
           NEW I, IsFiniteSet(I), NEW key, \A x \in P : key[x] \in I,
           NEW t, \A i \in I : t[i] = SumOf(f, WithKey(P, key, i))
    PROVE  SumOf(f, P) = SumOf(t, I)
<1> DEFINE Keyed(T) == {x \in P : key[x] \in T}
           K == {T \in SUBSET I : SumOf(f, Keyed(T)) = SumOf(t, T)}
<1>1. \A i \in I : t[i] \in Int
  <2> SUFFICES ASSUME NEW i \in I PROVE t[i] \in Int
    OBVIOUS
  <2> DEFINE X == WithKey(P, key, i)
  <2>1. X \in SUBSET P /\ t[i] = SumOf(f, X)
    BY DEF WithKey
  <2> HIDE DEF X
  <2> QED
    BY <2>1, SumType
<1>2. {} \in K
  <2>1. Keyed({}) = {}
    OBVIOUS
  <2> HIDE DEF Keyed
  <2> QED
    BY <2>1, SumOfNone
<1>3. ASSUME NEW T \in SUBSET I, NEW i \in I \ T, T \in K PROVE T \cup {i} \in K
  <2> DEFINE X == WithKey(P, key, i)
  <2>1. /\ Keyed(T) \in SUBSET P /\ X \in SUBSET P /\ Keyed(T) \cap X = {}
        /\ Keyed(T \cup {i}) = Keyed(T) \cup X
    BY DEF WithKey
  <2>2. SumOf(t, T \cup {i}) = t[i] + SumOf(t, T)
    BY <1>1, SumPlus
  <2>3. t[i] = SumOf(f, X)
    OBVIOUS
  <2> HIDE DEF Keyed, X
  <2>4. SumOf(f, Keyed(T) \cup X) = SumOf(f, Keyed(T)) + SumOf(f, X)
    BY <2>1, SumDisjoint
  <2>5. SumOf(f, Keyed(T)) \in Int /\ SumOf(f, X) \in Int
    BY <2>1, SumType
  <2>6. SumOf(f, Keyed(T)) = SumOf(t, T)
    BY <1>3
  <2>7. SumOf(f, Keyed(T \cup {i})) = SumOf(t, T \cup {i})
    <3> SUFFICES ASSUME NEW a \in Int, a = SumOf(f, Keyed(T)), NEW b \in Int, b = SumOf(f, X)
                 PROVE  SumOf(f, Keyed(T \cup {i})) = SumOf(t, T \cup {i})
      BY <2>5
    <3>1. SumOf(f, Keyed(T \cup {i})) = a + b
      BY <2>1, <2>4
    <3>2. SumOf(t, T \cup {i}) = b + a
      BY <2>2, <2>3, <2>6
    <3>3. a + b = b + a
      OBVIOUS
    <3> QED
      BY <3>1, <3>2, <3>3
  <2> QED
    BY <2>7
<1>4. Keyed(I) = P
  OBVIOUS
<1> HIDE DEF K
<1>5. I \in K
  BY <1>2, <1>3, SubsetInduction
<1> HIDE DEF Keyed
<1> QED
  BY <1>4, <1>5 DEF K

\* Counting down by one
LEMMA SumOfOnes ==
    ASSUME NEW I, IsFiniteSet(I), NEW F \in SUBSET I,
           NEW t, \A i \in I : t[i] = IF i \in F THEN -1 ELSE 0
    PROVE  SumOf(t, I) = -Cardinality(F)
<1> DEFINE K == {T \in SUBSET F : SumOf(t, T) = -Cardinality(T)}
<1>1. \A i \in I : t[i] \in Int
  OBVIOUS
<1>2. IsFiniteSet(F) /\ \A T \in SUBSET F : IsFiniteSet(T) /\ Cardinality(T) \in Nat
  BY FS_Subset, FS_CardinalityType
<1>3. {} \in K
  BY SumOfNone, FS_EmptySet
<1>4. ASSUME NEW T \in SUBSET F, NEW i \in F \ T, T \in K PROVE T \cup {i} \in K
  <2>1. SumOf(t, T \cup {i}) = t[i] + SumOf(t, T)
    BY <1>1, SumPlus
  <2>2. Cardinality(T \cup {i}) = Cardinality(T) + 1
    BY <1>2, FS_AddElement
  <2>3. t[i] = -1 /\ SumOf(t, T) = -Cardinality(T) /\ Cardinality(T) \in Nat
    BY <1>2, <1>4
  <2>4. SumOf(t, T \cup {i}) = -Cardinality(T \cup {i})
    BY <2>1, <2>2, <2>3
  <2> QED
    BY <2>4
<1> HIDE DEF K
<1>5. F \in K
  BY <1>2, <1>3, <1>4, SubsetInduction
<1>6. SumOf(t, F) = SumOf(t, I)
  BY <1>1, SumZeros
<1> QED
  BY <1>5, <1>6 DEF K

-----------------------------------------------------------------------------
(* The writes of a plan, send by send *)

Places(u) == UNION {{<<id, k>> : k \in DOMAIN u[id]} : id \in Ids}
At(u, x) == u[x[1]][x[2]]

\* the sizes and the increments of the writes
SizesOf(u) == [x \in Places(u) |-> At(u, x).size]
AddsOf(u) == [x \in Places(u) |-> At(u, x).add]

\* the places of the writes of the i-th send
Of(u, i) == {x \in Places(u) : At(u, x).send = i}

LEMMA PlacesFinite ==
    ASSUME NEW X, NEW u \in [Ids -> Seq(X)]
    PROVE  IsFiniteSet(Places(u))
<1> DEFINE In(T) == UNION {{<<id, k>> : k \in DOMAIN u[id]} : id \in T}
           K == {T \in SUBSET Ids : IsFiniteSet(In(T))}
<1>1. {} \in K
  <2>1. In({}) = {}
    OBVIOUS
  <2> HIDE DEF In
  <2> QED
    BY <2>1, FS_EmptySet
<1>2. ASSUME NEW T \in SUBSET Ids, NEW id \in Ids \ T, T \in K PROVE T \cup {id} \in K
  <2>1. In(T \cup {id}) = In(T) \cup ({id} \X DOMAIN u[id])
    <3>1. \A R, x : x \in In(R) <=> \E d \in R : \E k \in DOMAIN u[d] : x = <<d, k>>
      OBVIOUS
    <3>2. \A x : x \in {id} \X DOMAIN u[id] <=> \E k \in DOMAIN u[id] : x = <<id, k>>
      OBVIOUS
    <3> HIDE DEF In
    <3>3. \A x : x \in In(T \cup {id}) <=> x \in In(T) \/ \E k \in DOMAIN u[id] : x = <<id, k>>
      BY <3>1
    <3> DEFINE A == {id} \X DOMAIN u[id]
    <3>4. \A x : x \in In(T \cup {id}) <=> x \in In(T) \/ x \in A
      BY <3>2, <3>3
    <3> HIDE DEF A
    <3>5. In(T \cup {id}) = In(T) \cup A
      BY <3>4
    <3> QED
      BY <3>5 DEF A
  <2>2. IsFiniteSet({id} \X DOMAIN u[id])
    <3>1. Len(u[id]) \in Nat /\ DOMAIN u[id] = 1 .. Len(u[id])
      OBVIOUS
    <3>2. IsFiniteSet(DOMAIN u[id])
      BY <3>1, FS_Interval
    <3> QED
      BY <3>2, FS_Singleton, FS_Product
  <2>3. IsFiniteSet(In(T))
    BY <1>2
  <2> HIDE DEF In
  <2>4. IsFiniteSet(In(T) \cup ({id} \X DOMAIN u[id]))
    BY <2>2, <2>3, FS_Union
  <2> QED
    BY <2>1, <2>4
<1>3. IsFiniteSet(Ids)
  <2>1. \A n \in Nat : IsFiniteSet(0 .. n - 1)
    BY UpToFinite
  <2>2. NumChannels["inter"] \in Nat /\ NumChannels["intra"] \in Nat
    BY SplitAssumption DEF Sides
  <2>5. PICK p \in Nat : p = NumChannels["inter"]
    BY <2>2
  <2>6. PICK q \in Nat : q = NumChannels["intra"]
    BY <2>2
  <2>3. PICK n \in Nat : n = p + q
    OBVIOUS
  <2>7. Ids = 0 .. p + q - 1
    BY <2>5, <2>6 DEF Ids
  <2>8. p + q - 1 = n - 1
    BY <2>3
  <2>4. Ids = 0 .. n - 1
    BY <2>7, <2>8
  <2> QED
    BY <2>1, <2>4
<1> HIDE DEF K
<1>4. Ids \in K
  BY <1>1, <1>2, <1>3, SubsetInduction
<1> HIDE DEF In
<1>5. IsFiniteSet(In(Ids))
  BY <1>4 DEF K
<1> QED
  BY <1>5 DEF In, Places

\* Where the rotation stood before the sends, for writes that follow the arguments
Following(r, a, at, u) ==
    /\ \A i \in DOMAIN a.sends : at[i] \in Channels(SideOf(r, a, i))
    /\ Cast(r, a, at, u, Len(a.sends))

\* Every write is that of a part of one of the sends.
LEMMA PlaceOfPart ==
    ASSUME NEW r \in Ranks, NEW a, Arguments(a), NEW at, NEW u, Following(r, a, at, u),
           NEW x \in Places(u)
    PROVE  \E i \in DOMAIN a.sends : \E j \in UsedAt(r, a, at, i) :
             /\ SizeOf(a, i) # 0 /\ x[1] = Id(SideOf(r, a, i), j)
             /\ At(u, x) = Asked(r, a, i, at[i], j) /\ At(u, x).send = i
<1>1. DOMAIN a.sends = 1 .. Len(a.sends)
  BY ArgumentFacts
<1>2. PICK id \in Ids : \E k \in DOMAIN u[id] : x = <<id, k>>
  BY DEF Places
<1>3. PICK k \in DOMAIN u[id] : x = <<id, k>>
  BY <1>2
<1>4. FromPart(r, a, at, Len(a.sends), id, u[id][k])
  BY <1>2 DEF Following, Cast
<1>5. At(u, x) = u[id][k] /\ x[1] = id
  BY <1>3 DEF At
<1>6. \A h, c, l : Asked(r, a, h, c, l).send = h
  BY DEF Asked
<1> QED
  BY <1>1, <1>4, <1>5, <1>6 DEF FromPart

\* The writes of a send correspond to its parts that are not empty.
Corresponds(r, a, at, u, i, h) ==
    /\ \A j \in UsedAt(r, a, at, i) : h[j] \in Of(u, i) /\ At(u, h[j]) = Asked(r, a, i, at[i], j)
    /\ \A j, k \in UsedAt(r, a, at, i) : h[j] = h[k] => j = k
    /\ \A x \in Of(u, i) : \E j \in UsedAt(r, a, at, i) : x = h[j]

LEMMA PartsCorrespond ==
    ASSUME NEW r \in Ranks, NEW a, Arguments(a), NEW at, NEW u, Following(r, a, at, u),
           NEW i \in DOMAIN a.sends, SizeOf(a, i) # 0
    PROVE  \E h : Corresponds(r, a, at, u, i, h)
<1> DEFINE side == SideOf(r, a, i)
           used == UsedAt(r, a, at, i)
           is(j, k) == k \in DOMAIN u[Id(side, j)] /\ u[Id(side, j)][k].send = i
           pos(j) == CHOOSE k : is(j, k)
           h == [j \in used |-> <<Id(side, j), pos(j)>>]
<1>1. DOMAIN a.sends = 1 .. Len(a.sends) /\ side \in Sides /\ SizeOf(a, i) \in Nat \ {0}
  BY ArgumentFacts
<1>2. used \subseteq Channels(side)
  BY <1>1, PartsExact DEF UsedAt, PartsAt, Parts, Following
<1>3. /\ \A j \in used : Id(side, j) \in Ids
      /\ \A j, k \in used : Id(side, j) = Id(side, k) => j = k
  BY <1>1, <1>2, IdFacts
<1>4. \A j \in used : OneWrite(u[Id(side, j)], i)
  BY <1>1 DEF Following, Cast
<1>5. \A j \in used : is(j, pos(j)) /\ \A k : is(j, k) => k = pos(j)
  <2> SUFFICES ASSUME NEW j \in used PROVE is(j, pos(j)) /\ \A k : is(j, k) => k = pos(j)
    OBVIOUS
  <2>1. PICK k : is(j, k) /\ \A l : is(j, l) => l = k
    BY <1>4 DEF OneWrite
  <2> HIDE DEF is
  <2>2. is(j, pos(j))
    BY <2>1, Zenon
  <2> QED
    BY <2>1, <2>2
<1>6. \A j \in used : h[j] = <<Id(side, j), pos(j)>>
  OBVIOUS
<1> HIDE DEF pos, h, used, side
<1>7. \A j \in used : h[j] \in Of(u, i)
  <2> SUFFICES ASSUME NEW j \in used PROVE h[j] \in Of(u, i)
    OBVIOUS
  <2>1. Id(side, j) \in Ids /\ pos(j) \in DOMAIN u[Id(side, j)] /\ u[Id(side, j)][pos(j)].send = i
    BY <1>3, <1>5
  <2>2. h[j] \in Places(u) /\ At(u, h[j]) = u[Id(side, j)][pos(j)]
    BY <2>1, <1>6 DEF Places, At
  <2> QED
    BY <2>1, <2>2 DEF Of
<1>8. \A x \in Of(u, i) : \E j \in used :
        x[1] = Id(side, j) /\ At(u, x) = Asked(r, a, i, at[i], j)
  <2> SUFFICES ASSUME NEW x \in Of(u, i)
               PROVE  \E j \in used : x[1] = Id(side, j) /\ At(u, x) = Asked(r, a, i, at[i], j)
    OBVIOUS
  <2>1. x \in Places(u) /\ At(u, x).send = i
    BY DEF Of
  <2>2. PICK l \in DOMAIN a.sends : \E j \in UsedAt(r, a, at, l) :
          /\ SizeOf(a, l) # 0 /\ x[1] = Id(SideOf(r, a, l), j)
          /\ At(u, x) = Asked(r, a, l, at[l], j) /\ At(u, x).send = l
    BY <2>1, PlaceOfPart
  <2>3. l = i
    BY <2>1, <2>2
  <2> QED
    BY <2>2, <2>3 DEF used, side
<1>9. \A j \in used : At(u, h[j]) = Asked(r, a, i, at[i], j)
  <2> SUFFICES ASSUME NEW j \in used PROVE At(u, h[j]) = Asked(r, a, i, at[i], j)
    OBVIOUS
  <2>1. PICK l \in used : h[j][1] = Id(side, l) /\ At(u, h[j]) = Asked(r, a, i, at[i], l)
    BY <1>7, <1>8
  <2>2. l = j
    BY <2>1, <1>3, <1>6
  <2> QED
    BY <2>1, <2>2
<1>10. \A j, k \in used : h[j] = h[k] => j = k
  BY <1>3, <1>6
<1>11. ASSUME NEW x \in Of(u, i) PROVE \E j \in used : x = h[j]
  <2>1. PICK j \in used : x[1] = Id(side, j)
    BY <1>8
  <2>5. PICK id \in Ids : \E k \in DOMAIN u[id] : x = <<id, k>>
    BY <1>11 DEF Of, Places
  <2>2. PICK k \in DOMAIN u[id] : x = <<id, k>>
    BY <2>5
  <2>3. id = Id(side, j) /\ u[id][k].send = i
    BY <1>11, <2>1, <2>2 DEF Of, At
  <2>4. k = pos(j)
    BY <2>2, <2>3, <1>5
  <2> QED
    BY <2>2, <2>3, <2>4, <1>6
<1>12. Corresponds(r, a, at, u, i, h)
  BY <1>7, <1>9, <1>10, <1>11 DEF Corresponds, used
<1> QED
  BY <1>12

\* The parts that are not empty add up to the message.
LEMMA PartsTotal ==
    ASSUME NEW side \in Sides, NEW size \in Nat, NEW c \in Channels(side),
           NEW parts, parts = DivSize(side, size, c)
    PROVE  SumOf(parts, Used(parts)) = size
<1>1. /\ parts \in [Channels(side) -> Nat] /\ Total(NumChannels[side] - 1, parts) = size
  BY PartsFacts
<1>2. PICK n \in Nat : n = NumChannels[side] - 1 /\ Channels(side) = 0 .. n
  BY SideFacts
<1>3. parts \in [0 .. n -> Nat] /\ Total(n, parts) = size
  BY <1>1, <1>2
<1>4. /\ IsFiniteSet(0 .. n) /\ Used(parts) \in SUBSET (0 .. n)
      /\ \A j \in 0 .. n : parts[j] \in Int /\ (j \notin Used(parts) => parts[j] = 0)
  <2>1. IsFiniteSet(0 .. n)
    BY UpToFinite
  <2> QED
    BY <1>3, <2>1 DEF Used
<1>5. SumOf(parts, Used(parts)) = SumOf(parts, 0 .. n)
  BY <1>4, SumZeros
<1> DEFINE off == DivOffset(parts)
           S == {m \in 0 .. n : SumOf(parts, 0 .. m) = off[m] + parts[m]}
<1>6. /\ off \in [0 .. n -> Nat] /\ off[0] = 0
      /\ \A j \in 0 .. n : j # n => off[j + 1] = off[j] + parts[j]
  BY <1>3, OffsetFacts
<1> HIDE DEF off
<1>7. 0 \in S
  <2>1. 0 .. 0 = {0} /\ parts[0] \in Int
    BY <1>4
  <2>2. SumOf(parts, {0}) = parts[0]
    BY <2>1, SumOne
  <2> QED
    BY <2>1, <2>2, <1>6
<1>8. ASSUME NEW m \in 0 .. n, m # n, m \in S PROVE m + 1 \in S
  <2>1. /\ 0 .. m \in SUBSET (0 .. n) /\ m + 1 \in (0 .. n) \ (0 .. m)
        /\ 0 .. m + 1 = (0 .. m) \cup {m + 1}
    BY <1>8
  <2>2. SumOf(parts, (0 .. m) \cup {m + 1}) = parts[m + 1] + SumOf(parts, 0 .. m)
    <3> SUFFICES ASSUME NEW Z, Z = 0 .. n, NEW T, T = 0 .. m, NEW y, y = m + 1
                 PROVE  SumOf(parts, T \cup {y}) = parts[y] + SumOf(parts, T)
      OBVIOUS
    <3>1. IsFiniteSet(Z) /\ T \in SUBSET Z /\ y \in Z \ T /\ \A j \in Z : parts[j] \in Int
      BY <1>4, <2>1
    <3> QED
      BY ONLY <3>1, SumPlus
  <2>3. off[m] \in Nat /\ off[m + 1] = off[m] + parts[m] /\ parts[m] \in Nat /\ parts[m + 1] \in Nat
    BY <1>3, <1>6, <1>8, <2>1
  <2>4. SumOf(parts, 0 .. m + 1) = off[m + 1] + parts[m + 1]
    <3>1. SumOf(parts, 0 .. m) = off[m] + parts[m]
      BY <1>8
    <3>2. SumOf(parts, 0 .. m + 1) = parts[m + 1] + SumOf(parts, 0 .. m)
      BY <2>1, <2>2
    <3>3. parts[m + 1] + (off[m] + parts[m]) = off[m + 1] + parts[m + 1]
      BY <2>3
    <3> QED
      BY <3>1, <3>2, <3>3
  <2> QED
    BY <2>1, <2>4
<1> HIDE DEF S
<1>9. n \in S
  <2>1. \A m \in 0 .. n : m # n /\ m \in S => m + 1 \in S
    BY <1>8
  <2>2. \A m \in 0 .. n : m \in S
    BY <1>7, <2>1, ChannelInduction
  <2> QED
    BY <2>2
<1> QED
  BY <1>3, <1>5, <1>9 DEF S, Total, off

\* The sizes and the increments of the writes of a send add up to its size and
\* to one event.
LEMMA SendSums ==
    ASSUME NEW r \in Ranks, NEW a, Arguments(a), NEW at, NEW u, Following(r, a, at, u),
           NEW i \in DOMAIN a.sends
    PROVE  /\ SumOf(SizesOf(u), Of(u, i)) = SizeOf(a, i)
           /\ SumOf(AddsOf(u), Of(u, i)) = IF SizeOf(a, i) = 0 THEN 0 ELSE -1
<1> DEFINE size == SizesOf(u)
           add == AddsOf(u)
           parts == PartsAt(r, a, at, i)
           incr == SigAddArr(parts)
<1>1. CASE SizeOf(a, i) = 0
  <2>1. Of(u, i) = {}
    <3> SUFFICES ASSUME NEW x \in Of(u, i) PROVE FALSE
      OBVIOUS
    <3>1. x \in Places(u) /\ At(u, x).send = i
      BY DEF Of
    <3> QED
      BY <3>1, <1>1, PlaceOfPart
  <2> QED
    BY <1>1, <2>1, SumOfNone
<1>2. CASE SizeOf(a, i) # 0
  <2>1. PICK h : Corresponds(r, a, at, u, i, h)
    BY <1>2, PartsCorrespond
  <2>2. /\ SideOf(r, a, i) \in Sides /\ SizeOf(a, i) \in Nat \ {0}
        /\ at[i] \in Channels(SideOf(r, a, i))
    BY <1>2, ArgumentFacts DEF Following
  <2>3. parts = DivSize(SideOf(r, a, i), SizeOf(a, i), at[i])
    BY DEF PartsAt, Parts
  <2>4. /\ parts \in [Channels(SideOf(r, a, i)) -> Nat]
        /\ Used(parts) \subseteq Channels(SideOf(r, a, i))
        /\ OneEvent(parts, incr)
    BY <2>2, <2>3, PartsExact DEF Exact
  <2>5. SumOf(parts, Used(parts)) = SizeOf(a, i)
    BY <2>2, <2>3, PartsTotal
  <2>6. SumOf(incr, Used(parts)) = -1
    BY <2>4 DEF OneEvent
  <2>7. IsFiniteSet(Used(parts)) /\ Cardinality(Used(parts)) \in Nat
    <3>1. PICK n \in Nat : Channels(SideOf(r, a, i)) = 0 .. n
      BY <2>2, SideFacts
    <3> QED
      <4>1. IsFiniteSet(0 .. n) /\ Used(parts) \subseteq 0 .. n
        BY <3>1, <2>4, UpToFinite
      <4> QED
        BY <4>1, FS_Subset, FS_CardinalityType
  <2>8. IsFiniteSet(Of(u, i)) /\ \A x \in Of(u, i) : x \in Places(u)
    BY PlacesFinite, FS_Subset DEF Of, Following, Cast
  <2>9. \A j \in Used(parts) :
          /\ h[j] \in Of(u, i) /\ parts[j] \in Int /\ incr[j] \in Int
          /\ size[h[j]] = parts[j] /\ add[h[j]] = incr[j]
    <3> SUFFICES ASSUME NEW j \in Used(parts)
                 PROVE  /\ h[j] \in Of(u, i) /\ parts[j] \in Int /\ incr[j] \in Int
                        /\ size[h[j]] = parts[j] /\ add[h[j]] = incr[j]
      OBVIOUS
    <3>1. h[j] \in Of(u, i) /\ At(u, h[j]) = Asked(r, a, i, at[i], j)
      BY <2>1 DEF Corresponds, UsedAt
    <3>2. At(u, h[j]).size = parts[j] /\ At(u, h[j]).add = incr[j]
      BY <3>1 DEF Asked, PartsAt
    <3>3. size[h[j]] = parts[j] /\ add[h[j]] = incr[j]
      BY <3>1, <3>2, <2>8 DEF SizesOf, AddsOf
    <3>4. j \in DOMAIN parts /\ parts[j] \in Int
      BY <2>4
    <3> HIDE DEF parts
    <3>5. incr[j] \in {0, -1 + W * (Cardinality(Used(parts)) - 1), -W}
      BY <3>4 DEF SigAddArr, Used
    <3>6. W * (Cardinality(Used(parts)) - 1) \in Int /\ W \in Int
      BY <2>7, SplitAssumption
    <3>7. incr[j] \in Int
      BY <3>5, <3>6
    <3> QED
      BY <3>1, <3>3, <3>4, <3>7
  <2>10. /\ \A j, k \in Used(parts) : h[j] = h[k] => j = k
         /\ \A x \in Of(u, i) : \E j \in Used(parts) : x = h[j]
    BY <2>1 DEF Corresponds, UsedAt
  <2> HIDE DEF parts, incr, size, add
  <2>11. SumOf(size, Of(u, i)) = SumOf(parts, Used(parts))
    BY <2>7, <2>8, <2>9, <2>10, SumReindex
  <2>12. SumOf(add, Of(u, i)) = SumOf(incr, Used(parts))
    BY <2>7, <2>8, <2>9, <2>10, SumReindex
  <2>13. SumOf(size, Of(u, i)) = SizeOf(a, i) /\ SumOf(add, Of(u, i)) = -1
    BY <2>5, <2>6, <2>11, <2>12
  <2> QED
    BY <2>13, <1>2 DEF size, add
<1> QED
  BY <1>1, <1>2

\* What there is at the place of a write
LEMMA PlaceTypes ==
    ASSUME NEW r \in Ranks, NEW a, Arguments(a), NEW at, NEW u, Following(r, a, at, u),
           NEW x \in Places(u)
    PROVE  At(u, x).send \in DOMAIN a.sends /\ At(u, x).size \in Nat /\ At(u, x).add \in Int
<1>1. PICK i \in DOMAIN a.sends : \E j \in UsedAt(r, a, at, i) :
        /\ SizeOf(a, i) # 0 /\ At(u, x) = Asked(r, a, i, at[i], j) /\ At(u, x).send = i
  BY PlaceOfPart
<1>2. PICK j \in UsedAt(r, a, at, i) : At(u, x) = Asked(r, a, i, at[i], j)
  BY <1>1
<1> DEFINE parts == PartsAt(r, a, at, i)
           incr == SigAddArr(parts)
<1>3. At(u, x).size = parts[j] /\ At(u, x).add = incr[j]
  BY <1>2 DEF Asked, PartsAt
<1>4. /\ SideOf(r, a, i) \in Sides /\ SizeOf(a, i) \in Nat \ {0}
      /\ at[i] \in Channels(SideOf(r, a, i))
  BY <1>1, ArgumentFacts DEF Following
<1>5. /\ parts \in [Channels(SideOf(r, a, i)) -> Nat]
      /\ Used(parts) \subseteq Channels(SideOf(r, a, i))
  BY <1>4, PartsExact DEF PartsAt, Parts
<1>6. Cardinality(Used(parts)) \in Nat
  <2>1. PICK n \in Nat : Channels(SideOf(r, a, i)) = 0 .. n
    BY <1>4, SideFacts
  <2>2. IsFiniteSet(0 .. n) /\ Used(parts) \subseteq 0 .. n
    BY <2>1, <1>5, UpToFinite
  <2> QED
    BY <2>2, FS_Subset, FS_CardinalityType
<1>7. j \in Used(parts) /\ j \in DOMAIN parts /\ parts[j] \in Nat
  BY <1>5 DEF UsedAt
<1> HIDE DEF parts
<1>8. incr[j] \in {0, -1 + W * (Cardinality(Used(parts)) - 1), -W}
  BY <1>7 DEF SigAddArr, Used
<1>9. W * (Cardinality(Used(parts)) - 1) \in Int /\ W \in Int
  BY <1>6, SplitAssumption
<1>10. incr[j] \in Int
  BY <1>8, <1>9
<1> QED
  BY <1>1, <1>3, <1>7, <1>10

\* the places of the writes of some of the sends, and those that have any
Sent(u, F) == {x \in Places(u) : At(u, x).send \in F}
NonEmpty(a, F) == {i \in F : SizeOf(a, i) # 0}

\* The writes of some of the sends decrement by one for each that is not empty.
LEMMA EventsOf ==
    ASSUME NEW r \in Ranks, NEW a, Arguments(a), NEW at, NEW u, Following(r, a, at, u),
           NEW F \in SUBSET (DOMAIN a.sends)
    PROVE  SumOf(AddsOf(u), Sent(u, F)) = -Cardinality(NonEmpty(a, F))
<1> DEFINE add == AddsOf(u)
           P == {x \in Places(u) : At(u, x).send \in F}
           I == DOMAIN a.sends
           key == [x \in Places(u) |-> At(u, x).send]
           t == [i \in I |-> SumOf(add, WithKey(P, key, i))]
           E == {i \in F : SizeOf(a, i) # 0}
<1>1. IsFiniteSet(Places(u))
  BY PlacesFinite DEF Following, Cast
<1>2. IsFiniteSet(P) /\ \A x \in P : add[x] \in Int /\ key[x] \in I
  <2>1. P \in SUBSET Places(u)
    OBVIOUS
  <2>2. IsFiniteSet(P)
    BY <1>1, <2>1, FS_Subset
  <2>3. \A x \in Places(u) : add[x] \in Int /\ key[x] \in I
    BY PlaceTypes DEF AddsOf
  <2> QED
    BY <2>1, <2>2, <2>3
<1>3. IsFiniteSet(I)
  BY SendsFinite
<1>4. \A i \in I : t[i] = IF i \in E THEN -1 ELSE 0
  <2> SUFFICES ASSUME NEW i \in I PROVE t[i] = IF i \in E THEN -1 ELSE 0
    OBVIOUS
  <2> DEFINE X == WithKey(P, key, i)
  <2>1. t[i] = SumOf(add, X)
    OBVIOUS
  <2>2. CASE i \in F
    <3>1. X = Of(u, i)
      BY <2>2 DEF Of, WithKey
    <3>2. SumOf(add, Of(u, i)) = IF SizeOf(a, i) = 0 THEN 0 ELSE -1
      BY SendSums
    <3> HIDE DEF X, t, add
    <3> QED
      BY <2>1, <2>2, <3>1, <3>2
  <2>3. CASE i \notin F
    <3>1. X = {}
      BY <2>3 DEF WithKey
    <3> HIDE DEF X, t, add
    <3> QED
      BY <2>1, <2>3, <3>1, SumOfNone
  <2> QED
    BY <2>2, <2>3
<1>5. \A i \in I : t[i] = SumOf(add, WithKey(P, key, i))
  OBVIOUS
<1> HIDE DEF t, add, P, key, I
<1>6. SumOf(add, P) = SumOf(t, I)
  BY <1>2, <1>3, <1>5, SumByKey
<1>7. E \in SUBSET I
  BY DEF I
<1> HIDE DEF E
<1>8. SumOf(t, I) = -Cardinality(E)
  BY <1>3, <1>4, <1>7, SumOfOnes
<1> QED
  BY <1>6, <1>8 DEF P, add, E, Sent, NonEmpty

\* All writes of a plan have the size of its sends.
LEMMA BytesOf ==
    ASSUME NEW r \in Ranks, NEW a, Arguments(a), NEW at, NEW u, Following(r, a, at, u)
    PROVE  SumOf(SizesOf(u), Places(u))
             = SumOf([i \in DOMAIN a.sends |-> SizeOf(a, i)], DOMAIN a.sends)
<1> DEFINE size == SizesOf(u)
           I == DOMAIN a.sends
           key == [x \in Places(u) |-> At(u, x).send]
           t == [i \in I |-> SizeOf(a, i)]
           P == Places(u)
<1>1. IsFiniteSet(P)
  BY PlacesFinite DEF Following, Cast
<1>2. \A x \in P : size[x] \in Int /\ key[x] \in I
  BY PlaceTypes DEF SizesOf
<1>3. IsFiniteSet(I)
  BY SendsFinite
<1>4. \A i \in I : t[i] = SumOf(size, WithKey(P, key, i))
  <2> SUFFICES ASSUME NEW i \in I PROVE t[i] = SumOf(size, WithKey(P, key, i))
    OBVIOUS
  <2>1. WithKey(P, key, i) = Of(u, i)
    BY DEF Of, WithKey
  <2>2. SumOf(size, Of(u, i)) = SizeOf(a, i)
    BY SendSums
  <2>3. t[i] = SizeOf(a, i)
    OBVIOUS
  <2> HIDE DEF t, key, P
  <2> QED
    BY <2>1, <2>2, <2>3
<1> HIDE DEF t, size, key, P, I
<1>5. SumOf(size, P) = SumOf(t, I)
  BY <1>1, <1>2, <1>3, <1>4, SumByKey
<1> QED
  BY <1>5 DEF size, P, t, I

\* A byte of a send travels with a write.
Carries(r, a, i, b, w) ==
    /\ w.send = i /\ w.dma = a.sends[i].dma
    /\ w.loc = <<r, a.sends[i].loc.mem>>
    /\ w.rmt = <<a.sends[i].rmt.rank, a.sends[i].rmt.mem>>
    /\ b + LocBase(a, i) \in w.locOff .. w.locOff + w.size - 1
    /\ b + RmtBase(a, i) \in w.rmtOff .. w.rmtOff + w.size - 1

LEMMA ByteOnce ==
    ASSUME NEW r \in Ranks, NEW a, Arguments(a), NEW at, NEW u, Following(r, a, at, u),
           NEW i \in DOMAIN a.sends, NEW b \in 0 .. SizeOf(a, i) - 1
    PROVE  Cardinality({x \in Places(u) : Carries(r, a, i, b, At(u, x))}) = 1
<1> DEFINE side == SideOf(r, a, i)
           parts == PartsAt(r, a, at, i)
           off == DivOffset(parts)
           Here == {j \in Used(parts) : off[j] <= b /\ b < off[j] + parts[j]}
<1>1. /\ side \in Sides /\ SizeOf(a, i) \in Nat /\ at[i] \in Channels(side)
      /\ LocBase(a, i) \in Nat /\ RmtBase(a, i) \in Nat
  BY ArgumentFacts DEF Following
<1>2. SizeOf(a, i) \in Nat \ {0} /\ b \in Nat
  BY <1>1
<1>3. parts = DivSize(side, SizeOf(a, i), at[i])
  BY DEF PartsAt, Parts
<1>4. /\ parts \in [Channels(side) -> Nat] /\ Used(parts) \subseteq Channels(side)
      /\ Tiled(SizeOf(a, i), parts)
  BY <1>1, <1>2, <1>3, PartsExact DEF Exact
<1>5. Cardinality(Here) = 1
  BY <1>4 DEF Tiled
<1>6. PICK n \in Nat : Channels(side) = 0 .. n
  BY <1>1, SideFacts
<1>7. parts \in [0 .. n -> Nat]
  BY <1>4, <1>6
<1>8. off \in [0 .. n -> Nat]
  BY <1>7, OffsetFacts
<1>9. \A j \in Used(parts) : off[j] \in Nat /\ parts[j] \in Nat
  BY <1>4, <1>6, <1>7, <1>8
<1>10. IsFiniteSet(Here)
  <2>1. IsFiniteSet(0 .. n) /\ Here \subseteq 0 .. n
    BY <1>4, <1>6, UpToFinite
  <2> QED
    BY <2>1, FS_Subset
<1>11. PICK k : Here = {k}
  <2> HIDE DEF Here
  <2> QED
    BY <1>5, <1>10, FS_Singleton
<1>12. PICK h : Corresponds(r, a, at, u, i, h)
  BY <1>2, PartsCorrespond
<1>13. \A j \in Used(parts) :
         LET w == At(u, h[j]) IN
         /\ h[j] \in Of(u, i) /\ w.send = i /\ w.dma = a.sends[i].dma
         /\ w.loc = <<r, a.sends[i].loc.mem>>
         /\ w.rmt = <<a.sends[i].rmt.rank, a.sends[i].rmt.mem>>
         /\ w.size = parts[j] /\ w.locOff = LocBase(a, i) + off[j]
         /\ w.rmtOff = RmtBase(a, i) + off[j]
  <2> SUFFICES ASSUME NEW j \in Used(parts), NEW w, w = At(u, h[j])
               PROVE  /\ h[j] \in Of(u, i) /\ w.send = i /\ w.dma = a.sends[i].dma
                      /\ w.loc = <<r, a.sends[i].loc.mem>>
                      /\ w.rmt = <<a.sends[i].rmt.rank, a.sends[i].rmt.mem>>
                      /\ w.size = parts[j] /\ w.locOff = LocBase(a, i) + off[j]
                      /\ w.rmtOff = RmtBase(a, i) + off[j]
    OBVIOUS
  <2>1. h[j] \in Of(u, i) /\ w = Asked(r, a, i, at[i], j)
    BY <1>12 DEF Corresponds, UsedAt
  <2> QED
    BY <2>1 DEF Asked, PartsAt
<1>14. \A j \in Used(parts) : Carries(r, a, i, b, At(u, h[j])) <=> j \in Here
  <2> SUFFICES ASSUME NEW j \in Used(parts), NEW w, w = At(u, h[j])
               PROVE  Carries(r, a, i, b, w) <=> j \in Here
    OBVIOUS
  <2> SUFFICES ASSUME NEW o \in Nat, o = off[j], NEW s \in Nat, s = parts[j],
                      NEW l \in Nat, l = LocBase(a, i), NEW m \in Nat, m = RmtBase(a, i)
               PROVE  Carries(r, a, i, b, w) <=> o <= b /\ b < o + s
    BY <1>1, <1>9
  <2>1. w.size = s /\ w.locOff = l + o /\ w.rmtOff = m + o
    BY <1>13
  <2>2. /\ b + l \in l + o .. l + o + s - 1 <=> o <= b /\ b < o + s
        /\ b + m \in m + o .. m + o + s - 1 <=> o <= b /\ b < o + s
    BY <1>2
  <2>3. /\ w.send = i /\ w.dma = a.sends[i].dma
        /\ w.loc = <<r, a.sends[i].loc.mem>>
        /\ w.rmt = <<a.sends[i].rmt.rank, a.sends[i].rmt.mem>>
    BY <1>13
  <2> QED
    BY <2>1, <2>2, <2>3 DEF Carries
<1> DEFINE X == {x \in Places(u) : Carries(r, a, i, b, At(u, x))}
<1>15. \A x \in X : \E j \in Used(parts) : x = h[j]
  <2> SUFFICES ASSUME NEW x \in X PROVE \E j \in Used(parts) : x = h[j]
    OBVIOUS
  <2>1. x \in Of(u, i)
    BY DEF Of, Carries
  <2> QED
    BY <2>1, <1>12 DEF Corresponds, UsedAt
<1>16. k \in Used(parts) /\ k \in Here /\ \A j \in Here : j = k
  BY <1>11
<1> HIDE DEF Here, parts
<1>17. X = {h[k]}
  <2>1. h[k] \in X
    BY <1>13, <1>14, <1>16 DEF Of
  <2>2. ASSUME NEW x \in X PROVE x = h[k]
    BY <1>14, <1>15, <1>16
  <2> QED
    BY <2>1, <2>2
<1> HIDE DEF X
<1>18. Cardinality(X) = 1
  BY <1>17, FS_Singleton
<1> QED
  BY <1>18 DEF X

\* A plan that has been built follows the arguments of its call.
LEMMA BuiltPlan ==
    ASSUME BuiltInv, NEW p \in Plans, Built(p)
    PROVE  /\ Owner[p] \in Ranks /\ Arguments(given[p])
           /\ Writes(p) = Places(uri[p]) /\ \A x : Wr(p, x) = At(uri[p], x)
           /\ \E at : Following(Owner[p], given[p], at, uri[p])
<1>1. given[p] \in Args[p] /\ Follows(Owner[p], given[p], uri[p])
  BY DEF BuiltInv
<1>2. Owner[p] \in Ranks /\ Arguments(given[p])
  BY <1>1, PlanAssumption
<1>3. \E at : Following(Owner[p], given[p], at, uri[p])
  BY <1>1 DEF Follows, Following
<1>4. Writes(p) = Places(uri[p]) /\ \A x : Wr(p, x) = At(uri[p], x)
  BY DEF Writes, Wr, Places, At
<1> QED
  BY <1>2, <1>3, <1>4

\* A plan that is executed writes every byte of every send of the call that
\* created it once, from and to the blocks that the call named, and nothing
\* else, however late it was built.
THEOREM PlansAreAsAsked == Spec => []AsAsked
<1>1. BuiltInv => AsAsked
  <2> SUFFICES ASSUME BuiltInv, NEW p \in Plans, Built(p), NEW a, a = given[p],
                      NEW u, u = uri[p], NEW r, r = Owner[p]
               PROVE  /\ \A i \in DOMAIN a.sends : \A b \in Bytes(p, i) :
                           Cardinality({x \in Writes(p) : Carries(r, a, i, b, Wr(p, x))}) = 1
                      /\ SumOf([x \in Writes(p) |-> Wr(p, x).size], Writes(p))
                           = SumOf([i \in DOMAIN a.sends |-> SizeOf(a, i)], DOMAIN a.sends)
    BY DEF AsAsked, Carries
  <2>1. /\ r \in Ranks /\ Arguments(a)
        /\ Writes(p) = Places(u) /\ \A x : Wr(p, x) = At(u, x)
        /\ \E at : Following(r, a, at, u)
    BY BuiltPlan
  <2>2. PICK at : Following(r, a, at, u)
    BY <2>1
  <2>3. \A i \in DOMAIN a.sends : \A b \in Bytes(p, i) :
          Cardinality({x \in Writes(p) : Carries(r, a, i, b, Wr(p, x))}) = 1
    <3> SUFFICES ASSUME NEW i \in DOMAIN a.sends, NEW b \in Bytes(p, i)
                 PROVE  Cardinality({x \in Writes(p) : Carries(r, a, i, b, Wr(p, x))}) = 1
      OBVIOUS
    <3>1. b \in 0 .. SizeOf(a, i) - 1
      BY DEF Bytes
    <3>2. {x \in Writes(p) : Carries(r, a, i, b, Wr(p, x))}
            = {x \in Places(u) : Carries(r, a, i, b, At(u, x))}
      BY <2>1
    <3> QED
      BY <2>1, <2>2, <3>1, <3>2, ByteOnce
  <2>4. [x \in Writes(p) |-> Wr(p, x).size] = SizesOf(u)
    BY <2>1 DEF SizesOf
  <2>5. SumOf(SizesOf(u), Places(u))
          = SumOf([i \in DOMAIN a.sends |-> SizeOf(a, i)], DOMAIN a.sends)
    BY <2>1, <2>2, BytesOf
  <2> QED
    BY <2>1, <2>3, <2>4, <2>5
<1> QED
  BY <1>1, BuiltInvariant, PTL

\* Two pairs of sets of which one part is exchanged
LEMMA Exchanged ==
    ASSUME NEW S, IsFiniteSet(S), NEW E, NEW A \in SUBSET S, NEW B \in SUBSET S,
           NEW C \in SUBSET S, NEW D \in SUBSET S,
           A \cap E = C \cap E, B \cap E = D \cap E, A \ E = D \ E, B \ E = C \ E
    PROVE  Cardinality(A) + Cardinality(B) = Cardinality(C) + Cardinality(D)
<1>1. \A T \in SUBSET S : /\ Cardinality(T) \in Nat
                          /\ Cardinality(T \cap E) \in Nat /\ Cardinality(T \ E) \in Nat
                          /\ Cardinality(T) = Cardinality(T \cap E) + Cardinality(T \ E)
  <2> SUFFICES ASSUME NEW T \in SUBSET S
               PROVE  /\ Cardinality(T) \in Nat
                      /\ Cardinality(T \cap E) \in Nat /\ Cardinality(T \ E) \in Nat
                      /\ Cardinality(T) = Cardinality(T \cap E) + Cardinality(T \ E)
    OBVIOUS
  <2>1. IsFiniteSet(T)
    BY FS_Subset
  <2>2. IsFiniteSet(T \cap E) /\ IsFiniteSet(T \ E)
    BY <2>1, FS_Subset
  <2>3. Cardinality((T \cap E) \cup (T \ E))
          = Cardinality(T \cap E) + Cardinality(T \ E) - Cardinality((T \cap E) \cap (T \ E))
    BY <2>2, FS_Union
  <2>4. (T \cap E) \cup (T \ E) = T /\ (T \cap E) \cap (T \ E) = {}
    OBVIOUS
  <2>5. Cardinality({}) = 0
    BY FS_EmptySet
  <2>6. Cardinality(T) \in Nat /\ Cardinality(T \cap E) \in Nat /\ Cardinality(T \ E) \in Nat
    BY <2>1, <2>2, FS_CardinalityType
  <2>7. Cardinality(T) = Cardinality(T \cap E) + Cardinality(T \ E) - 0
    BY <2>3, <2>4, <2>5
  <2> QED
    BY <2>6, <2>7
<1> DEFINE Split(T) == /\ Cardinality(T \cap E) \in Nat /\ Cardinality(T \ E) \in Nat
                       /\ Cardinality(T) = Cardinality(T \cap E) + Cardinality(T \ E)
<1>2. Split(A) /\ Split(B) /\ Split(C) /\ Split(D)
  BY <1>1
<1> SUFFICES ASSUME NEW a, a = Cardinality(C \cap E), NEW b, b = Cardinality(D \cap E),
                    NEW c, c = Cardinality(D \ E), NEW d, d = Cardinality(C \ E)
             PROVE  Cardinality(A) + Cardinality(B) = Cardinality(C) + Cardinality(D)
  OBVIOUS
<1>3. a \in Nat /\ b \in Nat /\ c \in Nat /\ d \in Nat
  BY <1>2
<1>4. /\ Cardinality(A) = a + c /\ Cardinality(B) = b + d
      /\ Cardinality(C) = a + d /\ Cardinality(D) = b + c
  BY <1>2
<1> QED
  BY <1>3, <1>4

\* What one start does to a signal
DueOnce(p, g) ==
    LET ss == given[p].sends
        add == [x \in Writes(p) |-> Wr(p, x).add]
    IN  SumOf(add, {x \in Writes(p) : Wr(p, x).locFlag = g})
          + SumOf(add, {x \in Writes(p) : Wr(p, x).rmtFlag = g})
          = -(Cardinality({i \in Full(p) : SourceSig(ss[i]) = g})
              + Cardinality({i \in Full(p) : TargetSig(ss[i]) = g}))

\* One start of a plan decrements a signal once for each non-empty send whose
\* source it watches and once for each whose target it watches: the parts of a
\* send leave nothing of their announcements behind.
THEOREM PlansTriggerOnce == Spec => []EventsDue
<1>1. BuiltInv => EventsDue
  <2>0. (\A p \in Plans : Built(p) => \A g : DueOnce(p, g)) => EventsDue
    BY DEF EventsDue, DueOnce
  <2> SUFFICES ASSUME BuiltInv, NEW p \in Plans, Built(p), NEW g, NEW a, a = given[p],
                      NEW u, u = uri[p], NEW r, r = Owner[p]
               PROVE  DueOnce(p, g)
    BY <2>0
  <2>1. /\ r \in Ranks /\ Arguments(a)
        /\ Writes(p) = Places(u) /\ \A x : Wr(p, x) = At(u, x)
        /\ \E at : Following(r, a, at, u)
    BY BuiltPlan
  <2>2. PICK at : Following(r, a, at, u)
    BY <2>1
  <2>17. IsFiniteSet(DOMAIN a.sends)
    BY <2>1, SendsFinite
  <2> DEFINE ss == a.sends
             I == DOMAIN a.sends
             Loc == {i \in I : LocFlag(ss[i]) = g}
             Rmt == {i \in I : RmtFlag(ss[i]) = g}
             full == {i \in I : SizeOf(a, i) # 0}
             put == {i \in I : ss[i].dma = "put"}
             A == {i \in Loc : SizeOf(a, i) # 0}
             B == {i \in Rmt : SizeOf(a, i) # 0}
             C == {i \in Full(p) : SourceSig(ss[i]) = g}
             D == {i \in Full(p) : TargetSig(ss[i]) = g}
  <2>3. [x \in Writes(p) |-> Wr(p, x).add] = AddsOf(u)
    BY <2>1 DEF AddsOf
  <2>4. \A x \in Places(u) : /\ At(u, x).send \in I
                             /\ At(u, x).locFlag = LocFlag(ss[At(u, x).send])
                             /\ At(u, x).rmtFlag = RmtFlag(ss[At(u, x).send])
    <3> SUFFICES ASSUME NEW x \in Places(u)
                 PROVE  /\ At(u, x).send \in I
                        /\ At(u, x).locFlag = LocFlag(ss[At(u, x).send])
                        /\ At(u, x).rmtFlag = RmtFlag(ss[At(u, x).send])
      OBVIOUS
    <3>1. PICK i \in I : \E j \in UsedAt(r, a, at, i) :
            At(u, x) = Asked(r, a, i, at[i], j) /\ At(u, x).send = i
      BY <2>1, <2>2, PlaceOfPart
    <3> QED
      BY <3>1 DEF Asked
  <2>5. /\ {x \in Writes(p) : Wr(p, x).locFlag = g} = {x \in Places(u) : At(u, x).send \in Loc}
        /\ {x \in Writes(p) : Wr(p, x).rmtFlag = g} = {x \in Places(u) : At(u, x).send \in Rmt}
    BY <2>1, <2>4
  <2>6. Loc \in SUBSET I /\ Rmt \in SUBSET I
    OBVIOUS
  <2>7. /\ SumOf(AddsOf(u), {x \in Places(u) : At(u, x).send \in Loc}) = -Cardinality(A)
        /\ SumOf(AddsOf(u), {x \in Places(u) : At(u, x).send \in Rmt}) = -Cardinality(B)
    <3>1. \A F \in SUBSET (DOMAIN a.sends) :
            SumOf(AddsOf(u), Sent(u, F)) = -Cardinality(NonEmpty(a, F))
      BY <2>1, <2>2, EventsOf
    <3>2. A = NonEmpty(a, Loc) /\ B = NonEmpty(a, Rmt)
      BY DEF NonEmpty
    <3> HIDE DEF Loc, Rmt, A, B
    <3>3. Loc \in SUBSET (DOMAIN a.sends) /\ Rmt \in SUBSET (DOMAIN a.sends)
      BY <2>6
    <3>4. /\ SumOf(AddsOf(u), Sent(u, Loc)) = -Cardinality(A)
          /\ SumOf(AddsOf(u), Sent(u, Rmt)) = -Cardinality(B)
      BY <3>1, <3>2, <3>3
    <3> QED
      BY <3>4 DEF Sent
  <2>8. IsFiniteSet(full)
    <3>1. full \subseteq I
      OBVIOUS
    <3> HIDE DEF full
    <3> QED
      BY <2>17, <3>1, FS_Subset
  <2>9. Full(p) = full
    <3>1. \A i \in I : SizeOf(a, i) \in Nat
      BY <2>1, ArgumentFacts
    <3> QED
      BY <3>1 DEF Full
  <2>10. \A i \in I :
           /\ i \in put => /\ LocFlag(ss[i]) = SourceSig(ss[i])
                           /\ RmtFlag(ss[i]) = TargetSig(ss[i])
           /\ i \notin put => /\ LocFlag(ss[i]) = TargetSig(ss[i])
                              /\ RmtFlag(ss[i]) = SourceSig(ss[i])
    BY DEF LocFlag, RmtFlag, SourceSig, TargetSig
  <2>11. /\ A \in SUBSET full /\ B \in SUBSET full /\ C \in SUBSET full /\ D \in SUBSET full
         /\ A \cap put = C \cap put /\ B \cap put = D \cap put
         /\ A \ put = D \ put /\ B \ put = C \ put
    <3> HIDE DEF put
    <3>1. \A i \in I :
            /\ i \in put => (i \in A <=> i \in C) /\ (i \in B <=> i \in D)
            /\ i \notin put => (i \in A <=> i \in D) /\ (i \in B <=> i \in C)
      BY <2>9, <2>10
    <3>2. /\ A \in SUBSET full /\ B \in SUBSET full /\ C \in SUBSET full /\ D \in SUBSET full
          /\ full \subseteq I
      BY <2>9
    <3> HIDE DEF A, B, C, D, full, I
    <3> QED
      BY <3>1, <3>2
  <2> HIDE DEF A, B, C, D, full, put, Loc, Rmt
  <2>12. Cardinality(A) + Cardinality(B) = Cardinality(C) + Cardinality(D)
    BY <2>8, <2>11, Exchanged
  <2>13. /\ Cardinality(A) \in Nat /\ Cardinality(B) \in Nat
         /\ Cardinality(C) \in Nat /\ Cardinality(D) \in Nat
    BY <2>8, <2>11, FS_Subset, FS_CardinalityType
  <2>14. -Cardinality(A) + -Cardinality(B) = -(Cardinality(C) + Cardinality(D))
    BY <2>12, <2>13
  <2>15. SumOf(AddsOf(u), {x \in Writes(p) : Wr(p, x).locFlag = g})
           + SumOf(AddsOf(u), {x \in Writes(p) : Wr(p, x).rmtFlag = g})
           = -(Cardinality(C) + Cardinality(D))
    BY <2>5, <2>7, <2>14
  <2> QED
    BY <2>3, <2>15 DEF C, D, DueOnce
<1> QED
  BY <1>1, BuiltInvariant, PTL
================================================================================
