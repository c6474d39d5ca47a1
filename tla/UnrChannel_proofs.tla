--------------------------- MODULE UnrChannel_proofs ---------------------------
(***************************************************************************)
(* Selection, layout and use of the channels, for any number of channels,  *)
(* any values of UNR_INTER and UNR_INTRA of at most one name too many, any *)
(* handle sizes and any traffic: what unr_init accepts is what was asked,  *)
(* the memory handles of the channels do not overlap, and no channel is    *)
(* opened twice, or served or closed when it is not open.                  *)
(***************************************************************************)
EXTENDS UnrChannel, FiniteSetTheorems, SequenceTheorems, TLAPS

-----------------------------------------------------------------------------
(* The inductive invariant *)

Selecting == {"inter", "intra"}
Unchecked == Selecting \cup {"check"}
Uncombined == Unchecked \cup {"combine"}
Unopened == Uncombined \cup {"reuse"}
Starting == Unopened \cup {"open"}
Phases == Starting \cup {"user", "stop", "close", "done"}

TypeOK ==
    /\ env \in [Sides -> Env] /\ cell \in [0 .. 2 * NumReg -> Channels \cup {Unset}]
    /\ num \in [Sides -> 0 .. NumReg + 1]
    /\ avail \in Seq(Channels) /\ reuse \in Seq(Nat)
    /\ offset \in [Sides -> Seq(Nat)] /\ total \in Nat
    /\ opened \in [Channels -> BOOLEAN] /\ memOffset \in [Channels -> Nat]
    /\ mpc \in Phases /\ mk \in Nat \ {0}
    /\ go \in BOOLEAN /\ running \in BOOLEAN
    /\ dpc \in {"none", "top", "serve", "gone"} /\ dk \in Nat
    /\ work \in [Channels -> Int] /\ found \in [Channels -> Int]

\* What has been read of an environment variable. Of a list with a name too
\* many only the names that have room are known: the next list may have been
\* written over the last one.
ReadInto(s) ==
    /\ num[s] = Len(Wanted(s)) /\ num[s] > 0
    /\ \A i \in 1 .. num[s] :
          /\ cell[Base(s) + i - 1] \in Channels
          /\ s = "intra" \/ i <= NumReg => cell[Base(s) + i - 1] = Wanted(s)[i]
SelectInv ==
    /\ mpc # "inter" => ReadInto("inter")
    /\ mpc \notin Selecting => ReadInto("intra")
    /\ mpc \notin Unchecked => \A s \in Sides : ~Repeats(Listed(s))

\* The available channels are those of the inter list, and those of the intra
\* list that are not among them, without repetition.
Fits(i) ==
    IF reuse[i] = 0
    THEN /\ \A j \in 1 .. num["inter"] : Listed("inter")[j] # Listed("intra")[i]
         /\ \E n \in 1 .. Len(avail) : avail[n] = Listed("intra")[i]
    ELSE reuse[i] \in 1 .. num["inter"] /\ Listed("inter")[reuse[i]] = Listed("intra")[i]
AvailInv ==
    /\ mpc \in Uncombined => avail = <<>> /\ reuse = <<>>
    /\ mpc \notin Uncombined =>
          /\ Len(avail) >= num["inter"]
          /\ \A i \in 1 .. num["inter"] : avail[i] = Listed("inter")[i]
          /\ \A n \in num["inter"] + 1 .. Len(avail) : \E i \in 1 .. Len(reuse) :
                reuse[i] = 0 /\ avail[n] = Listed("intra")[i]
          /\ \A i \in 1 .. Len(reuse) : Fits(i)
          /\ \A m, n \in 1 .. Len(avail) : avail[m] = avail[n] => m = n
    /\ mpc = "reuse" => Len(reuse) = mk - 1 /\ mk <= num["intra"] + 1
    /\ mpc \notin Unopened => Len(reuse) = num["intra"]
    /\ mpc \in Uncombined => mk = 1

\* The channels whose handles have a place
Laid(c) == \E s \in Sides : \E i \in 1 .. Len(offset[s]) : Listed(s)[i] = c

\* The loop over the two lists
Turns ==
    /\ mpc \in Unopened => offset = [s \in Sides |-> <<>>]
    /\ mpc = "open" =>
          /\ Len(offset["inter"]) <= num["inter"] /\ Len(offset["intra"]) <= num["intra"]
          /\ mk = Len(offset["inter"]) + Len(offset["intra"]) + 1
          /\ Len(offset["intra"]) > 0 => Len(offset["inter"]) = num["inter"]
    /\ mpc \notin Starting => \A s \in Sides : Len(offset[s]) = num[s]

\* Places lie between the head and the end, apart from each other.
Layout ==
    /\ \A s \in Sides : \A i \in 1 .. Len(offset[s]) : offset[s][i] = memOffset[Listed(s)[i]]
    /\ \A c \in Channels : Laid(c) =>
          HeadSize <= memOffset[c] /\ memOffset[c] + HandleSize[c] <= total
    /\ \A c, d \in Channels : Laid(c) /\ Laid(d) /\ c # d =>
          \/ memOffset[c] + HandleSize[c] <= memOffset[d]
          \/ memOffset[d] + HandleSize[d] <= memOffset[c]
    /\ HeadSize <= total

\* Which channels are open
OpenInv ==
    /\ mpc \in Starting \cup {"user", "stop"} => \A c \in Channels : opened[c] <=> Laid(c)
    /\ mpc = "close" =>
          /\ mk <= Len(avail) + 1
          /\ \A c \in Channels : opened[c] <=> \E n \in mk .. Len(avail) : avail[n] = c
    /\ mpc = "done" => \A c \in Channels : ~opened[c]

DaemonInv ==
    /\ mpc \in Starting <=> dpc = "none"
    /\ dpc = "serve" => dk \in 1 .. Len(avail)
    /\ running <=> dpc # "gone"
    /\ mpc \in {"close", "done"} => ~running

\* The assertions of the user's input are the only ones that can fail.
UserErrors == err \in {"no", "no such channel", "duplicate", "different channels"}

ChannelInv ==
    TypeOK /\ SelectInv /\ AvailInv /\ Turns /\ Layout /\ OpenInv /\ DaemonInv /\ UserErrors

-----------------------------------------------------------------------------
(* Names and lists *)

LEMMA RegFacts == /\ NumReg \in Nat /\ NumReg > 0 /\ IsFiniteSet(Channels)
                  /\ Base("inter") = 0 /\ Base("intra") = NumReg
                  /\ HandleSize \in [Channels -> Nat] /\ HeadSize \in Nat
<1>1. IsFiniteSet(Channels) /\ Channels # {}
  BY ChannelsAssumption
<1>2. NumReg \in Nat /\ NumReg > 0
  BY <1>1, FS_CardinalityType, FS_EmptySet DEF NumReg
<1> QED BY <1>1, <1>2, ChannelsAssumption DEF Base

LEMMA FunctionIsSeq ==
    ASSUME NEW S, NEW n \in Nat, NEW f \in [1 .. n -> S]
    PROVE  f \in Seq(S) /\ Len(f) = n
  OBVIOUS

\* An environment variable holds a list with at most one name too many.
LEMMA WantedFacts ==
    ASSUME TypeOK, NEW s \in Sides
    PROVE  \E n \in 0 .. NumReg + 1 :
              /\ Wanted(s) \in [1 .. n -> Names \cup {Default}] /\ Len(Wanted(s)) = n
              /\ Wanted(s) \in Seq(Names \cup {Default})
<1>1. env[s] \in Env
  BY DEF TypeOK
<1>2. CASE env[s] = Unset
  <2>1. Wanted(s) = <<Default>>
    BY <1>2 DEF Wanted
  <2> QED BY <2>1, RegFacts
<1>3. CASE env[s] # Unset
  <2>1. PICK n \in 0 .. NumReg + 1 : env[s] \in [1 .. n -> Names]
    BY <1>1, <1>3 DEF Env
  <2>2. n \in Nat /\ Wanted(s) = env[s] /\ env[s] \in [1 .. n -> Names \cup {Default}]
    BY <1>3, <2>1, RegFacts DEF Wanted
  <2>3. Len(Wanted(s)) = n /\ Wanted(s) \in Seq(Names \cup {Default})
    BY ONLY <2>2, FunctionIsSeq
  <2> QED BY <2>2, <2>3
<1> QED BY <1>2, <1>3

LEMMA ListedFacts ==
    ASSUME TypeOK, NEW s \in Sides
    PROVE  /\ DOMAIN Listed(s) = 1 .. num[s] /\ num[s] \in 0 .. NumReg + 1
           /\ \A i \in 1 .. num[s] : Listed(s)[i] = cell[Base(s) + i - 1]
  BY DEF Listed, TypeOK

\* A list that has been read names channels.
LEMMA ListedSeq ==
    ASSUME TypeOK, NEW s \in Sides, ReadInto(s)
    PROVE  /\ Listed(s) \in Seq(Channels) /\ Len(Listed(s)) = num[s]
           /\ Listed(s) \in [1 .. num[s] -> Channels]
           /\ num[s] \in Nat /\ num[s] > 0
<1>1. Listed(s) \in [1 .. num[s] -> Channels] /\ num[s] \in Nat /\ num[s] > 0
  BY RegFacts DEF ReadInto, Listed, TypeOK
<1> QED BY <1>1, FunctionIsSeq

\* Only a list without repetition fits.
LEMMA NoRepeatFits ==
    ASSUME TypeOK, NEW s \in Sides, ReadInto(s), ~Repeats(Listed(s))
    PROVE  num[s] <= NumReg /\ Listed(s) = Wanted(s)
<1>1. Listed(s) \in [1 .. num[s] -> Channels] /\ num[s] \in Nat
  BY ListedSeq
<1>2. num[s] <= NumReg
  <2>1. SUFFICES ASSUME num[s] > NumReg PROVE FALSE
    BY <1>1, RegFacts
  <2>2. IsFiniteSet(1 .. num[s]) /\ Cardinality(1 .. num[s]) = num[s]
    BY <1>1, <2>1, RegFacts, FS_Interval
  <2>3. \E i, j \in 1 .. num[s] : i # j /\ Listed(s)[i] = Listed(s)[j]
    BY <1>1, <2>1, <2>2, RegFacts, FS_PigeonHole DEF NumReg
  <2> QED BY <1>1, <2>3 DEF Repeats, IsInjective
<1>3. PICK n \in 0 .. NumReg + 1 :
         /\ Wanted(s) \in [1 .. n -> Names \cup {Default}] /\ Len(Wanted(s)) = n
  BY WantedFacts
<1>4. n = num[s]
  BY <1>3 DEF ReadInto
<1>5. \A i \in 1 .. num[s] : Listed(s)[i] = Wanted(s)[i]
  <2> SUFFICES ASSUME NEW i \in 1 .. num[s] PROVE Listed(s)[i] = Wanted(s)[i]
    OBVIOUS
  <2>1. i <= NumReg
    BY <1>1, <1>2, RegFacts
  <2> QED BY <2>1, ListedFacts DEF ReadInto
<1> QED BY <1>1, <1>2, <1>3, <1>4, <1>5

-----------------------------------------------------------------------------
(* Steps that leave the lists, or everything but the daemon, as they are *)

LEMMA ListsSame ==
    ASSUME UNCHANGED <<env, cell, num>>
    PROVE  \A s \in Sides :
              /\ Listed(s)' = Listed(s) /\ Wanted(s)' = Wanted(s)
              /\ ReadInto(s)' <=> ReadInto(s)
              /\ Repeats(Listed(s))' <=> Repeats(Listed(s))
<1> SUFFICES ASSUME NEW s \in Sides
             PROVE  /\ Listed(s)' = Listed(s) /\ Wanted(s)' = Wanted(s)
                    /\ ReadInto(s)' <=> ReadInto(s)
                    /\ Repeats(Listed(s))' <=> Repeats(Listed(s))
  OBVIOUS
<1>1. Listed(s)' = Listed(s) /\ Wanted(s)' = Wanted(s)
  BY DEF Listed, Wanted, Base
<1>2. ReadInto(s)' <=> ReadInto(s)
  BY <1>1 DEF ReadInto, Base
<1> QED BY <1>1, <1>2 DEF Repeats

\* The invariant of the selection after the phase changes
LEMMA SelectKept ==
    ASSUME SelectInv, UNCHANGED <<env, cell, num>>,
           mpc' = mpc \/ (mpc \notin Unchecked /\ mpc' \notin Unchecked)
    PROVE  SelectInv'
<1> QED BY ListsSame DEF SelectInv, Unchecked, Selecting, Sides

\* The invariant of the available channels, once they are complete
LEMMA AvailKept ==
    ASSUME AvailInv, UNCHANGED <<env, cell, num, avail, reuse>>,
           \/ mpc' = mpc /\ mk' = mk
           \/ mpc \notin Unopened /\ mpc' \notin Unopened
    PROVE  AvailInv'
<1>1. \A s \in Sides : Listed(s)' = Listed(s)
  BY ListsSame
<1>2. Listed("inter")' = Listed("inter") /\ Listed("intra")' = Listed("intra")
  BY <1>1 DEF Sides
<1>3. \A i : Fits(i)' <=> Fits(i)
  BY <1>2 DEF Fits
<1> QED BY <1>2, <1>3 DEF AvailInv, Unopened, Uncombined, Unchecked, Selecting

LEMMA LayoutKept ==
    ASSUME Layout, UNCHANGED <<env, cell, num, offset, total, memOffset>>
    PROVE  Layout' /\ \A c : Laid(c)' <=> Laid(c)
<1>1. \A s \in Sides : Listed(s)' = Listed(s)
  BY ListsSame
<1>2. \A c : Laid(c)' <=> Laid(c)
  BY <1>1 DEF Laid
<1> QED BY <1>1, <1>2 DEF Layout

LEMMA DaemonFrame ==
    ASSUME ChannelInv, UNCHANGED <<lists, layer, mpc, mk>>
    PROVE  SelectInv' /\ AvailInv' /\ Turns' /\ Layout' /\ OpenInv'
<1>0. /\ UNCHANGED <<env, cell, num>> /\ UNCHANGED <<env, cell, num, avail, reuse>>
      /\ UNCHANGED <<env, cell, num, offset, total, memOffset>>
      /\ mpc' = mpc /\ mk' = mk
  BY DEF lists, layer
<1>1. SelectInv' /\ AvailInv' /\ Layout' /\ \A c : Laid(c)' <=> Laid(c)
  <2>1. SelectInv'
    BY <1>0, SelectKept DEF ChannelInv
  <2>2. AvailInv'
    BY <1>0, AvailKept DEF ChannelInv
  <2>3. Layout' /\ \A c : Laid(c)' <=> Laid(c)
    BY <1>0, LayoutKept DEF ChannelInv
  <2> QED BY <2>1, <2>2, <2>3
<1>2. Turns'
  BY DEF ChannelInv, Turns, lists, layer
<1>3. OpenInv'
  BY <1>1 DEF ChannelInv, OpenInv, lists, layer
<1> QED BY <1>1, <1>2, <1>3

-----------------------------------------------------------------------------
(* The daemon thread and the environment *)

\* While the daemon runs, all available channels are open.
LEMMA AvailOpen ==
    ASSUME ChannelInv, mpc \in {"user", "stop"}, NEW n \in 1 .. Len(avail)
    PROVE  avail[n] \in Channels /\ opened[avail[n]]
<1>1. avail[n] \in Channels /\ Len(avail) \in Nat
  BY DEF ChannelInv, TypeOK
<1>4. mpc \notin Starting /\ mpc \notin Unopened
  BY DEF Starting, Unopened, Uncombined, Unchecked, Selecting
<1>5. Len(offset["inter"]) = num["inter"] /\ Len(offset["intra"]) = num["intra"]
  BY <1>4 DEF ChannelInv, Turns, Sides
<1>6. Len(reuse) = num["intra"]
  BY <1>4 DEF ChannelInv, AvailInv
<1>7. num["inter"] \in Nat
  BY RegFacts DEF ChannelInv, TypeOK, Sides
<1>2. /\ Len(offset["inter"]) = num["inter"] /\ Len(offset["intra"]) = num["intra"]
      /\ Len(reuse) = num["intra"] /\ num["inter"] \in Nat
  BY <1>5, <1>6, <1>7
<1>3. Laid(avail[n])
  <2>1. CASE n <= num["inter"]
    <3>1. n \in 1 .. num["inter"]
      BY <2>1, <1>1, <1>2
    <3>2. avail[n] = Listed("inter")[n]
      BY <3>1 DEF ChannelInv, AvailInv, Uncombined, Unchecked, Selecting
    <3> QED BY <3>1, <3>2, <1>2 DEF Laid, Sides
  <2>2. CASE ~(n <= num["inter"])
    <3>1. n \in num["inter"] + 1 .. Len(avail)
      BY <2>2, <1>1, <1>2
    <3>2. PICK i \in 1 .. Len(reuse) : avail[n] = Listed("intra")[i]
      BY <3>1 DEF ChannelInv, AvailInv, Uncombined, Unchecked, Selecting
    <3> QED BY <3>2, <1>2 DEF Laid, Sides
  <2> QED BY <2>1, <2>2
<1> QED BY <1>1, <1>3 DEF ChannelInv, OpenInv

LEMMA DaemonRuns ==
    ASSUME ChannelInv, dpc \in {"top", "serve"}
    PROVE  /\ mpc \in {"user", "stop"}
           /\ Len(avail) \in Nat /\ Len(avail) > 0
<1>1. mpc \in {"user", "stop"}
  BY DEF ChannelInv, DaemonInv, TypeOK, Phases
<1>2. Len(avail) \in Nat /\ num["inter"] \in Nat
  BY RegFacts DEF ChannelInv, TypeOK, Sides
<1>3. Len(avail) >= num["inter"] /\ num["inter"] > 0
  BY <1>1 DEF ChannelInv, AvailInv, SelectInv, ReadInto, Uncombined, Unchecked, Selecting
<1> QED BY <1>1, <1>2, <1>3

LEMMA ServeStep ==
    ASSUME ChannelInv, dpc \in {"top", "serve"}, NEW n \in 1 .. Len(avail), Serve(n), err = "no",
           UNCHANGED <<lists, layer, mpc, mk, go, work, found>>
    PROVE  ChannelInv'
<1>1. mpc \in {"user", "stop"} /\ Len(avail) \in Nat
  BY DaemonRuns
<1>2. opened[avail[n]]
  BY <1>1, AvailOpen
<1>3. /\ dk' = n /\ dpc' = "serve" /\ err' = "no" /\ running' = running
      /\ UNCHANGED avail
  BY <1>2 DEF Serve, lists
<1>4. TypeOK'
  BY <1>1, <1>3 DEF ChannelInv, TypeOK, lists, layer
<1>5. DaemonInv'
  BY <1>1, <1>3 DEF ChannelInv, DaemonInv, Starting, Unopened, Uncombined, Unchecked, Selecting
<1>6. UserErrors'
  BY <1>3 DEF UserErrors
<1> QED BY <1>4, <1>5, <1>6, DaemonFrame DEF ChannelInv

LEMMA DaemonTopStep ==
    ASSUME ChannelInv, DaemonTop
    PROVE  ChannelInv'
<1>1. dpc = "top" /\ err = "no" /\ UNCHANGED <<lists, layer, mpc, mk, go, work, found>>
  BY DEF DaemonTop
<1>2. mpc \in {"user", "stop"} /\ Len(avail) \in Nat /\ Len(avail) > 0
  BY <1>1, DaemonRuns
<1>3. CASE Continue
  <2>1. 1 \in 1 .. Len(avail)
    BY <1>2
  <2>2. Serve(1)
    BY <1>3 DEF DaemonTop
  <2> QED BY <1>1, <2>1, <2>2, ServeStep
<1>4. CASE ~Continue
  <2>1. dpc' = "gone" /\ running' = FALSE /\ UNCHANGED <<dk, err>>
    BY <1>4 DEF DaemonTop
  <2>2. TypeOK'
    BY <1>1, <2>1 DEF ChannelInv, TypeOK, lists, layer
  <2>3. DaemonInv'
    BY <1>1, <1>2, <2>1 DEF ChannelInv, DaemonInv, Starting, Unopened, Uncombined, Unchecked, Selecting
  <2>4. UserErrors'
    BY <2>1 DEF ChannelInv, UserErrors
  <2> QED BY <1>1, <2>2, <2>3, <2>4, DaemonFrame DEF ChannelInv
<1> QED BY <1>3, <1>4

LEMMA DaemonItemStep ==
    ASSUME ChannelInv, DaemonItem
    PROVE  ChannelInv'
<1>1. UNCHANGED <<lists, layer, mpc, mk, go, running, dpc, dk, found, err>>
  BY DEF DaemonItem
<1>2. work' \in [Channels -> Int]
  <2>1. work \in [Channels -> Int] /\ avail \in Seq(Channels) /\ dk \in 1 .. Len(avail)
    BY DEF ChannelInv, TypeOK, DaemonInv, DaemonItem
  <2> QED BY <2>1 DEF DaemonItem
<1>3. TypeOK'
  BY <1>1, <1>2 DEF ChannelInv, TypeOK, lists, layer
<1>4. DaemonInv' /\ UserErrors'
  BY <1>1 DEF ChannelInv, DaemonInv, UserErrors, lists
<1> QED BY <1>1, <1>3, <1>4, DaemonFrame DEF ChannelInv

LEMMA DaemonNextStep ==
    ASSUME ChannelInv, DaemonNext
    PROVE  ChannelInv'
<1>1. dpc = "serve" /\ err = "no" /\ UNCHANGED <<lists, layer, mpc, mk, go, work, found>>
  BY DEF DaemonNext
<1>2. mpc \in {"user", "stop"} /\ Len(avail) \in Nat /\ dk \in 1 .. Len(avail)
  BY <1>1, DaemonRuns DEF ChannelInv, DaemonInv
<1>3. CASE dk < LastServed
  <2>1. dk + 1 \in 1 .. Len(avail)
    BY <1>2, <1>3 DEF LastServed
  <2>2. Serve(dk + 1)
    BY <1>3 DEF DaemonNext
  <2> QED BY <1>1, <2>1, <2>2, ServeStep
<1>4. CASE ~(dk < LastServed)
  <2>1. dpc' = "top" /\ UNCHANGED <<dk, running, err>>
    BY <1>4 DEF DaemonNext
  <2>2. TypeOK'
    BY <1>1, <2>1 DEF ChannelInv, TypeOK, lists, layer
  <2>3. DaemonInv'
    BY <1>1, <1>2, <2>1 DEF ChannelInv, DaemonInv, Starting, Unopened, Uncombined, Unchecked, Selecting
  <2>4. UserErrors'
    BY <2>1 DEF ChannelInv, UserErrors
  <2> QED BY <1>1, <2>2, <2>3, <2>4, DaemonFrame DEF ChannelInv
<1> QED BY <1>3, <1>4

LEMMA ArriveStep ==
    ASSUME ChannelInv, NEW c \in Channels, Arrive(c)
    PROVE  ChannelInv'
<1>1. UNCHANGED <<lists, layer, mpc, mk, go, running, dpc, dk, err>>
  BY DEF Arrive
<1>2. work' \in [Channels -> Int] /\ found' \in [Channels -> Int]
  BY DEF ChannelInv, TypeOK, Arrive
<1>3. TypeOK'
  BY <1>1, <1>2 DEF ChannelInv, TypeOK, lists, layer
<1>4. DaemonInv' /\ UserErrors'
  BY <1>1 DEF ChannelInv, DaemonInv, UserErrors, lists
<1> QED BY <1>1, <1>3, <1>4, DaemonFrame DEF ChannelInv

-----------------------------------------------------------------------------
(* unr_init: the selection *)

LEMMA HaltStep ==
    ASSUME ChannelInv, NEW reason \in {"no such channel", "duplicate", "different channels"},
           Halt(reason)
    PROVE  ChannelInv'
<1>1. err' = reason /\ UNCHANGED <<lists, layer, mpc, mk>> /\ UNCHANGED daemon
  BY DEF Halt
<1>2. TypeOK'
  BY <1>1 DEF ChannelInv, TypeOK, lists, layer, daemon
<1>3. DaemonInv'
  BY <1>1 DEF ChannelInv, DaemonInv, lists, daemon
<1>4. UserErrors'
  BY <1>1 DEF UserErrors
<1> QED BY <1>1, <1>2, <1>3, <1>4, DaemonFrame DEF ChannelInv

\* Before the first channel is opened
LEMMA EarlyKept ==
    ASSUME ChannelInv, mpc \in Unopened, mpc' \in Unopened \/ (mpc' = "open" /\ mk' = 1),
           UNCHANGED <<offset, total, opened, memOffset>>, num' \in [Sides -> Nat]
    PROVE  Turns' /\ Layout' /\ OpenInv'
<1>1. \A s \in Sides : offset[s] = <<>> /\ offset'[s] = <<>>
  BY DEF ChannelInv, Turns
<1>2. \A c : ~Laid(c) /\ ~Laid(c)'
  BY <1>1 DEF Laid
<1>3. Layout'
  BY <1>1, <1>2 DEF ChannelInv, Layout
<1>4. OpenInv'
  BY <1>2 DEF ChannelInv, OpenInv, Starting, Unopened, Uncombined, Unchecked, Selecting
<1>5. Turns'
  <2>1. Len(offset'["inter"]) = 0 /\ Len(offset'["intra"]) = 0
    BY <1>1 DEF Sides
  <2>2. num'["inter"] \in Nat /\ num'["intra"] \in Nat
    BY DEF Sides
  <2>3. mpc' \in Unopened => offset' = [s \in Sides |-> <<>>]
    BY DEF ChannelInv, Turns
  <2>4. mpc' = "open" => mpc' \notin Unopened
    BY DEF Unopened, Uncombined, Unchecked, Selecting
  <2> QED BY <2>1, <2>2, <2>3, <2>4 DEF Turns, Starting
<1> QED BY <1>3, <1>4, <1>5

LEMMA EarlyDaemon ==
    ASSUME ChannelInv, mpc \in Starting, mpc' \in Starting, UNCHANGED <<daemon, err>>
    PROVE  DaemonInv' /\ UserErrors'
  BY DEF ChannelInv, DaemonInv, UserErrors, daemon,
         Starting, Unopened, Uncombined, Unchecked, Selecting

\* What Select(s) writes
LEMMA SelectWrites ==
    ASSUME ChannelInv, NEW s \in Sides, Select(s), err' = err
    PROVE  /\ mpc = s /\ mpc' = IF s = "inter" THEN "intra" ELSE "check"
           /\ UNCHANGED <<env, avail, reuse>> /\ UNCHANGED <<layer, mk, daemon, err>>
           /\ num' = [num EXCEPT ![s] = Len(Wanted(s))]
           /\ Len(Wanted(s)) \in 1 .. NumReg + 1
           /\ \A i \in 1 .. Len(Wanted(s)) : Wanted(s)[i] \in Channels
           /\ cell' \in [0 .. 2 * NumReg -> Channels \cup {Unset}]
           /\ \A n \in 0 .. 2 * NumReg :
                 cell'[n] = IF n - Base(s) + 1 \in 1 .. Len(Wanted(s))
                            THEN Wanted(s)[n - Base(s) + 1] ELSE cell[n]
<1> DEFINE list == Wanted(s)
<1>1. err = "no" /\ mpc = s
  BY DEF Select
<1>2. ~(list = <<>> \/ ~(Range(list) \subseteq Channels))
  BY <1>1 DEF Select, Halt
<1>3. /\ cell' = [n \in DOMAIN cell |->
                    IF n - Base(s) + 1 \in DOMAIN list THEN list[n - Base(s) + 1] ELSE cell[n]]
      /\ num' = [num EXCEPT ![s] = Len(list)]
      /\ mpc' = IF s = "inter" THEN "intra" ELSE "check"
      /\ UNCHANGED <<env, avail, reuse, layer, mk, daemon, err>>
  BY <1>2 DEF Select
<1>4. PICK m \in 0 .. NumReg + 1 :
         list \in [1 .. m -> Names \cup {Default}] /\ Len(list) = m
         /\ list \in Seq(Names \cup {Default})
  BY WantedFacts DEF ChannelInv
<1>5. m # 0
  <2> SUFFICES ASSUME m = 0 PROVE FALSE
    OBVIOUS
  <2>1. list = <<>>
    BY <1>4, EmptySeq
  <2> QED BY <2>1, <1>2
<1>6. m \in 1 .. NumReg + 1 /\ DOMAIN list = 1 .. m
  BY <1>4, <1>5, RegFacts
<1>7. \A i \in 1 .. m : list[i] \in Channels
  BY <1>2, <1>6 DEF Range
<1>8. cell \in [0 .. 2 * NumReg -> Channels \cup {Unset}]
  BY DEF ChannelInv, TypeOK
<1> HIDE DEF list
<1>9. /\ cell' \in [0 .. 2 * NumReg -> Channels \cup {Unset}]
      /\ \A n \in 0 .. 2 * NumReg :
            cell'[n] = IF n - Base(s) + 1 \in 1 .. m THEN list[n - Base(s) + 1] ELSE cell[n]
  BY <1>3, <1>6, <1>7, <1>8
<1> QED BY <1>1, <1>3, <1>4, <1>6, <1>7, <1>9 DEF list

LEMMA SelectReads ==
    ASSUME ChannelInv, NEW s \in Sides, Select(s), err' = err
    PROVE  /\ ReadInto(s)' /\ num' \in [Sides -> 0 .. NumReg + 1]
           /\ s = "intra" => ReadInto("inter")'
<1> DEFINE m == Len(Wanted(s))
<1>1. /\ mpc = s /\ UNCHANGED env /\ num' = [num EXCEPT ![s] = m]
      /\ m \in 1 .. NumReg + 1
      /\ \A i \in 1 .. m : Wanted(s)[i] \in Channels
      /\ cell' \in [0 .. 2 * NumReg -> Channels \cup {Unset}]
      /\ \A n \in 0 .. 2 * NumReg :
            cell'[n] = IF n - Base(s) + 1 \in 1 .. m THEN Wanted(s)[n - Base(s) + 1] ELSE cell[n]
  BY SelectWrites
<1>2. /\ num \in [Sides -> 0 .. NumReg + 1] /\ NumReg \in Nat /\ NumReg > 0
      /\ Base("inter") = 0 /\ Base("intra") = NumReg
  BY RegFacts DEF ChannelInv, TypeOK
<1>3. \A t \in Sides : Wanted(t)' = Wanted(t) /\ Base(t)' = Base(t)
  BY <1>1 DEF Wanted, Base
<1> HIDE DEF m
<1>4. /\ num' \in [Sides -> 0 .. NumReg + 1] /\ num'[s] = m
      /\ \A t \in Sides : t # s => num'[t] = num[t]
  BY <1>1, <1>2
<1>5. ReadInto(s)'
  <2>1. \A i \in 1 .. m : cell'[Base(s) + i - 1] = Wanted(s)[i]
    <3> SUFFICES ASSUME NEW i \in 1 .. m PROVE cell'[Base(s) + i - 1] = Wanted(s)[i]
      OBVIOUS
    <3>1. /\ Base(s) + i - 1 \in 0 .. 2 * NumReg /\ (Base(s) + i - 1) - Base(s) + 1 = i
      BY <1>1, <1>2 DEF Sides
    <3> QED BY <1>1, <3>1
  <2> QED BY <1>1, <1>3, <1>4, <2>1 DEF ReadInto, m
<1>6. ASSUME s = "intra" PROVE ReadInto("inter")'
  <2>1. ReadInto("inter") /\ num'["inter"] = num["inter"] /\ num["inter"] \in 0 .. NumReg + 1
    BY <1>1, <1>2, <1>4, <1>6 DEF ChannelInv, SelectInv, Sides
  <2>2. ASSUME NEW i \in 1 .. num["inter"]
        PROVE  /\ cell'[i - 1] \in Channels
               /\ i <= NumReg => cell'[i - 1] = cell[i - 1]
    <3>1. i - 1 \in 0 .. 2 * NumReg /\ (i - 1) - NumReg + 1 = i - NumReg /\ i <= NumReg + 1
      BY <1>2, <2>1
    <3>2. CASE i <= NumReg
      <4>1. cell'[i - 1] = cell[i - 1]
        BY <1>1, <1>2, <1>6, <3>1, <3>2
      <4>2. cell[i - 1] \in Channels
        BY <1>2, <2>1 DEF ReadInto
      <4> QED BY <4>1, <4>2
    <3>3. CASE i = NumReg + 1
      <4>1. i - 1 = NumReg /\ ~(i <= NumReg) /\ (i - 1) - NumReg + 1 = 1 /\ 1 \in 1 .. m
        BY <1>1, <1>2, <3>3
      <4>2. cell'[i - 1] = Wanted(s)[1] /\ Wanted(s)[1] \in Channels
        BY <1>1, <1>2, <1>6, <3>1, <4>1
      <4> QED BY <4>1, <4>2
    <3> QED BY <1>2, <3>1, <3>2, <3>3
  <2>3. \A i \in 1 .. num["inter"] : Base("inter") + i - 1 = i - 1
    BY <1>2
  <2> QED BY <1>2, <1>3, <2>1, <2>2, <2>3 DEF ReadInto, Sides
<1> QED BY <1>4, <1>5, <1>6

LEMMA SelectStep ==
    ASSUME ChannelInv, NEW s \in Sides, Select(s)
    PROVE  ChannelInv'
<1>1. CASE Halt("no such channel")
  BY <1>1, HaltStep
<1>2. CASE ~Halt("no such channel")
  <2>0. err' = err
    BY <1>2 DEF Select
  <2>1. /\ mpc = s /\ mpc' = IF s = "inter" THEN "intra" ELSE "check"
        /\ UNCHANGED <<env, avail, reuse>> /\ UNCHANGED <<layer, mk, daemon, err>>
        /\ cell' \in [0 .. 2 * NumReg -> Channels \cup {Unset}]
    BY <2>0, SelectWrites
  <2>2. /\ ReadInto(s)' /\ num' \in [Sides -> 0 .. NumReg + 1]
        /\ s = "intra" => ReadInto("inter")'
    BY <2>0, SelectReads
  <2>3. TypeOK'
    BY <2>1, <2>2 DEF ChannelInv, TypeOK, layer, daemon, Phases, Starting, Unopened, Uncombined,
                      Unchecked, Selecting
  <2>4. SelectInv'
    BY <2>1, <2>2 DEF SelectInv, Unchecked, Selecting, Sides
  <2>5. AvailInv'
    BY <2>1 DEF ChannelInv, AvailInv, Unopened, Uncombined, Unchecked, Selecting, Sides
  <2>6. num' \in [Sides -> Nat]
    BY <2>2, RegFacts
  <2>7. Turns' /\ Layout' /\ OpenInv'
    BY <2>1, <2>6, EarlyKept DEF Unopened, Uncombined, Unchecked, Selecting, Sides, layer
  <2>8. DaemonInv' /\ UserErrors'
    BY <2>1, EarlyDaemon DEF Starting, Unopened, Uncombined, Unchecked, Selecting, Sides
  <2> QED BY <2>3, <2>4, <2>5, <2>7, <2>8 DEF ChannelInv
<1> QED BY <1>1, <1>2

LEMMA CheckStep ==
    ASSUME ChannelInv, CheckDuplicates
    PROVE  ChannelInv'
<1>1. CASE \E s \in Sides : Repeats(Listed(s))
  BY <1>1, HaltStep DEF CheckDuplicates
<1>2. CASE \A s \in Sides : ~Repeats(Listed(s))
  <2>1. /\ mpc = "check" /\ mpc' = "combine" /\ UNCHANGED <<lists, layer, mk>>
        /\ UNCHANGED <<daemon, err>>
    BY <1>2 DEF CheckDuplicates
  <2>2. /\ UNCHANGED <<env, cell, num, avail, reuse>>
        /\ UNCHANGED <<offset, total, opened, memOffset>>
    BY <2>1 DEF lists, layer
  <2>3. TypeOK'
    BY <2>1 DEF ChannelInv, TypeOK, lists, layer, daemon, Phases, Starting, Unopened, Uncombined,
                Unchecked, Selecting
  <2>4. SelectInv'
    <3>1. ReadInto("inter") /\ ReadInto("intra")
      BY <2>1 DEF ChannelInv, SelectInv, Selecting
    <3>2. \A s \in Sides : (ReadInto(s)' <=> ReadInto(s)) /\ ~Repeats(Listed(s))'
      BY <1>2, <2>2, ListsSame
    <3> QED BY <3>1, <3>2 DEF SelectInv, Sides
  <2>5. AvailInv'
    BY <2>1, <2>2 DEF ChannelInv, AvailInv, Unopened, Uncombined, Unchecked, Selecting
  <2>6. num' \in [Sides -> Nat]
    BY <2>2, RegFacts DEF ChannelInv, TypeOK
  <2>7. Turns' /\ Layout' /\ OpenInv'
    BY <2>1, <2>2, <2>6, EarlyKept DEF Unopened, Uncombined, Unchecked, Selecting
  <2>8. DaemonInv' /\ UserErrors'
    BY <2>1, EarlyDaemon DEF Starting, Unopened, Uncombined, Unchecked, Selecting
  <2> QED BY <2>3, <2>4, <2>5, <2>7, <2>8 DEF ChannelInv
<1> QED BY <1>1, <1>2

-----------------------------------------------------------------------------
(* unr_init: the available channels *)

\* Both lists once they have been checked
LEMMA Checked ==
    ASSUME ChannelInv, mpc \notin Unchecked, NEW s \in Sides
    PROVE  /\ Listed(s) \in Seq(Channels) /\ Len(Listed(s)) = num[s]
           /\ Listed(s) \in [1 .. num[s] -> Channels]
           /\ num[s] \in Nat /\ num[s] > 0 /\ num[s] <= NumReg
           /\ Listed(s) = Wanted(s)
           /\ \A i, j \in 1 .. num[s] : Listed(s)[i] = Listed(s)[j] => i = j
<1>1. ReadInto(s) /\ ~Repeats(Listed(s)) /\ TypeOK
  BY DEF ChannelInv, SelectInv, Unchecked, Selecting, Sides
<1>2. /\ Listed(s) \in Seq(Channels) /\ Len(Listed(s)) = num[s]
      /\ Listed(s) \in [1 .. num[s] -> Channels]
      /\ num[s] \in Nat /\ num[s] > 0
  BY <1>1, ListedSeq
<1>3. num[s] <= NumReg /\ Listed(s) = Wanted(s)
  BY <1>1, NoRepeatFits
<1>4. \A i, j \in 1 .. num[s] : Listed(s)[i] = Listed(s)[j] => i = j
  BY <1>1, <1>2 DEF Repeats, IsInjective
<1> QED BY <1>2, <1>3, <1>4

LEMMA ReuseFacts ==
    ASSUME ChannelInv, mpc \notin Unchecked, NEW c
    PROVE  /\ ReuseOf(c) \in 0 .. num["inter"] /\ num["inter"] \in Nat
           /\ ReuseOf(c) = 0 => \A j \in 1 .. num["inter"] : Listed("inter")[j] # c
           /\ ReuseOf(c) # 0 => Listed("inter")[ReuseOf(c)] = c
<1>1. /\ Len(Listed("inter")) = num["inter"] /\ num["inter"] \in Nat
      /\ DOMAIN Listed("inter") = 1 .. num["inter"]
  BY Checked DEF Sides
<1>2. CASE Contains(Listed("inter"), c)
  <2>1. \E j \in DOMAIN Listed("inter") : Listed("inter")[j] = c
    BY <1>1, <1>2 DEF Contains
  <2>2. ReuseOf(c) = CHOOSE j \in DOMAIN Listed("inter") : Listed("inter")[j] = c
    BY <1>2 DEF ReuseOf
  <2>3. ReuseOf(c) \in DOMAIN Listed("inter") /\ Listed("inter")[ReuseOf(c)] = c
    BY <2>1, <2>2, Zenon
  <2> QED BY <1>1, <2>3
<1>3. CASE ~Contains(Listed("inter"), c)
  BY <1>1, <1>3 DEF Contains, ReuseOf
<1> QED BY <1>2, <1>3

LEMMA CombineInterStep ==
    ASSUME ChannelInv, CombineInter
    PROVE  ChannelInv'
<1>1. /\ mpc = "combine" /\ mpc' = "reuse" /\ avail' = Listed("inter")
      /\ UNCHANGED <<env, cell, num, reuse>> /\ UNCHANGED <<layer, mk>>
      /\ UNCHANGED <<daemon, err>>
  BY DEF CombineInter
<1>2. /\ Listed("inter") \in Seq(Channels) /\ Len(Listed("inter")) = num["inter"]
      /\ num["inter"] \in Nat /\ num["intra"] \in Nat
      /\ \A i, j \in 1 .. num["inter"] : Listed("inter")[i] = Listed("inter")[j] => i = j
  BY <1>1, Checked DEF Sides, Unchecked, Selecting
<1>3. UNCHANGED <<offset, total, opened, memOffset>>
  BY <1>1 DEF layer
<1>4. TypeOK'
  BY <1>1, <1>2 DEF ChannelInv, TypeOK, layer, daemon, Phases, Starting, Unopened, Uncombined,
                    Unchecked, Selecting
<1>5. SelectInv'
  BY <1>1, SelectKept DEF ChannelInv, Unchecked, Selecting
<1>6. AvailInv'
  <2>1. reuse' = <<>> /\ mk' = 1
    BY <1>1 DEF ChannelInv, AvailInv, Uncombined
  <2>2. Listed("inter")' = Listed("inter") /\ Len(reuse') = 0 /\ num' = num
    BY <1>1, <2>1, ListsSame DEF Sides
  <2>3. \A n \in num["inter"] + 1 .. Len(avail') : FALSE
    BY <1>1, <1>2
  <2>4. \A i \in 1 .. Len(reuse') : FALSE
    BY <2>2
  <2>5. mpc' \notin Uncombined /\ mpc' \in Unopened
    BY <1>1 DEF Unopened, Uncombined, Unchecked, Selecting
  <2> QED BY <1>1, <1>2, <2>1, <2>2, <2>3, <2>4, <2>5 DEF AvailInv
<1>7. Turns' /\ Layout' /\ OpenInv'
  <2>1. num' \in [Sides -> Nat]
    BY <1>1, RegFacts DEF ChannelInv, TypeOK
  <2> QED BY <1>1, <1>3, <2>1, EarlyKept DEF Unopened, Uncombined, Unchecked, Selecting
<1>8. DaemonInv' /\ UserErrors'
  BY <1>1, EarlyDaemon DEF Starting, Unopened, Uncombined, Unchecked, Selecting
<1> QED BY <1>4, <1>5, <1>6, <1>7, <1>8 DEF ChannelInv

LEMMA CombineIntraStep ==
    ASSUME ChannelInv, CombineIntra
    PROVE  ChannelInv'
<1> DEFINE c == Listed("intra")[mk]
           r == ReuseOf(c)
           len == Len(avail)
           inter == num["inter"]
<1>1. /\ mpc = "reuse" /\ mk <= num["intra"] /\ mk' = mk + 1
      /\ reuse' = Append(reuse, r) /\ avail' = IF r = 0 THEN Append(avail, c) ELSE avail
      /\ UNCHANGED <<env, cell, num>> /\ UNCHANGED <<layer, mpc>> /\ UNCHANGED <<daemon, err>>
  BY DEF CombineIntra
<1>2. /\ mpc \notin Unchecked /\ mpc \notin Uncombined /\ mpc \in Unopened /\ mpc \in Starting
  BY <1>1 DEF Starting, Unopened, Uncombined, Unchecked, Selecting
<1>3. /\ Listed("intra") \in [1 .. num["intra"] -> Channels]
      /\ num["intra"] \in Nat /\ inter \in Nat
      /\ \A i, j \in 1 .. num["intra"] : Listed("intra")[i] = Listed("intra")[j] => i = j
  BY <1>2, Checked DEF Sides
<1>4. /\ mk \in 1 .. num["intra"] /\ Len(reuse) = mk - 1 /\ reuse \in Seq(Nat)
      /\ avail \in Seq(Channels) /\ len \in Nat
  BY <1>1, <1>3 DEF ChannelInv, TypeOK, AvailInv
<1>5. c \in Channels
  BY <1>3, <1>4
<1>6. /\ r \in 0 .. inter
      /\ r = 0 => \A j \in 1 .. inter : Listed("inter")[j] # c
      /\ r # 0 => Listed("inter")[r] = c
  BY <1>2, ReuseFacts
<1> HIDE DEF r, c
<1>7. /\ Len(reuse') = mk /\ reuse' \in Seq(Nat) /\ reuse'[mk] = r
      /\ \A i \in 1 .. mk - 1 : reuse'[i] = reuse[i]
  BY <1>1, <1>3, <1>4, <1>6
<1>8. /\ avail' \in Seq(Channels) /\ Len(avail') = IF r = 0 THEN len + 1 ELSE len
      /\ \A n \in 1 .. len : avail'[n] = avail[n]
      /\ r = 0 => avail'[len + 1] = c
  BY <1>1, <1>4, <1>5
<1>9. /\ len >= inter
      /\ \A i \in 1 .. inter : avail[i] = Listed("inter")[i]
      /\ \A n \in inter + 1 .. len : \E i \in 1 .. mk - 1 :
            reuse[i] = 0 /\ avail[n] = Listed("intra")[i]
      /\ \A i \in 1 .. mk - 1 : Fits(i)
      /\ \A m, n \in 1 .. len : avail[m] = avail[n] => m = n
  BY <1>2, <1>4 DEF ChannelInv, AvailInv
<1>10. /\ Listed("inter")' = Listed("inter") /\ Listed("intra")' = Listed("intra") /\ num' = num
  BY <1>1, ListsSame DEF Sides
<1>11. TypeOK'
  BY <1>1, <1>4, <1>7, <1>8 DEF ChannelInv, TypeOK, layer, daemon
<1>12. AvailInv'
  <2>1. Len(avail') >= inter /\ Len(avail') \in {len, len + 1} /\ (Len(avail') = len + 1 => r = 0)
    BY <1>3, <1>4, <1>8, <1>9
  <2>2. \A i \in 1 .. inter : avail'[i] = Listed("inter")[i]
    BY <1>3, <1>4, <1>8, <1>9
  <2>3. ASSUME NEW n \in inter + 1 .. Len(avail')
        PROVE  \E i \in 1 .. Len(reuse') : reuse'[i] = 0 /\ avail'[n] = Listed("intra")[i]
    <3>1. CASE n \in inter + 1 .. len
      <4>1. PICK i \in 1 .. mk - 1 : reuse[i] = 0 /\ avail[n] = Listed("intra")[i]
        BY <3>1, <1>9
      <4>2. i \in 1 .. Len(reuse') /\ n \in 1 .. len
        BY <4>1, <3>1, <1>3, <1>4, <1>7
      <4> QED BY <4>1, <4>2, <1>7, <1>8
    <3>2. CASE n = len + 1 /\ r = 0
      <4>1. mk \in 1 .. Len(reuse') /\ reuse'[mk] = 0 /\ avail'[n] = Listed("intra")[mk]
        BY <3>2, <1>4, <1>7, <1>8 DEF c
      <4> QED BY <4>1
    <3> QED BY <3>1, <3>2, <2>1, <1>3, <1>4
  <2>4. ASSUME NEW i \in 1 .. Len(reuse')
        PROVE  Fits(i)'
    <3>1. i \in 1 .. mk - 1 \/ i = mk
      BY <1>3, <1>4, <1>7
    <3>2. CASE i \in 1 .. mk - 1
      <4>1. Fits(i) /\ reuse'[i] = reuse[i]
        BY <3>2, <1>7, <1>9
      <4>2. \A n \in 1 .. len : n \in 1 .. Len(avail') /\ avail'[n] = avail[n]
        BY <2>1, <1>4, <1>8
      <4> QED BY <4>1, <4>2, <1>10 DEF Fits
    <3>3. CASE i = mk /\ r = 0
      <4>1. len + 1 \in 1 .. Len(avail') /\ avail'[len + 1] = c /\ reuse'[i] = 0
        BY <3>3, <1>4, <1>7, <1>8
      <4>2. \E n \in 1 .. Len(avail') : avail'[n] = Listed("intra")[i]
        BY <4>1, <3>3 DEF c
      <4>3. \A j \in 1 .. inter : Listed("inter")[j] # Listed("intra")[i]
        BY <1>6, <3>3 DEF c
      <4> QED BY <4>1, <4>2, <4>3, <1>10 DEF Fits
    <3>4. CASE i = mk /\ r # 0
      <4>1. reuse'[i] = r /\ r \in 1 .. inter
        BY <3>4, <1>6, <1>7, <1>3
      <4>2. Listed("inter")[r] = Listed("intra")[i]
        BY <1>6, <3>4 DEF c
      <4> QED BY <4>1, <4>2, <3>4, <1>10 DEF Fits
    <3> QED BY <3>1, <3>2, <3>3, <3>4
  <2>5. ASSUME r = 0, NEW n \in 1 .. len
        PROVE  avail[n] # c
    <3>1. CASE n <= inter
      <4>1. n \in 1 .. inter
        BY <3>1, <1>3
      <4> QED BY <4>1, <2>5, <1>6, <1>9
    <3>2. CASE ~(n <= inter)
      <4>1. n \in inter + 1 .. len
        BY <3>2, <1>3, <1>4
      <4>2. PICK i \in 1 .. mk - 1 : avail[n] = Listed("intra")[i]
        BY <4>1, <1>9
      <4>3. i \in 1 .. num["intra"] /\ i # mk
        BY <4>2, <1>3, <1>4
      <4> QED BY <4>2, <4>3, <1>3, <1>4 DEF c
    <3> QED BY <3>1, <3>2
  <2>6. ASSUME NEW m \in 1 .. Len(avail'), NEW n \in 1 .. Len(avail'), avail'[m] = avail'[n]
        PROVE  m = n
    <3>1. m \in 1 .. len \/ (m = len + 1 /\ r = 0)
      BY <2>1, <1>4
    <3>2. n \in 1 .. len \/ (n = len + 1 /\ r = 0)
      BY <2>1, <1>4
    <3>3. CASE m \in 1 .. len /\ n \in 1 .. len
      BY <3>3, <2>6, <1>8, <1>9
    <3>4. CASE m \in 1 .. len /\ n = len + 1 /\ r = 0
      BY <3>4, <2>6, <2>5, <1>8
    <3>5. CASE n \in 1 .. len /\ m = len + 1 /\ r = 0
      BY <3>5, <2>6, <2>5, <1>8
    <3> QED BY <3>1, <3>2, <3>3, <3>4, <3>5
  <2>7. mpc' = mpc /\ Len(reuse') = mk' - 1 /\ mk' <= num["intra"] + 1
    BY <1>1, <1>3, <1>4, <1>7
  <2> HIDE DEF inter, len
  <2>8. /\ num'["inter"] = inter /\ num'["intra"] = num["intra"]
    BY <1>10 DEF inter
  <2> QED BY <2>1, <2>2, <2>3, <2>4, <2>6, <2>7, <2>8, <1>2, <1>10 DEF AvailInv
<1>13. SelectInv'
  BY <1>1, SelectKept DEF ChannelInv
<1>14. UNCHANGED <<offset, total, opened, memOffset>>
  BY <1>1 DEF layer
<1>15. Turns' /\ Layout' /\ OpenInv'
  <2>1. num' \in [Sides -> Nat]
    BY <1>1, RegFacts DEF ChannelInv, TypeOK
  <2> QED BY <1>1, <1>2, <1>14, <2>1, EarlyKept
<1>16. DaemonInv' /\ UserErrors'
  BY <1>1, <1>2, EarlyDaemon
<1> QED BY <1>11, <1>12, <1>13, <1>15, <1>16 DEF ChannelInv

LEMMA CombineEndStep ==
    ASSUME ChannelInv, CombineEnd
    PROVE  ChannelInv'
<1>1. /\ mpc = "reuse" /\ mk > num["intra"] /\ mpc' = "open" /\ mk' = 1
      /\ UNCHANGED lists /\ UNCHANGED <<offset, total, opened, memOffset>>
      /\ UNCHANGED <<daemon, err>>
  BY DEF CombineEnd
<1>2. UNCHANGED <<env, cell, num>> /\ UNCHANGED <<avail, reuse>>
  BY <1>1 DEF lists
<1>3. TypeOK'
  BY <1>1, <1>2 DEF ChannelInv, TypeOK, daemon, Phases, Starting
<1>4. SelectInv'
  BY <1>1, <1>2, SelectKept DEF ChannelInv, Unchecked, Selecting
<1>5. AvailInv'
  <2>1. Listed("inter")' = Listed("inter") /\ Listed("intra")' = Listed("intra")
    BY <1>2, ListsSame DEF Sides
  <2>2. \A i : Fits(i)' <=> Fits(i)
    BY <1>2, <2>1 DEF Fits
  <2>3. /\ num["intra"] \in Nat /\ mk \in Nat
    BY RegFacts DEF ChannelInv, TypeOK, Sides
  <2>4. Len(reuse) = num["intra"]
    BY <1>1, <2>3 DEF ChannelInv, AvailInv
  <2>5. mpc' = "open" /\ mpc' \notin Uncombined /\ mpc \notin Uncombined
    BY <1>1 DEF Uncombined, Unchecked, Selecting
  <2> QED BY <1>2, <2>1, <2>2, <2>4, <2>5 DEF ChannelInv, AvailInv
<1>6. Turns' /\ Layout' /\ OpenInv'
  <2>1. num' \in [Sides -> Nat]
    BY <1>2, RegFacts DEF ChannelInv, TypeOK
  <2> QED BY <1>1, <2>1, EarlyKept DEF Unopened
<1>7. DaemonInv' /\ UserErrors'
  BY <1>1, EarlyDaemon DEF Starting, Unopened
<1> QED BY <1>3, <1>4, <1>5, <1>6, <1>7 DEF ChannelInv

-----------------------------------------------------------------------------
(* unr_init: opening *)

OpenSide == IF mk <= num["inter"] THEN "inter" ELSE "intra"
OpenIndex == IF OpenSide = "inter" THEN mk ELSE mk - num["inter"]

LEMMA TurnArithmetic ==
    ASSUME NEW a \in Nat, NEW b \in Nat, NEW p \in Nat, NEW q \in Nat, NEW m \in Nat,
           a <= p, b <= q, m = a + b + 1, b > 0 => a = p, m <= p + q
    PROVE  /\ m <= p => b = 0 /\ m = a + 1 /\ m \in 1 .. p
           /\ ~(m <= p) => a = p /\ m - p = b + 1 /\ m - p \in 1 .. q
  OBVIOUS

LEMMA OpenTypes ==
    ASSUME ChannelInv, mpc = "open", NEW t \in Sides
    PROVE  /\ num[t] \in Nat /\ offset[t] \in Seq(Nat) /\ Len(offset[t]) \in Nat
           /\ Len(offset[t]) <= num[t]
<1>1. num[t] \in Nat
  BY RegFacts DEF ChannelInv, TypeOK
<1>2. offset[t] \in Seq(Nat)
  BY DEF ChannelInv, TypeOK
<1>3. Len(offset[t]) <= num[t]
  BY DEF ChannelInv, Turns, Sides
<1> QED BY <1>1, <1>2, <1>3

\* Each turn of the loop appends one place to the offsets of its side.
LEMMA TurnFacts ==
    ASSUME ChannelInv, mpc = "open", mk <= num["inter"] + num["intra"]
    PROVE  /\ OpenSide \in Sides /\ OpenIndex \in 1 .. num[OpenSide]
           /\ OpenIndex = Len(offset[OpenSide]) + 1
           /\ OpenSide = "intra" => Len(offset["inter"]) = num["inter"]
           /\ OpenSide = "inter" => Len(offset["intra"]) = 0
<1>1. /\ num["inter"] \in Nat /\ num["intra"] \in Nat /\ mk \in Nat /\ mk > 0
      /\ Len(offset["inter"]) \in Nat /\ Len(offset["intra"]) \in Nat
  <2>1. mk \in Nat /\ mk > 0
    BY DEF ChannelInv, TypeOK
  <2> QED BY <2>1, OpenTypes DEF Sides
<1>2. /\ Len(offset["inter"]) <= num["inter"] /\ Len(offset["intra"]) <= num["intra"]
      /\ mk = Len(offset["inter"]) + Len(offset["intra"]) + 1
      /\ Len(offset["intra"]) > 0 => Len(offset["inter"]) = num["inter"]
  BY DEF ChannelInv, Turns
<1>0. /\ mk <= num["inter"] => /\ Len(offset["intra"]) = 0 /\ mk = Len(offset["inter"]) + 1
                               /\ mk \in 1 .. num["inter"]
      /\ ~(mk <= num["inter"]) => /\ Len(offset["inter"]) = num["inter"]
                                  /\ mk - num["inter"] = Len(offset["intra"]) + 1
                                  /\ mk - num["inter"] \in 1 .. num["intra"]
  <2> DEFINE a == Len(offset["inter"])  b == Len(offset["intra"])
             p == num["inter"]  q == num["intra"]
  <2>1. /\ a \in Nat /\ b \in Nat /\ p \in Nat /\ q \in Nat /\ mk \in Nat
        /\ a <= p /\ b <= q /\ mk = a + b + 1 /\ (b > 0 => a = p) /\ mk <= p + q
    BY <1>1, <1>2
  <2> HIDE DEF a, b, p, q
  <2>2. /\ mk <= p => b = 0 /\ mk = a + 1 /\ mk \in 1 .. p
        /\ ~(mk <= p) => a = p /\ mk - p = b + 1 /\ mk - p \in 1 .. q
    BY ONLY <2>1, TurnArithmetic
  <2> QED BY <2>2 DEF a, b, p, q
<1>3. CASE mk <= num["inter"]
  <2>1. OpenSide = "inter" /\ OpenIndex = mk
    BY <1>3 DEF OpenSide, OpenIndex
  <2> QED BY <1>0, <1>3, <2>1 DEF Sides
<1>4. CASE ~(mk <= num["inter"])
  <2>1. OpenSide = "intra" /\ OpenIndex = mk - num["inter"]
    BY <1>4 DEF OpenSide, OpenIndex
  <2> QED BY <1>0, <1>4, <2>1 DEF Sides
<1> QED BY <1>3, <1>4

\* A channel whose handle has a place of its own is not among those that have one.
LEMMA FreshNotLaid ==
    ASSUME ChannelInv, mpc = "open", mk <= num["inter"] + num["intra"],
           OpenSide = "inter" \/ reuse[OpenIndex] = 0
    PROVE  ~Laid(Listed(OpenSide)[OpenIndex])
<1> DEFINE c == Listed(OpenSide)[OpenIndex]
<1>1. /\ OpenSide \in Sides /\ OpenIndex \in 1 .. num[OpenSide]
      /\ OpenIndex = Len(offset[OpenSide]) + 1
      /\ OpenSide = "intra" => Len(offset["inter"]) = num["inter"]
      /\ OpenSide = "inter" => Len(offset["intra"]) = 0
  BY TurnFacts
<1>2. mpc \notin Unchecked /\ mpc \notin Uncombined /\ mpc \notin Unopened
  BY DEF Unopened, Uncombined, Unchecked, Selecting
<1>3. \A s \in Sides :
         /\ num[s] \in Nat /\ Len(offset[s]) \in Nat /\ Len(offset[s]) <= num[s]
         /\ \A i, j \in 1 .. num[s] : Listed(s)[i] = Listed(s)[j] => i = j
  BY <1>2, Checked, OpenTypes
<1> SUFFICES ASSUME NEW t \in Sides, NEW j \in 1 .. Len(offset[t]), Listed(t)[j] = c
             PROVE  FALSE
  BY DEF Laid
<1>4. j \in 1 .. num[t] /\ j \in Nat
  BY <1>3
<1>5. CASE t = OpenSide
  <2>1. j # OpenIndex
    BY <1>1, <1>3, <1>5
  <2> QED BY <1>1, <1>3, <1>4, <1>5, <2>1
<1>6. CASE t # OpenSide
  <2>1. OpenSide = "intra" /\ t = "inter"
    BY <1>1, <1>6 DEF Sides
  <2>2. reuse[OpenIndex] = 0 /\ OpenIndex \in 1 .. Len(reuse)
    BY <1>1, <1>2, <2>1 DEF ChannelInv, AvailInv
  <2>3. Fits(OpenIndex)
    BY <1>2, <2>2 DEF ChannelInv, AvailInv
  <2> QED BY <1>4, <2>1, <2>2, <2>3 DEF Fits
<1> QED BY <1>5, <1>6

\* One offset more: which channels have a place, and where
LEMMA OffsetGrows ==
    ASSUME ChannelInv, mpc = "open", mk <= num["inter"] + num["intra"],
           UNCHANGED <<env, cell, num>>, NEW v \in Nat,
           offset' = [offset EXCEPT ![OpenSide] = Append(@, v)]
    PROVE  /\ offset' \in [Sides -> Seq(Nat)]
           /\ Len(offset'[OpenSide]) = OpenIndex /\ offset'[OpenSide][OpenIndex] = v
           /\ \A i \in 1 .. OpenIndex - 1 : offset'[OpenSide][i] = offset[OpenSide][i]
           /\ \A t \in Sides : t # OpenSide => offset'[t] = offset[t]
           /\ \A d : Laid(d)' <=> Laid(d) \/ d = Listed(OpenSide)[OpenIndex]
<1>1. /\ OpenSide \in Sides /\ OpenIndex \in 1 .. num[OpenSide]
      /\ OpenIndex = Len(offset[OpenSide]) + 1
  BY TurnFacts
<1>2. offset \in [Sides -> Seq(Nat)]
  BY DEF ChannelInv, TypeOK
<1> DEFINE s == OpenSide
           n == OpenIndex
           old == offset[s]
<1>3. old \in Seq(Nat) /\ Len(old) \in Nat
  BY <1>1, <1>2
<1>4. /\ offset' \in [Sides -> Seq(Nat)] /\ offset'[s] = Append(old, v)
      /\ \A t \in Sides : t # s => offset'[t] = offset[t]
  BY <1>1, <1>2, <1>3
<1>5. /\ Len(offset'[s]) = n /\ offset'[s][n] = v
      /\ \A i \in 1 .. n - 1 : offset'[s][i] = old[i]
  BY <1>1, <1>3, <1>4
<1>6. \A t \in Sides : Listed(t)' = Listed(t)
  BY ListsSame
<1>7. \A d : Laid(d)' <=> Laid(d) \/ d = Listed(s)[n]
  <2>1. 1 .. Len(offset'[s]) = 1 .. Len(offset[s]) \cup {n} /\ n \in 1 .. Len(offset'[s])
    BY <1>1, <1>3, <1>5
  <2> HIDE DEF n, s
  <2>2. /\ s \in Sides
        /\ \A t \in Sides : t # s => Len(offset'[t]) = Len(offset[t])
    BY <1>1, <1>4 DEF s
  <2> QED BY <1>6, <2>1, <2>2 DEF Laid
<1> QED BY <1>4, <1>5, <1>7

LEMMA OpenNextStep ==
    ASSUME ChannelInv, OpenNext
    PROVE  ChannelInv'
<1> DEFINE s == OpenSide
           n == OpenIndex
           c == Listed(s)[n]
           v == HandlePlace(s, n)
           Fresh == s = "inter" \/ reuse[n] = 0
<1>1. /\ mpc = "open" /\ mk <= num["inter"] + num["intra"] /\ mk' = mk + 1 /\ err = "no"
      /\ offset' = [offset EXCEPT ![s] = Append(@, v)]
      /\ UNCHANGED lists /\ mpc' = mpc /\ UNCHANGED daemon
  BY DEF OpenNext, OpenSide, OpenIndex
<1>2. IF Fresh THEN ChannelOpen(c) /\ total' = total + HandleSize[c]
               ELSE UNCHANGED <<total, opened, memOffset, err>>
  BY DEF OpenNext, OpenSide, OpenIndex
<1>3. UNCHANGED <<env, cell, num>> /\ UNCHANGED <<avail, reuse>>
  BY <1>1 DEF lists
<1>4. /\ s \in Sides /\ n \in 1 .. num[s] /\ n = Len(offset[s]) + 1
      /\ s = "intra" => Len(offset["inter"]) = num["inter"]
      /\ s = "inter" => Len(offset["intra"]) = 0
  BY <1>1, TurnFacts
<1>5. mpc \notin Unchecked /\ mpc \notin Uncombined /\ mpc \notin Unopened /\ mpc \in Starting
  BY <1>1 DEF Starting, Unopened, Uncombined, Unchecked, Selecting
<1>6. /\ \A t \in Sides : /\ num[t] \in Nat /\ Len(offset[t]) \in Nat
                          /\ offset[t] \in Seq(Nat) /\ Len(offset[t]) <= num[t]
      /\ Listed(s) \in [1 .. num[s] -> Channels]
      /\ total \in Nat /\ memOffset \in [Channels -> Nat] /\ mk \in Nat \ {0}
  <2>1. total \in Nat /\ memOffset \in [Channels -> Nat] /\ mk \in Nat \ {0}
    BY DEF ChannelInv, TypeOK
  <2> QED BY <2>1, <1>1, <1>4, <1>5, Checked, OpenTypes
<1>7. c \in Channels
  BY <1>4, <1>6
<1>8. HandleSize[c] \in Nat
  BY <1>7, RegFacts
\* What a channel that is opened before, for the inter list, is found by
<1>9. ASSUME ~Fresh
      PROVE  v = memOffset[c] /\ Laid(c) /\ v \in Nat
  <2>1. s = "intra" /\ reuse[n] # 0 /\ n \in 1 .. Len(reuse)
    BY <1>4, <1>5, <1>9 DEF ChannelInv, AvailInv, Sides
  <2>2. reuse[n] \in 1 .. num["inter"] /\ Listed("inter")[reuse[n]] = c
    BY <1>5, <2>1 DEF ChannelInv, AvailInv, Fits
  <2>3. reuse[n] \in 1 .. Len(offset["inter"])
    BY <1>4, <2>1, <2>2
  <2>4. v = offset["inter"][reuse[n]]
    BY <2>1 DEF HandlePlace
  <2>5. v = memOffset[c]
    BY <2>2, <2>3, <2>4 DEF ChannelInv, Layout, Sides
  <2> QED BY <1>6, <1>7, <2>2, <2>3, <2>5 DEF Laid, Sides
<1>10. ASSUME Fresh
       PROVE  /\ v = total /\ ~Laid(c) /\ err' = err
              /\ opened' = [opened EXCEPT ![c] = TRUE]
              /\ memOffset' = [memOffset EXCEPT ![c] = total]
              /\ total' = total + HandleSize[c]
  <2>1. v = total
    BY <1>10 DEF HandlePlace
  <2>2. ~Laid(c)
    BY <1>1, <1>10, FreshNotLaid
  <2>3. ~opened[c]
    BY <1>5, <1>7, <2>2 DEF ChannelInv, OpenInv
  <2> QED BY <1>2, <1>10, <2>1, <2>2, <2>3 DEF ChannelOpen
<1>11. v \in Nat
  BY <1>6, <1>9, <1>10
<1> HIDE DEF v, c
<1>12. /\ offset' \in [Sides -> Seq(Nat)]
       /\ Len(offset'[s]) = n /\ offset'[s][n] = v
       /\ \A i \in 1 .. n - 1 : offset'[s][i] = offset[s][i]
       /\ \A t \in Sides : t # s => offset'[t] = offset[t]
       /\ \A d : Laid(d)' <=> Laid(d) \/ d = c
  BY <1>1, <1>3, <1>11, OffsetGrows DEF c
<1> HIDE DEF Fresh, s, n
<1>13. err' = err /\ total' \in Nat /\ memOffset' \in [Channels -> Nat]
       /\ opened' \in [Channels -> BOOLEAN]
  <2>0. opened \in [Channels -> BOOLEAN]
    BY DEF ChannelInv, TypeOK
  <2>1. CASE Fresh
    <3>1. total' \in Nat /\ err' = err
      BY <2>1, <1>6, <1>8, <1>10
    <3>2. memOffset' \in [Channels -> Nat]
      BY <2>1, <1>6, <1>10
    <3>3. opened' \in [Channels -> BOOLEAN]
      BY <2>0, <2>1, <1>10
    <3> QED BY <3>1, <3>2, <3>3
  <2>2. CASE ~Fresh
    BY <2>0, <2>2, <1>2, <1>6
  <2> QED BY <2>1, <2>2
<1>14. TypeOK'
  BY <1>1, <1>3, <1>6, <1>12, <1>13 DEF ChannelInv, TypeOK, daemon
<1>15. SelectInv'
  BY <1>1, <1>3, SelectKept DEF ChannelInv
<1>16. AvailInv'
  BY <1>1, <1>3, <1>5, AvailKept DEF ChannelInv
<1>17. Turns'
  <2>1. num' = num /\ mpc' = "open" /\ mk = Len(offset["inter"]) + Len(offset["intra"]) + 1
    BY <1>1, <1>3 DEF ChannelInv, Turns
  <2>2. mpc' \notin Unopened /\ mpc' \in Starting
    BY <1>1, <1>5
  <2>0. /\ num["inter"] \in Nat /\ Len(offset["inter"]) \in Nat
        /\ num["intra"] \in Nat /\ Len(offset["intra"]) \in Nat
    BY <1>6 DEF Sides
  <2>3. CASE s = "inter"
    <3>1. Len(offset'["inter"]) = Len(offset["inter"]) + 1 /\ Len(offset'["intra"]) = 0
          /\ Len(offset["intra"]) = 0 /\ Len(offset'["inter"]) <= num["inter"]
      BY <2>3, <1>4, <1>6, <1>12 DEF Sides
    <3>2. num["intra"] \in Nat /\ mk' = Len(offset'["inter"]) + Len(offset'["intra"]) + 1
      BY <3>1, <2>0, <2>1, <1>1
    <3> QED BY <2>1, <2>2, <3>1, <3>2 DEF Turns
  <2>4. CASE s = "intra"
    <3>0. "inter" \in Sides /\ "inter" # s
      BY <2>4 DEF Sides
    <3>1. Len(offset'["intra"]) = Len(offset["intra"]) + 1 /\ offset'["inter"] = offset["inter"]
          /\ Len(offset["inter"]) = num["inter"] /\ Len(offset'["intra"]) <= num["intra"]
      BY <2>4, <3>0, <1>4, <1>6, <1>12
    <3>2. num["inter"] \in Nat /\ mk' = Len(offset'["inter"]) + Len(offset'["intra"]) + 1
      BY <3>1, <2>0, <2>1, <1>1
    <3>3. Len(offset'["inter"]) = num["inter"] /\ Len(offset'["inter"]) <= num["inter"]
      BY <3>1, <3>2
    <3> HIDE DEF s
    <3> QED BY <2>1, <2>2, <3>1, <3>2, <3>3 DEF Turns
  <2> QED BY <2>3, <2>4, <1>4 DEF Sides
<1>18. Layout' /\ OpenInv'
  <2>1. \A t \in Sides : Listed(t)' = Listed(t)
    BY <1>3, ListsSame
  <2>2. mpc' = "open" /\ mpc' \in Starting
    BY <1>1, <1>5
  <2>3. /\ \A t \in Sides : \A i \in 1 .. Len(offset[t]) : offset[t][i] = memOffset[Listed(t)[i]]
        /\ \A d \in Channels : Laid(d) =>
              HeadSize <= memOffset[d] /\ memOffset[d] + HandleSize[d] <= total
        /\ \A d, e \in Channels : Laid(d) /\ Laid(e) /\ d # e =>
              \/ memOffset[d] + HandleSize[d] <= memOffset[e]
              \/ memOffset[e] + HandleSize[e] <= memOffset[d]
        /\ HeadSize <= total
        /\ \A d \in Channels : opened[d] <=> Laid(d)
    BY <1>5 DEF ChannelInv, Layout, OpenInv
  <2>4. \A t \in Sides : \A i \in 1 .. Len(offset[t]) : Laid(Listed(t)[i])
    BY DEF Laid
  <2>5. /\ memOffset'[c] = v
        /\ \A d \in Channels : Laid(d) => memOffset'[d] = memOffset[d]
    BY <1>2, <1>6, <1>7, <1>9, <1>10
  <2>6. \A t \in Sides : Listed(t) \in [1 .. num[t] -> Channels]
    BY <1>5, Checked
  <2>7. ASSUME NEW t \in Sides, NEW i \in 1 .. Len(offset'[t])
        PROVE  offset'[t][i] = memOffset'[Listed(t)[i]]
    <3>1. CASE t = s /\ i = n
      BY <3>1, <1>12, <2>5 DEF c
    <3>2. CASE ~(t = s /\ i = n)
      <4>1. i \in 1 .. Len(offset[t]) /\ offset'[t][i] = offset[t][i]
        BY <3>2, <1>4, <1>6, <1>12
      <4>2. i \in 1 .. num[t]
        BY <4>1, <1>6
      <4>3. Listed(t)[i] \in Channels
        BY <4>2, <2>6
      <4> QED BY <4>1, <4>3, <2>3, <2>4, <2>5
    <3> QED BY <3>1, <3>2
  <2>8. CASE Fresh
    <3>1. /\ v = total /\ ~Laid(c) /\ total' = total + HandleSize[c]
          /\ opened' = [opened EXCEPT ![c] = TRUE]
      BY <2>8, <1>10
    <3>2. \A d \in Channels : /\ memOffset[d] \in Nat /\ HandleSize[d] \in Nat
                              /\ memOffset'[d] \in Nat
      BY <1>6, <1>13, RegFacts
    <3>3. \A d \in Channels : Laid(d)' =>
             HeadSize <= memOffset'[d] /\ memOffset'[d] + HandleSize[d] <= total'
      <4> SUFFICES ASSUME NEW d \in Channels, Laid(d)'
                   PROVE  HeadSize <= memOffset'[d] /\ memOffset'[d] + HandleSize[d] <= total'
        OBVIOUS
      <4>1. CASE d = c
        BY <4>1, <3>1, <3>2, <2>3, <2>5, <1>6, <1>8
      <4>2. CASE Laid(d)
        <5>1. HeadSize <= memOffset[d] /\ memOffset[d] + HandleSize[d] <= total
          BY <4>2, <2>3
        <5>2. memOffset'[d] = memOffset[d]
          BY <4>2, <2>5
        <5> QED BY <5>1, <5>2, <3>1, <3>2, <1>6, <1>8
      <4> QED BY <4>1, <4>2, <1>12
    <3>4. \A d, e \in Channels : Laid(d)' /\ Laid(e)' /\ d # e =>
             \/ memOffset'[d] + HandleSize[d] <= memOffset'[e]
             \/ memOffset'[e] + HandleSize[e] <= memOffset'[d]
      <4> SUFFICES ASSUME NEW d \in Channels, NEW e \in Channels, Laid(d)', Laid(e)', d # e
                   PROVE  \/ memOffset'[d] + HandleSize[d] <= memOffset'[e]
                          \/ memOffset'[e] + HandleSize[e] <= memOffset'[d]
        OBVIOUS
      <4>1. CASE Laid(d) /\ Laid(e)
        BY <4>1, <2>3, <2>5
      <4>2. CASE d = c /\ Laid(e)
        <5>1. memOffset[e] + HandleSize[e] <= total /\ memOffset'[e] = memOffset[e]
          BY <4>2, <2>3, <2>5
        <5> QED BY <4>2, <5>1, <3>1, <2>5
      <4>3. CASE e = c /\ Laid(d)
        <5>1. memOffset[d] + HandleSize[d] <= total /\ memOffset'[d] = memOffset[d]
          BY <4>3, <2>3, <2>5
        <5> QED BY <4>3, <5>1, <3>1, <2>5
      <4> QED BY <4>1, <4>2, <4>3, <1>12
    <3>5. HeadSize <= total'
      BY <3>1, <2>3, <1>6, <1>8, RegFacts
    <3>6. \A d \in Channels : opened'[d] <=> Laid(d)'
      BY <3>1, <2>3, <1>7, <1>12 DEF ChannelInv, TypeOK
    <3>7. Layout'
      BY <2>1, <2>7, <3>3, <3>4, <3>5 DEF Layout
    <3> QED BY <2>2, <3>6, <3>7 DEF OpenInv, Starting, Unopened, Uncombined, Unchecked, Selecting
  <2>9. CASE ~Fresh
    <3>1. UNCHANGED <<total, opened, memOffset>> /\ Laid(c)
      BY <2>9, <1>2, <1>9
    <3>2. \A d : Laid(d)' <=> Laid(d)
      BY <3>1, <1>12
    <3>3. Layout'
      BY <2>1, <2>3, <2>7, <3>1, <3>2 DEF Layout
    <3> QED BY <2>2, <2>3, <3>1, <3>2, <3>3 DEF OpenInv, Starting, Unopened, Uncombined, Unchecked, Selecting
  <2> QED BY <2>8, <2>9
<1>19. DaemonInv' /\ UserErrors'
  BY <1>1, <1>5, <1>13, EarlyDaemon
<1> QED BY <1>14, <1>15, <1>16, <1>17, <1>18, <1>19 DEF ChannelInv

LEMMA InitEndStep ==
    ASSUME ChannelInv, InitEnd
    PROVE  ChannelInv'
<1> DEFINE Differ == \E s \in Sides : \E i \in 2 .. num[s] : Kind[Listed(s)[i]] # Kind[Listed(s)[1]]
<1>1. CASE Differ
  <2>1. Halt("different channels")
    BY <1>1 DEF InitEnd
  <2> QED BY <2>1, HaltStep
<1>2. CASE ~Differ
  <2>1. /\ mpc = "open" /\ mk > num["inter"] + num["intra"] /\ mpc' = "user" /\ dpc' = "top"
        /\ UNCHANGED lists /\ UNCHANGED layer /\ mk' = mk
        /\ UNCHANGED <<go, running, dk, work, found, err>>
    BY <1>2 DEF InitEnd
  <2>2. /\ UNCHANGED <<env, cell, num>> /\ UNCHANGED <<env, cell, num, avail, reuse>>
        /\ UNCHANGED <<env, cell, num, offset, total, memOffset>> /\ opened' = opened
    BY <2>1 DEF lists, layer
  <2>3. /\ mpc' \notin Starting /\ mpc' \notin Unopened /\ mpc' \notin Unchecked
        /\ mpc \in Starting /\ mpc \notin Unopened /\ mpc \notin Unchecked /\ mpc' \in Phases
    BY <2>1 DEF Phases, Starting, Unopened, Uncombined, Unchecked, Selecting
  <2>4. TypeOK'
    BY <2>1, <2>2, <2>3 DEF ChannelInv, TypeOK
  <2>5. SelectInv'
    BY <2>2, <2>3, SelectKept DEF ChannelInv
  <2>6. AvailInv'
    BY <2>2, <2>3, AvailKept DEF ChannelInv
  <2>7. Turns'
    <3>1. /\ num["inter"] \in Nat /\ Len(offset["inter"]) \in Nat
          /\ num["intra"] \in Nat /\ Len(offset["intra"]) \in Nat
          /\ Len(offset["inter"]) <= num["inter"] /\ Len(offset["intra"]) <= num["intra"]
      BY <2>1, OpenTypes DEF Sides
    <3>2. mk = Len(offset["inter"]) + Len(offset["intra"]) + 1
      BY <2>1 DEF ChannelInv, Turns
    <3>3. Len(offset["inter"]) = num["inter"] /\ Len(offset["intra"]) = num["intra"]
      <4> DEFINE a == Len(offset["inter"])  b == Len(offset["intra"])
                 p == num["inter"]  q == num["intra"]
      <4>1. /\ a \in Nat /\ b \in Nat /\ p \in Nat /\ q \in Nat
            /\ a <= p /\ b <= q /\ a + b + 1 > p + q
        BY <2>1, <3>1, <3>2
      <4> HIDE DEF a, b, p, q
      <4>2. a = p /\ b = q
        BY ONLY <4>1
      <4> QED BY <4>2 DEF a, b, p, q
    <3> QED BY <2>1, <2>2, <2>3, <3>3 DEF Turns, Sides
  <2>8. Layout' /\ OpenInv'
    <3>1. Layout' /\ \A c : Laid(c)' <=> Laid(c)
      BY <2>2, LayoutKept DEF ChannelInv
    <3> QED BY <3>1, <2>1, <2>2, <2>3 DEF ChannelInv, OpenInv
  <2>9. DaemonInv' /\ UserErrors'
    BY <2>1, <2>3 DEF ChannelInv, DaemonInv, UserErrors
  <2> QED BY <2>4, <2>5, <2>6, <2>7, <2>8, <2>9 DEF ChannelInv
<1> HIDE DEF Differ
<1> QED BY <1>1, <1>2

-----------------------------------------------------------------------------
(* unr_finalize *)

\* The main thread goes on, with the lists and the layout as they are.
LEMMA LaterStep ==
    ASSUME ChannelInv, mpc \notin Starting, mpc' \in Phases, mpc' \notin Starting,
           UNCHANGED lists, UNCHANGED <<offset, total, memOffset>>, UNCHANGED err,
           opened' \in [Channels -> BOOLEAN], mk' \in Nat \ {0}, go' \in BOOLEAN,
           UNCHANGED <<running, dpc, dk, work, found>>,
           OpenInv', DaemonInv'
    PROVE  ChannelInv'
<1>1. /\ UNCHANGED <<env, cell, num>> /\ UNCHANGED <<env, cell, num, avail, reuse>>
      /\ UNCHANGED <<env, cell, num, offset, total, memOffset>>
  BY DEF lists
<1>2. /\ mpc \notin Unopened /\ mpc' \notin Unopened /\ mpc \notin Unchecked /\ mpc' \notin Unchecked
      /\ mpc # "open" /\ mpc' # "open"
  BY DEF Starting, Unopened, Uncombined
<1>3. TypeOK'
  BY <1>1 DEF ChannelInv, TypeOK
<1>4. SelectInv'
  BY <1>1, <1>2, SelectKept DEF ChannelInv
<1>5. AvailInv'
  BY <1>1, <1>2, AvailKept DEF ChannelInv
<1>6. Turns'
  BY <1>1, <1>2 DEF ChannelInv, Turns
<1>7. Layout'
  BY <1>1, LayoutKept DEF ChannelInv
<1>8. UserErrors'
  BY DEF ChannelInv, UserErrors
<1> QED BY <1>3, <1>4, <1>5, <1>6, <1>7, <1>8 DEF ChannelInv

LEMMA FinalizeStep ==
    ASSUME ChannelInv, Finalize
    PROVE  ChannelInv'
<1>1. /\ mpc = "user" /\ mpc' = "stop" /\ go' = FALSE
      /\ UNCHANGED lists /\ UNCHANGED layer /\ mk' = mk
      /\ UNCHANGED <<running, dpc, dk, work, found>> /\ UNCHANGED err
  BY DEF Finalize
<1>2. /\ UNCHANGED <<env, cell, num, offset, total, memOffset>> /\ UNCHANGED <<offset, total, memOffset>>
      /\ opened' = opened /\ avail' = avail
  BY <1>1 DEF layer, lists
<1>3. /\ mpc \notin Starting /\ mpc' \notin Starting /\ mpc' \in Phases
  BY <1>1 DEF Phases, Starting, Unopened, Uncombined, Unchecked, Selecting
<1>4. /\ mk' \in Nat \ {0} /\ opened' \in [Channels -> BOOLEAN] /\ go' \in BOOLEAN
  BY <1>1, <1>2 DEF ChannelInv, TypeOK
<1>5. OpenInv'
  <2>1. \A c : Laid(c)' <=> Laid(c)
    BY <1>2, LayoutKept DEF ChannelInv
  <2> QED BY <1>1, <1>2, <2>1 DEF ChannelInv, OpenInv
<1>6. DaemonInv'
  BY <1>1, <1>2, <1>3 DEF ChannelInv, DaemonInv
<1> QED BY <1>1, <1>2, <1>3, <1>4, <1>5, <1>6, LaterStep

LEMMA FinalizeWaitStep ==
    ASSUME ChannelInv, FinalizeWait
    PROVE  ChannelInv'
<1>1. /\ mpc = "stop" /\ mpc' = "close" /\ mk' = 1 /\ ~running
      /\ UNCHANGED lists /\ UNCHANGED layer /\ UNCHANGED daemon /\ UNCHANGED err
  BY DEF FinalizeWait, DaemonStopped
<1>2. /\ UNCHANGED <<env, cell, num, offset, total, memOffset>> /\ UNCHANGED <<offset, total, memOffset>>
      /\ opened' = opened /\ avail' = avail /\ reuse' = reuse /\ num' = num
      /\ go' = go /\ UNCHANGED <<running, dpc, dk, work, found>>
  BY <1>1 DEF layer, lists, daemon
<1>3. /\ mpc \notin Starting /\ mpc' \notin Starting /\ mpc' \in Phases
      /\ mpc \notin Unopened /\ mpc \notin Uncombined
  BY <1>1 DEF Phases, Starting, Unopened, Uncombined, Unchecked, Selecting
<1>4. /\ mk' \in Nat \ {0} /\ opened' \in [Channels -> BOOLEAN] /\ go' \in BOOLEAN
      /\ Len(avail) \in Nat
  BY <1>1, <1>2 DEF ChannelInv, TypeOK
\* All that is open is among the available channels.
<1>5. ASSUME NEW c \in Channels, opened[c]
      PROVE  \E n \in 1 .. Len(avail) : avail[n] = c
  <2>1. Laid(c)
    BY <1>1, <1>5 DEF ChannelInv, OpenInv
  <2>2. PICK s \in Sides : \E i \in 1 .. Len(offset[s]) : Listed(s)[i] = c
    BY <2>1 DEF Laid
  <2>3. PICK i \in 1 .. num[s] : Listed(s)[i] = c
    BY <2>2, <1>3 DEF ChannelInv, Turns
  <2>4. CASE s = "inter"
    <3>0. num["inter"] \in Nat
      BY <1>1, Checked DEF Unchecked, Selecting, Sides
    <3>1. Len(avail) >= num["inter"] /\ avail[i] = Listed("inter")[i]
      BY <2>4, <1>3 DEF ChannelInv, AvailInv
    <3>2. i \in 1 .. Len(avail)
      BY <2>4, <3>0, <3>1, <1>4
    <3> QED BY <2>3, <2>4, <3>1, <3>2
  <2>5. CASE s = "intra"
    <3>1. Fits(i)
      BY <2>5, <1>3 DEF ChannelInv, AvailInv
    <3>2. CASE reuse[i] = 0
      BY <3>1, <3>2, <2>3, <2>5 DEF Fits
    <3>3. CASE reuse[i] # 0
      <4>1. reuse[i] \in 1 .. num["inter"] /\ Listed("inter")[reuse[i]] = c
        BY <3>1, <3>3, <2>3, <2>5 DEF Fits
      <4>0. num["inter"] \in Nat
        BY <1>1, Checked DEF Unchecked, Selecting, Sides
      <4>2. Len(avail) >= num["inter"] /\ avail[reuse[i]] = Listed("inter")[reuse[i]]
        BY <4>1, <1>3 DEF ChannelInv, AvailInv
      <4>3. reuse[i] \in 1 .. Len(avail)
        BY <4>0, <4>1, <4>2, <1>4
      <4> QED BY <4>1, <4>2, <4>3
    <3> QED BY <3>2, <3>3
  <2> QED BY <2>4, <2>5 DEF Sides
<1>6. ASSUME NEW n \in 1 .. Len(avail)
      PROVE  opened[avail[n]]
  BY <1>1, AvailOpen
<1>7. OpenInv'
  BY <1>1, <1>2, <1>3, <1>4, <1>5, <1>6 DEF OpenInv
<1>8. DaemonInv'
  BY <1>1, <1>2, <1>3 DEF ChannelInv, DaemonInv
<1> QED BY <1>1, <1>2, <1>3, <1>4, <1>7, <1>8, LaterStep

LEMMA CloseNextStep ==
    ASSUME ChannelInv, CloseNext
    PROVE  ChannelInv'
<1> DEFINE c == avail[mk]
<1>1. /\ mpc = "close" /\ mk <= Len(avail) /\ mpc' = mpc /\ err = "no"
      /\ UNCHANGED lists /\ UNCHANGED <<offset, total, memOffset>> /\ UNCHANGED daemon
  BY DEF CloseNext
<1>2. /\ mk \in Nat /\ mk > 0 /\ Len(avail) \in Nat /\ avail \in Seq(Channels)
      /\ opened \in [Channels -> BOOLEAN] /\ go \in BOOLEAN
  BY DEF ChannelInv, TypeOK
<1>3. mk \in 1 .. Len(avail) /\ mk \in mk .. Len(avail) /\ c \in Channels
  BY <1>1, <1>2
<1>4. \A d \in Channels : opened[d] <=> \E n \in mk .. Len(avail) : avail[n] = d
  BY <1>1 DEF ChannelInv, OpenInv
<1>5. opened[c]
  BY <1>3, <1>4
<1>6. opened' = [opened EXCEPT ![c] = FALSE] /\ mk' = mk + 1 /\ UNCHANGED err
  BY <1>5 DEF CloseNext
<1>7. /\ mpc \notin Starting /\ mpc' \notin Starting /\ mpc' \in Phases /\ mpc \notin Uncombined
  BY <1>1 DEF Phases, Starting, Unopened, Uncombined, Unchecked, Selecting
<1>8. \A m, n \in 1 .. Len(avail) : avail[m] = avail[n] => m = n
  BY <1>7 DEF ChannelInv, AvailInv
<1>9. avail' = avail /\ go' = go /\ UNCHANGED <<running, dpc, dk, work, found>>
  BY <1>1 DEF lists, daemon
<1>10. \A d \in Channels : opened'[d] <=> \E n \in mk + 1 .. Len(avail) : avail[n] = d
  <2> SUFFICES ASSUME NEW d \in Channels
               PROVE  opened'[d] <=> \E n \in mk + 1 .. Len(avail) : avail[n] = d
    OBVIOUS
  <2>1. CASE d = c
    <3>1. ~opened'[d]
      BY <2>1, <1>2, <1>6
    <3>2. \A n \in mk + 1 .. Len(avail) : avail[n] # c
      <4> SUFFICES ASSUME NEW n \in mk + 1 .. Len(avail), avail[n] = c PROVE FALSE
        OBVIOUS
      <4>1. n \in 1 .. Len(avail) /\ n # mk
        BY <1>2
      <4> QED BY <4>1, <1>3, <1>8
    <3> QED BY <3>1, <3>2, <2>1
  <2>2. CASE d # c
    <3>1. opened'[d] <=> opened[d]
      BY <2>2, <1>2, <1>6
    <3>2. \A n \in mk .. Len(avail) : avail[n] = d => n \in mk + 1 .. Len(avail)
      BY <2>2, <1>2
    <3>3. \A n \in mk + 1 .. Len(avail) : n \in mk .. Len(avail)
      BY <1>2
    <3> QED BY <3>1, <3>2, <3>3, <1>4
  <2> QED BY <2>1, <2>2
<1>11. OpenInv'
  <2>1. mpc' = "close" /\ mk' <= Len(avail') + 1
    BY <1>1, <1>2, <1>6, <1>9
  <2>2. mpc' \notin Starting \cup {"user", "stop"}
    BY <2>1, <1>7
  <2> QED BY <2>1, <2>2, <1>6, <1>9, <1>10 DEF OpenInv
<1>12. DaemonInv'
  BY <1>1, <1>9 DEF ChannelInv, DaemonInv
<1>13. mk' \in Nat \ {0} /\ opened' \in [Channels -> BOOLEAN] /\ go' \in BOOLEAN
  <2>1. mk' \in Nat \ {0}
    BY <1>2, <1>6
  <2>2. opened' \in [Channels -> BOOLEAN]
    BY <1>2, <1>6
  <2> QED BY <2>1, <2>2, <1>2, <1>9
<1> QED BY <1>1, <1>6, <1>7, <1>9, <1>11, <1>12, <1>13, LaterStep

LEMMA FinalizeEndStep ==
    ASSUME ChannelInv, FinalizeEnd
    PROVE  ChannelInv'
<1>1. /\ mpc = "close" /\ mk > Len(avail) /\ mpc' = "done" /\ mk' = mk
      /\ UNCHANGED lists /\ UNCHANGED layer /\ UNCHANGED daemon /\ UNCHANGED err
  BY DEF FinalizeEnd
<1>2. /\ UNCHANGED <<offset, total, memOffset>> /\ opened' = opened /\ avail' = avail
      /\ go' = go /\ UNCHANGED <<running, dpc, dk, work, found>>
  BY <1>1 DEF layer, lists, daemon
<1>3. /\ mpc \notin Starting /\ mpc' \notin Starting /\ mpc' \in Phases
      /\ mpc' \notin Starting \cup {"user", "stop"}
  BY <1>1 DEF Phases, Starting, Unopened, Uncombined, Unchecked, Selecting
<1>4. /\ mk' \in Nat \ {0} /\ opened' \in [Channels -> BOOLEAN] /\ go' \in BOOLEAN
      /\ mk \in Nat /\ Len(avail) \in Nat
  BY <1>1, <1>2 DEF ChannelInv, TypeOK
<1>5. \A c \in Channels : ~opened[c]
  BY <1>1, <1>4 DEF ChannelInv, OpenInv
<1>6. OpenInv'
  BY <1>1, <1>2, <1>3, <1>5 DEF OpenInv
<1>7. DaemonInv'
  BY <1>1, <1>2, <1>3 DEF ChannelInv, DaemonInv
<1> QED BY <1>1, <1>2, <1>3, <1>4, <1>6, <1>7, LaterStep

-----------------------------------------------------------------------------
(* The theorems *)

LEMMA InitChannelInv == Init => ChannelInv
<1> SUFFICES ASSUME Init PROVE ChannelInv
  OBVIOUS
<1>1. /\ mpc = "inter" /\ avail = <<>> /\ reuse = <<>> /\ mk = 1
      /\ offset = [s \in Sides |-> <<>>] /\ dpc = "none" /\ running = TRUE /\ err = "no"
      /\ total = HeadSize /\ opened = [c \in Channels |-> FALSE]
  BY DEF Init
<1>2. /\ mpc \in Starting /\ mpc \in Unopened /\ mpc \in Uncombined /\ mpc \in Unchecked
      /\ mpc \in Selecting /\ mpc \in Phases
  BY <1>1 DEF Phases, Starting, Unopened, Uncombined, Unchecked, Selecting
<1>3. TypeOK
  <2>1. num \in [Sides -> 0 .. NumReg + 1]
    BY RegFacts DEF Init
  <2>2. offset \in [Sides -> Seq(Nat)] /\ avail \in Seq(Channels) /\ reuse \in Seq(Nat)
    BY <1>1
  <2>3. cell \in [0 .. 2 * NumReg -> Channels \cup {Unset}]
    BY DEF Init
  <2> QED BY <1>2, <2>1, <2>2, <2>3, RegFacts DEF Init, TypeOK
<1>4. SelectInv /\ AvailInv
  BY <1>1, <1>2 DEF SelectInv, AvailInv
<1>5. Turns
  BY <1>1, <1>2 DEF Turns
<1>6. \A c : ~Laid(c)
  BY <1>1 DEF Laid
<1>7. Layout
  <2>1. \A s \in Sides : Len(offset[s]) = 0
    BY <1>1
  <2> QED BY <1>1, <1>6, <2>1, RegFacts DEF Layout
<1>8. OpenInv
  BY <1>1, <1>6 DEF OpenInv
<1>9. DaemonInv /\ UserErrors
  BY <1>1, <1>2 DEF DaemonInv, UserErrors
<1> QED BY <1>3, <1>4, <1>5, <1>7, <1>8, <1>9 DEF ChannelInv

LEMMA NextChannelInv == ChannelInv /\ [Next]_vars => ChannelInv'
<1> SUFFICES ASSUME ChannelInv, [Next]_vars PROVE ChannelInv'
  OBVIOUS
<1>1. CASE Next
  <2>1. CASE Main
    BY <2>1, SelectStep, CheckStep, CombineInterStep, CombineIntraStep, CombineEndStep,
       OpenNextStep, InitEndStep, FinalizeWaitStep, CloseNextStep, FinalizeEndStep DEF Main
  <2>2. CASE Finalize
    BY <2>2, FinalizeStep
  <2>3. CASE DaemonThread
    BY <2>3, DaemonTopStep, DaemonItemStep, DaemonNextStep DEF DaemonThread
  <2>4. CASE \E c \in Channels : Arrive(c)
    BY <2>4, ArriveStep
  <2> QED BY <1>1, <2>1, <2>2, <2>3, <2>4 DEF Next
<1>2. CASE UNCHANGED vars
  <2>1. UNCHANGED <<lists, layer, mpc, mk>> /\ UNCHANGED lists /\ UNCHANGED layer
        /\ UNCHANGED daemon /\ mpc' = mpc /\ mk' = mk /\ err' = err
    BY <1>2 DEF vars
  <2>2. TypeOK'
    BY <2>1 DEF ChannelInv, TypeOK, lists, layer, daemon
  <2>3. DaemonInv' /\ UserErrors'
    BY <2>1 DEF ChannelInv, DaemonInv, UserErrors, lists, daemon
  <2> QED BY <2>1, <2>2, <2>3, DaemonFrame DEF ChannelInv
<1> QED BY <1>1, <1>2

\* The inductive invariant of init, daemon thread and finalize
THEOREM ChannelInvariant == Spec => []ChannelInv
<1> QED BY InitChannelInv, NextChannelInv, PTL DEF Spec

LEMMA ReadyPhase ==
    ASSUME ChannelInv, Ready
    PROVE  mpc \notin Starting /\ mpc \notin Unopened /\ mpc \notin Unchecked
  BY DEF Ready, Starting, Unopened, Uncombined, Unchecked, Selecting

\* However many names are written beyond a list, unr_init goes on only with
\* the channels that were asked for: a list that does not fit repeats a name.
THEOREM SelectionIsAsked == Spec => []AsSelected
<1>1. ChannelInv => AsSelected
  <2> SUFFICES ASSUME ChannelInv, Ready, NEW s \in Sides
               PROVE  Listed(s) = Wanted(s) /\ num[s] <= NumReg
    BY DEF AsSelected
  <2> QED BY ReadyPhase, Checked
<1> QED BY <1>1, ChannelInvariant, PTL

\* The memory handle, whatever the sizes, the empty handle of "mpi" included:
\* both lists store a channel's area where the channel looks for it, areas lie
\* within the handle, and those of two channels are apart.
THEOREM AreasApart == Spec => []AreasAgree
<1>1. ChannelInv => AreasAgree
  <2> SUFFICES ASSUME ChannelInv, Ready
               PROVE  AreasAgree
    BY DEF AreasAgree
  <2>1. ASSUME NEW s \in Sides, NEW i \in 1 .. num[s]
        PROVE  /\ Listed(s)[i] \in Channels /\ Laid(Listed(s)[i])
               /\ offset[s][i] = memOffset[Listed(s)[i]]
               /\ AreaEnd(s, i) = memOffset[Listed(s)[i]] + HandleSize[Listed(s)[i]]
    <3>1. Listed(s)[i] \in Channels
      BY ReadyPhase, Checked
    <3>2. Len(offset[s]) = num[s]
      BY ReadyPhase DEF ChannelInv, Turns
    <3>3. Laid(Listed(s)[i])
      BY <3>2 DEF Laid
    <3>4. offset[s][i] = memOffset[Listed(s)[i]]
      BY <3>2 DEF ChannelInv, Layout
    <3> QED BY <3>1, <3>3, <3>4 DEF AreaEnd
  <2>2. ASSUME NEW s \in Sides, NEW i \in 1 .. num[s]
        PROVE  HeadSize <= offset[s][i] /\ AreaEnd(s, i) <= total
    BY <2>1 DEF ChannelInv, Layout
  <2>3. ASSUME NEW s \in Sides, NEW t \in Sides, NEW i \in 1 .. num[s], NEW j \in 1 .. num[t],
               Listed(s)[i] # Listed(t)[j]
        PROVE  AreaEnd(s, i) <= offset[t][j] \/ AreaEnd(t, j) <= offset[s][i]
    <3>1. PICK c \in Channels : /\ c = Listed(s)[i] /\ Laid(c)
                                /\ offset[s][i] = memOffset[c]
                                /\ AreaEnd(s, i) = memOffset[c] + HandleSize[c]
      BY <2>1
    <3>2. PICK d \in Channels : /\ d = Listed(t)[j] /\ Laid(d)
                                /\ offset[t][j] = memOffset[d]
                                /\ AreaEnd(t, j) = memOffset[d] + HandleSize[d]
      BY <2>1
    <3>3. \/ memOffset[c] + HandleSize[c] <= memOffset[d]
          \/ memOffset[d] + HandleSize[d] <= memOffset[c]
      BY <3>1, <3>2, <2>3 DEF ChannelInv, Layout
    <3> QED BY <3>1, <3>2, <3>3
  <2> QED BY <2>1, <2>2, <2>3 DEF AreasAgree
<1> QED BY <1>1, ChannelInvariant, PTL

\* No call of a channel fails the assertion that it is open, none is opened
\* twice, and while channels are closed no thread serves them.
THEOREM CallsAreRight == Spec => []ChannelCalls
<1>1. ChannelInv => ChannelCalls
  BY DEF ChannelInv, UserErrors, DaemonInv, ChannelCalls, OneServer
<1> QED BY <1>1, ChannelInvariant, PTL

\* When unr_finalize has come to its end, every channel is closed.
THEOREM NothingLeftOpen == Spec => [](mpc = "done" => \A c \in Channels : ~opened[c])
<1>1. ChannelInv => (mpc = "done" => \A c \in Channels : ~opened[c])
  BY DEF ChannelInv, OpenInv
<1> QED BY <1>1, ChannelInvariant, PTL
================================================================================
