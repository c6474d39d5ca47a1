------------------------------- MODULE UnrChannel -------------------------------
(***************************************************************************)
(* Channel selection, unr_init, the daemon thread and unr_finalize         *)
(* (unr/base/unr_channel.c) with the channel layer they call               *)
(* (uri/base/uri_channel.c, uri_mem.c), on one rank. Assertions are        *)
(* compiled in, as fast/build.sh does.                                     *)
(*                                                                         *)
(* unr_init allocates avail, inter and intra list one behind the other,    *)
(* each with room for every registered channel, and writes as many names   *)
(* as the environment holds; the lists are cells of one array here. What a *)
(* channel's daemon does is a count of items it finds; unr_finalize's      *)
(* barriers, the draining of the MPI channel and what is lost by closing   *)
(* are in MpiClose.                                                        *)
(***************************************************************************)
EXTENDS Integers, Sequences, FiniteSets, SequencesExt, Functions

CONSTANTS
    Channels,   \* registered channels: uri_channel_arr
    Default,    \* the channel named "mpi"; it is not registered when MPI has several devices
    Unknown,    \* a name no channel has
    Unset,      \* the environment variable is not set
    Kind,       \* Kind[c]: type and block size
    HandleSize, \* HandleSize[c]: bytes of a memory handle, uri_mem_h_size
    HeadSize,   \* sizeof(unr_mem_t)
    MaxArrive   \* bound: items a channel's daemon finds

ASSUME ChannelsAssumption ==
    /\ IsFiniteSet(Channels) /\ Channels # {}
    /\ Unknown \notin Channels /\ Unset \notin Channels \cup {Unknown}
    /\ HandleSize \in [Channels -> Nat]  \* 0 for "mpi": an empty struct (uri_mpi.h:53)
    /\ HeadSize \in Nat \ {0} /\ MaxArrive \in Nat
    /\ DOMAIN Kind = Channels

Sides == {"inter", "intra"}
NumReg == Cardinality(Channels)

\* Values of UNR_INTER and UNR_INTRA: one name more than the list has room for.
Names == Channels \cup {Unknown}
Env == {Unset} \cup UNION {[1 .. n -> Names] : n \in 0 .. NumReg + 1}

VARIABLES
    env,       \* env[s]: value of UNR_INTER or UNR_INTRA
    cell,      \* inter list from cell 0, intra list from cell NumReg
    num,       \* num_inter_channels, num_intra_channels
    avail,     \* avail_channels
    reuse,     \* intra_channel_reuse, 0 for -1
    offset,    \* offset[s][i]: inter/intra_uri_mem_h_offset
    total,     \* unr_mem_t_size
    opened, memOffset, id,  \* opened, mem_h_offset and channel_id of a channel
    mpc, mk,   \* the main thread and its loop counter
    go, running,            \* daemon_thread_continue, daemon_thread_running
    dpc, dk,   \* the daemon thread and its loop counter
    work, found,            \* items waiting at a channel; items so far
    err        \* "no", the failed assertion, or the status ignored by unr_init

lists == <<env, cell, num, avail, reuse>>
layer == <<offset, total, opened, memOffset, id>>
daemon == <<go, running, dpc, dk, work, found>>
vars == <<lists, layer, mpc, mk, daemon, err>>

Init ==
    /\ env \in [Sides -> Env]
    /\ cell = [n \in 0 .. 2 * NumReg |-> Unset]
    /\ num = [s \in Sides |-> 0]
    /\ avail = <<>> /\ reuse = <<>>
    /\ offset = [s \in Sides |-> <<>>] /\ total = HeadSize
    /\ opened = [c \in Channels |-> FALSE]
    /\ memOffset = [c \in Channels |-> 0] /\ id = [c \in Channels |-> 0]
    /\ mpc = "inter" /\ mk = 1
    /\ go = TRUE /\ running = TRUE
    /\ dpc = "none" /\ dk = 1
    /\ work = [c \in Channels |-> 0] /\ found = [c \in Channels |-> 0]
    /\ err = "no"

Halt(reason) == err' = reason /\ UNCHANGED <<lists, layer, mpc, mk, daemon>>

Base(s) == IF s = "inter" THEN 0 ELSE NumReg
Listed(s) == [i \in 1 .. num[s] |-> cell[Base(s) + i - 1]]

-----------------------------------------------------------------------------
(* unr_init *)

\* the names to look up
Wanted(s) == IF env[s] = Unset THEN <<Default>> ELSE env[s]

\* find_channel for every name, first for UNR_INTER and then for UNR_INTRA
Select(s) ==
    /\ err = "no" /\ mpc = s
    /\ LET list == Wanted(s) IN
       IF list = <<>> \/ ~(Range(list) \subseteq Channels)
       THEN Halt("no such channel")
       ELSE /\ cell' = [n \in DOMAIN cell |->
                          IF n - Base(s) + 1 \in DOMAIN list THEN list[n - Base(s) + 1] ELSE cell[n]]
            /\ num' = [num EXCEPT ![s] = Len(list)]
            /\ mpc' = IF s = "inter" THEN "intra" ELSE "check"
            /\ UNCHANGED <<env, avail, reuse, layer, mk, daemon, err>>

\* Repeats when only neighbours are compared
RepeatsNext(list) == \E i \in 2 .. Len(list) : list[i] = list[i - 1]

Repeats(list) == ~IsInjective(list)

CheckDuplicates ==
    /\ err = "no" /\ mpc = "check"
    /\ IF \E s \in Sides : Repeats(Listed(s))
       THEN Halt("duplicate")
       ELSE mpc' = "combine" /\ UNCHANGED <<lists, layer, mk, daemon, err>>

\* the place of an intra channel among the inter channels
ReuseOf(c) == IF Contains(Listed("inter"), c)
              THEN CHOOSE j \in DOMAIN Listed("inter") : Listed("inter")[j] = c ELSE 0

\* the loop over the inter channels, which are all available
CombineInter ==
    /\ err = "no" /\ mpc = "combine"
    /\ avail' = Listed("inter")
    /\ mpc' = "reuse"
    /\ UNCHANGED <<env, cell, num, reuse, layer, mk, daemon, err>>

\* one turn of the loop over the intra channels
CombineIntra ==
    LET c == Listed("intra")[mk] IN
    /\ err = "no" /\ mpc = "reuse" /\ mk <= num["intra"]
    /\ reuse' = Append(reuse, ReuseOf(c))
    /\ avail' = IF ReuseOf(c) = 0 THEN Append(avail, c) ELSE avail
    /\ mk' = mk + 1
    /\ UNCHANGED <<env, cell, num, layer, mpc, daemon, err>>

CombineEnd ==
    /\ err = "no" /\ mpc = "reuse" /\ mk > num["intra"]
    /\ id' = [c \in Channels |-> IF Contains(avail, c)
                                 THEN CHOOSE n \in DOMAIN avail : avail[n] = c ELSE 0]
    /\ mpc' = "open" /\ mk' = 1
    /\ UNCHANGED <<lists, offset, total, opened, memOffset, daemon, err>>

\* uri_channel_open: a channel that is open stays as it is, and unr_init
\* ignores the status.
ChannelOpen(c) ==
    IF opened[c]
    THEN err' = "opened twice" /\ UNCHANGED <<opened, memOffset>>
    ELSE /\ opened' = [opened EXCEPT ![c] = TRUE]
         /\ memOffset' = [memOffset EXCEPT ![c] = total]
         /\ UNCHANGED err

\* HandlePlace when reused channels are not looked up
HandlePlaceNext(s, i) == total

\* where the handle of the i-th channel of a list is stored
HandlePlace(s, i) ==
    IF s = "inter" \/ reuse[i] = 0 THEN total ELSE offset["inter"][reuse[i]]

\* One turn of the loop that opens the channels and lays out the memory
\* handle, in the order inter, intra. A channel in both lists is opened once.
OpenNext ==
    LET s == IF mk <= num["inter"] THEN "inter" ELSE "intra"
        i == IF s = "inter" THEN mk ELSE mk - num["inter"]
        c == Listed(s)[i]
    IN
    /\ err = "no" /\ mpc = "open" /\ mk <= num["inter"] + num["intra"]
    /\ mk' = mk + 1
    /\ offset' = [offset EXCEPT ![s] = Append(@, HandlePlace(s, i))]
    /\ IF s = "inter" \/ reuse[i] = 0
       THEN ChannelOpen(c) /\ total' = total + HandleSize[c]
       ELSE UNCHANGED <<total, opened, memOffset, err>>
    /\ UNCHANGED <<lists, id, mpc, daemon>>

\* All channels of a side have one type and one block size. The daemon thread
\* is created.
InitEnd ==
    /\ err = "no" /\ mpc = "open" /\ mk > num["inter"] + num["intra"]
    /\ IF \E s \in Sides : \E i \in 2 .. num[s] : Kind[Listed(s)[i]] # Kind[Listed(s)[1]]
       THEN Halt("different channels")
       ELSE /\ mpc' = "user" /\ dpc' = "top"
            /\ UNCHANGED <<lists, layer, mk, go, running, dk, work, found, err>>

-----------------------------------------------------------------------------
(* The daemon thread *)

\* The environment: a message, a completion.
Arrive(c) ==
    /\ err = "no" /\ opened[c] /\ found[c] < MaxArrive
    /\ work' = [work EXCEPT ![c] = @ + 1]
    /\ found' = [found EXCEPT ![c] = @ + 1]
    /\ UNCHANGED <<lists, layer, mpc, mk, go, running, dpc, dk, err>>

\* uri_channel_daemon asserts that the channel is open.
Serve(n) ==
    /\ dk' = n /\ dpc' = "serve"
    /\ err' = IF opened[avail[n]] THEN "no" ELSE "not opened"
    /\ UNCHANGED <<running>>

\* Continue when the flag is read once and kept
ContinueKept == TRUE

\* while (daemon_thread_continue), a volatile variable
Continue == go

DaemonTop ==
    /\ err = "no" /\ dpc = "top"
    /\ IF Continue
       THEN Serve(1)
       ELSE dpc' = "gone" /\ running' = FALSE /\ UNCHANGED <<dk, err>>
    /\ UNCHANGED <<lists, layer, mpc, mk, go, work, found>>

\* The channel's daemon goes on until it finds nothing more.
DaemonItem ==
    /\ err = "no" /\ dpc = "serve" /\ work[avail[dk]] > 0
    /\ work' = [work EXCEPT ![avail[dk]] = @ - 1]
    /\ UNCHANGED <<lists, layer, mpc, mk, go, running, dpc, dk, found, err>>

\* LastServed when the loop ends with the inter channels
LastServedInter == num["inter"]

LastServed == Len(avail)

DaemonNext ==
    /\ err = "no" /\ dpc = "serve" /\ work[avail[dk]] = 0
    /\ IF dk < LastServed THEN Serve(dk + 1)
                          ELSE dpc' = "top" /\ UNCHANGED <<dk, running, err>>
    /\ UNCHANGED <<lists, layer, mpc, mk, go, work, found>>

-----------------------------------------------------------------------------
(* unr_finalize *)

\* after the barriers
Finalize ==
    /\ err = "no" /\ mpc = "user"
    /\ go' = FALSE /\ mpc' = "stop"
    /\ UNCHANGED <<lists, layer, mk, running, dpc, dk, work, found, err>>

\* DaemonStopped when nothing is waited for
DaemonStoppedAtOnce == TRUE

\* while (daemon_thread_running)
DaemonStopped == ~running

FinalizeWait ==
    /\ err = "no" /\ mpc = "stop" /\ DaemonStopped
    /\ mpc' = "close" /\ mk' = 1
    /\ UNCHANGED <<lists, layer, daemon, err>>

\* uri_channel_close, which may run the channel's daemon before it returns
CloseNext ==
    /\ err = "no" /\ mpc = "close" /\ mk <= Len(avail)
    /\ IF opened[avail[mk]]
       THEN /\ opened' = [opened EXCEPT ![avail[mk]] = FALSE]
            /\ mk' = mk + 1 /\ UNCHANGED err
       ELSE err' = "not opened" /\ UNCHANGED <<opened, mk>>
    /\ UNCHANGED <<lists, offset, total, memOffset, id, mpc, daemon>>

FinalizeEnd ==
    /\ err = "no" /\ mpc = "close" /\ mk > Len(avail)
    /\ mpc' = "done"
    /\ UNCHANGED <<lists, layer, mk, daemon, err>>

Main == \/ \E s \in Sides : Select(s)
        \/ CheckDuplicates \/ CombineInter \/ CombineIntra \/ CombineEnd
        \/ OpenNext \/ InitEnd
        \/ FinalizeWait \/ CloseNext \/ FinalizeEnd
DaemonThread == DaemonTop \/ DaemonItem \/ DaemonNext

Next == Main \/ Finalize \/ DaemonThread \/ \E c \in Channels : Arrive(c)

\* Both threads run; nothing makes the application finalize.
Spec == Init /\ [][Next]_vars /\ WF_vars(Main) /\ WF_vars(DaemonThread)

-----------------------------------------------------------------------------
(* Properties *)

Ready == err = "no" /\ mpc \notin {"inter", "intra", "check", "combine", "reuse", "open"}

\* A selection that unr_init accepts is the one the user made, although names
\* beyond the room of a list are written into the next one before anything is
\* checked: such a list cannot pass the test for duplicates.
AsSelected == Ready => \A s \in Sides : Listed(s) = Wanted(s) /\ num[s] <= NumReg

\* Memory handles: a channel finds the head of a handle from the offset under
\* which either side's list stores its area (uri_mem_get_info), also when the
\* area is empty; areas lie behind the head and within the size that unr_mem_reg
\* allocates, and no two channels share one.
AreaEnd(s, i) == offset[s][i] + HandleSize[Listed(s)[i]]
AreasAgree ==
    Ready =>
        /\ \A s \in Sides : \A i \in 1 .. num[s] :
             /\ offset[s][i] = memOffset[Listed(s)[i]]
             /\ HeadSize <= offset[s][i] /\ AreaEnd(s, i) <= total
        /\ \A s, t \in Sides : \A i \in 1 .. num[s], j \in 1 .. num[t] :
             Listed(s)[i] # Listed(t)[j] =>
                 AreaEnd(s, i) <= offset[t][j] \/ AreaEnd(t, j) <= offset[s][i]

\* From the first to the last close nobody else runs a channel's daemon.
OneServer == dpc \in {"top", "serve"} => mpc \notin {"close", "done"}

\* No channel is opened twice, and none is served or closed that is not open:
\* not when it is in both lists, not while the daemon is being stopped.
ChannelCalls == err \notin {"opened twice", "not opened"} /\ OneServer

\* What arrives at a channel that is in use is served, as long as each of the
\* others finds something only finitely often.
Served == \A c \in Channels :
    work[c] > 0 /\ dpc \in {"top", "serve"} ~> work[c] = 0 \/ mpc # "user"

\* Once the daemon is told to stop, unr_finalize comes to its end, with all
\* channels closed: the daemon reads the flag in every pass.
FinalizeReturns ==
    mpc = "stop" ~> mpc = "done" /\ \A c \in Channels : ~opened[c]
=============================================================================
