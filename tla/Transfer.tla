-------------------------------- MODULE Transfer --------------------------------
(***************************************************************************)
(* What a channel promises (uri/api/uri.h): a started transfer moves its    *)
(* data once, then gives each signal of its two ends one event. The end    *)
(* that receives the data is told only after it has arrived; the other end *)
(* may be told as soon as its buffer can be used again. Nothing is said    *)
(* about the order of different transfers, or of the two ends.             *)
(***************************************************************************)
EXTENDS Integers

CONSTANTS
    Transfers,
    Ends,       \* ends with a signal, <<transfer, "loc" or "rmt">>
    RecvEnds    \* the ends the data goes to

VARIABLES
    starts,  \* starts[t]: how often t was started
    moved,   \* moved[t]: how often its data has reached its destination
    events   \* events[e]: events the signal of end e was given

vars == <<starts, moved, events>>

Init ==
    /\ starts = [t \in Transfers |-> 0]
    /\ moved = [t \in Transfers |-> 0]
    /\ events = [e \in Ends |-> 0]

More(f, T) == [x \in DOMAIN f |-> IF x \in T THEN f[x] + 1 ELSE f[x]]

\* A plan starts its transfers together.
Start(T) ==
    /\ starts' = More(starts, T)
    /\ UNCHANGED <<moved, events>>

Move(T) ==
    /\ \A t \in T : moved[t] < starts[t]
    /\ moved' = More(moved, T)
    /\ UNCHANGED <<starts, events>>

\* Data waits for this event.
Due(e) == events[e] < IF e \in RecvEnds THEN moved[e[1]] ELSE starts[e[1]]

Fire(e) ==
    /\ Due(e)
    /\ events' = More(events, {e})
    /\ UNCHANGED <<starts, moved>>

Next ==
    \/ \E T \in SUBSET Transfers : Start(T) \/ Move(T)
    \/ \E e \in Ends : Fire(e)

Safety == Init /\ [][Next]_vars

\* What has been started is moved and told, in the end.
Liveness ==
    /\ \A t \in Transfers : WF_vars(\E T \in SUBSET Transfers : t \in T /\ Move(T))
    /\ \A e \in Ends : WF_vars(Fire(e))

Spec == Safety /\ Liveness
=============================================================================
