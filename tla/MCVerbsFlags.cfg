\* Two ranks open two verbs channels, one per side, whose devices number the
\* queue pairs in any order; then three threads create and use signals.
CONSTANTS
    None = None  a = a  b = b  c = c
    Size = 2
    Numbers = {1, 2}
    Threads = {a, b, c}
    Home <- MCHome
    NumChannels <- OneChannel
    BlkSize <- MCBlkSize
    W = 16
    Opens = 2
    NumFlags = 3
    NumEvent = 2
    Sizes = {4}
    MaxAlloc = 2
    MaxSend = 2
SPECIFICATION FSpec
INVARIANTS PeersReady CountedForPeer SignalsExact RightSignal
PROPERTY AllOpen
CHECK_DEADLOCK FALSE
