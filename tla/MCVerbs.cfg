\* Two threads of rank 0 share a send queue of two entries to rank 1.
CONSTANTS
    None = None  a = a  b = b
    Ranks = {0, 1}
    Threads = {a, b}
    Home <- MCHome
    Wrts <- MCWrts
    Once = {b}
    Depth = 2
    SrqDepth = 2
    MaxStart = 2
SPECIFICATION FairSpec
INVARIANTS PostFits SrqExact ToldAfterRead
PROPERTIES ImplementsTransfer CompletesOrExits
CHECK_DEADLOCK FALSE
