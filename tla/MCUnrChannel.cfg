\* Every selection of up to four names out of three channels on each side; an
\* item at each of them.
CONSTANTS
    mpi = mpi  v0 = v0  v1 = v1
    Channels = {mpi, v0, v1}
    Default = mpi
    Unknown = Unknown
    Unset = Unset
    Kind <- MCKind
    HandleSize <- MCHandleSize
    HeadSize = 2
    MaxArrive = 1
SPECIFICATION Spec
INVARIANTS AsSelected AreasAgree ChannelCalls
PROPERTIES Served FinalizeReturns
CHECK_DEADLOCK FALSE
