\* Three ranks on two nodes, two memories each, two calls of unr_mem_reg_sync.
CONSTANTS
    NoSig = NoSig  p1 = p1  p2 = p2  x = x  y = y  z = z
    NumRanks = 3
    Node <- MCNode
    Plans = {p1, p2}
    Owner <- MCOwner
    Args <- MCArgs
    NumChannels <- MCNumChannels
    BlkSize <- MCBlkSize
    W = 16
    MaxMem = 2
    MaxSync = 2
    MaxStart = 1
SPECIFICATION Spec
INVARIANTS PlanDivided HandlesInOrder AsAsked EventsDue ExitsUnsyncedOnly
CHECK_DEADLOCK FALSE
