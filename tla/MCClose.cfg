\* unr_finalize at any moment: a once_now put of rank 0, a plan with a get of rank 1.
CONSTANTS
    None = None  p1 = p1  p2 = p2
    Ranks = {0, 1}
    Plans = {p1, p2}
    Owner <- MCOwner
    Wrts <- MCWrts
    Once = {p1}
    MaxStart <- OneStart
    NumIds = 2
    EarlyDestroy = FALSE
SPECIFICATION CSpec
INVARIANT CleanClose
PROPERTY AllClose
CHECK_DEADLOCK FALSE
