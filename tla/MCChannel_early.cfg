\* A plan is destroyed as soon as the signals of both sides have fired.
CONSTANTS
    None = None  p1 = p1  p2 = p2  p3 = p3
    Ranks = {0, 1}
    Plans = {p1}
    Owner <- OneOwner
    Wrts <- MixedWrts
    Once = {}
    MaxStart <- TwoStarts
    NumIds = 3
    EarlyDestroy = TRUE
SPECIFICATION Spec
INVARIANT NoError
CHECK_DEADLOCK FALSE
