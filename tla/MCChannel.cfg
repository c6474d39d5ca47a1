\* Plans p1 and p2 of rank 0, which reuse tags and a batch id, and a once_now get of rank 1.
CONSTANTS
    None = None  p1 = p1  p2 = p2  p3 = p3
    Ranks = {0, 1}
    Plans = {p1, p2, p3}
    Owner <- TwoOwners
    Wrts <- MixedWrts
    Once = {p3}
    MaxStart <- MixedStarts
    NumIds = 3
    EarlyDestroy = FALSE
SPECIFICATION Spec
INVARIANTS NoError BatchesAgree Delivered
PROPERTY ImplementsTransfer
CHECK_DEADLOCK FALSE
