\* Two ranks, up to four numbers each.
CONSTANTS
    Size = 2
    Limit = 6
SPECIFICATION Spec
INVARIANTS UniqueOverRanks PoolExact HaltsOnlyWhenFull
CHECK_DEADLOCK FALSE
