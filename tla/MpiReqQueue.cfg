\* Four requests, appended one or two at a time.
CONSTANTS
    MaxEntries = 4
    MaxBatch = 2
SPECIFICATION ReqFairSpec
INVARIANT RequestsExact
PROPERTY Served
CHECK_DEADLOCK FALSE
