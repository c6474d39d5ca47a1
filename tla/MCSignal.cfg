\* s1 and s2 pooled, s1's messages divided over two channels; s3 polled and
\* waited for, with undivided messages; builds with and without assertions.
CONSTANTS
    NoSig = NoSig  s1 = s1  s2 = s2  s3 = s3
    Sigs = {s1, s2, s3}
    NumEvent <- MCNumEvent
    Msgs = {m1, m2}
    NumChannels = 2
    Divided = {s1}
    W = 8
    PoolSeq <- Pool12
    PoolFirst = TRUE
SPECIFICATION FairSpec
INVARIANTS TriggerExact NoLostUpdate ReportOnce HaltsOnlyDivided
PROPERTIES TriggeredIsDetected WaitReturns
