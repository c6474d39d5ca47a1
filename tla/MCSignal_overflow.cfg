\* A message in two parts; a checked signal; builds with and without assertions.
CONSTANTS
    NoSig = NoSig  s1 = s1  s2 = s2  s3 = s3
    Sigs = {s1}
    NumEvent <- MCNumEvent
    Msgs = {m1, m2}
    NumChannels = 2
    Divided = {s1}
    W = 8
    PoolSeq <- NoPool
    PoolFirst = TRUE
SPECIFICATION Spec
INVARIANT NoFalseOverflow
