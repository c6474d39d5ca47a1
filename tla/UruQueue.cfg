\* Two polling threads on a pool of two signals.
CONSTANTS
    QueueSize = 2
    Consumers = {c1, c2}
    Nobody = Nobody
SPECIFICATION FairSpec
INVARIANT RingExact
PROPERTIES ImplementsFifo Drained
