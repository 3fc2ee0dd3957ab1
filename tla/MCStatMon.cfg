SPECIFICATION Spec
CONSTANTS
    Clients <- MCClients
    MaxBytes <- MCMaxBytes
    Word = 16
    NDisks = 1
    NCpus = 1
    Closed = {}
    MaxWork = 3
    MaxSamples = 2
    MaxFails = 1
INVARIANTS
    TypeOK
    ExclusiveRangeExact
    AggregatesConsistent
PROPERTIES
    RangeFrozen
\* A server that is dead, or has nothing to do within the bounds, stops.
CHECK_DEADLOCK FALSE
