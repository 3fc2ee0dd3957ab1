SPECIFICATION MCSpec
CONSTANTS
    Num = 5
    Den = 12
    PoolSize = 7
    Total = 150
    Samples <- MCSamples
    Messages = {1, 2}
    MaxResults = 5
    Word = 128
    Usize = 6
INVARIANTS
    TypeOK
    FractionExact
    FractionTracked
    PoolRoundRobin
    ReportTypeOK
    QuantilesExact
    IntervalsExact
    MomentsExact
    ErrorsTallied
\* The loop ends after Total requests, the process after the report.
CHECK_DEADLOCK FALSE
