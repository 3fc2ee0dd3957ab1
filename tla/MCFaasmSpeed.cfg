SPECIFICATION FairSpec
CONSTANTS
    Functions <- MCFunctions
    Total <- MCTotal
    Num <- MCNum
    PoolSize <- MCPoolSize
    Den = 2
    NHosts = 2
INVARIANTS
    TypeOK
    LoadInsideMonitoring
    AbortOnlyOnTestFailure
    ProgressSane
    AccountingExact
PROPERTIES
    GeneratorsRefined
    Termination
