SPECIFICATION ExperimentSpec
CONSTANTS
    Functions = {"f"}
    Total <- MCTotal
    Num <- MCNum
    PoolSize <- MCPoolSize
    Den = 1
    NHosts = 1
    Others = {"other"}
    MaxBytes <- MCMaxBytes
    Word = 16
    NDisks = 2
    NCpus = 2
    Closed = {2}
    MaxWork = 2
    MaxSamples = 1
    MaxFails = 1
INVARIANTS
    LoadAccountedFor
    LostOnlyByFailure
PROPERTIES
    ExperimentEnds
