SPECIFICATION FairSpec
CONSTANTS
    WMEM_SIZE = 8
    SNAP_SIZE = 2
    WORK_SIZE = 3
    WORK_FILL_START = 1
    Suites <- MCSuites
    Threads = 2
    Workers = {w1, w2}
    Iterations = 2
    NONE = NONE
INVARIANTS
    TypeOK
    CrashOnlyUnregistered
    Isolated
    SnapshotRestored
    FaultsReportedExact
    HandlerSeesLiveMemory
PROPERTIES
    HandlerReplacedIdle
    SuiteCompletes
