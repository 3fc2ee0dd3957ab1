SPECIFICATION Spec
CONSTANTS
    WMEM_SIZE = 8
    SNAP_SIZE = 2
    WORK_SIZE = 3
    WORK_FILL_START = 1
    Suites <- MCLazySuites
    Threads = 1
    Workers = {w1, w2}
    Iterations = 2
    NONE = NONE
INVARIANTS
    LazySnapshot
