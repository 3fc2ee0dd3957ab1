SPECIFICATION Spec
CONSTANTS
    Block = 16
    Xfer = 4
    Mram = 64
    Wram = 8
    Lengths = {2, 8, 16, 64}
    Threads = {1, 2, 3}
    Reps = {1, 2}
    MaxLaunches = 2
INVARIANTS
    TypeOK
    WramExact
    MramConfined
    BytesReported
\* The benchmark ends after its iterations.
CHECK_DEADLOCK FALSE
