SPECIFICATION Spec
CONSTANTS
    KnobPageSize = 3
    Operands <- MCOperands
    PhaseNames = {"main-start", "work"}
    BlockSizes = {1}
    IoSizes = {1}
    MaxTime = 5
    MaxCount = 1
INVARIANTS
    TypeOK
    TraceExact
    ReportExact
CHECK_DEADLOCK FALSE
