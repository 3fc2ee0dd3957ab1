SPECIFICATION Spec
CONSTANTS
    KnobPageSize = 3
    Operands <- MCOperands
    PhaseNames = {"main-start", "work"}
    BlockSizes = {1}
    IoSizes = {1}
    MaxTime = 3
    MaxCount = 1
INVARIANTS
    FirstPhaseExact
CHECK_DEADLOCK FALSE
