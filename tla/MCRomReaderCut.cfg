SPECIFICATION Spec
CONSTANTS
    UINT32_MAX = 63
    ALIGN = 2
    CHUNK_SIZE = 2
    Requests <- MCStreams
    Faults = FALSE
CHECK_DEADLOCK FALSE
INVARIANT FinishesWhenNoMoreComes
