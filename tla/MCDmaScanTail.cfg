SPECIFICATION Spec
CONSTANTS
    CHUNK_SIZE = 32
    READ_COUNT = 2
    UINT32_MAX = 128
    Roms <- MCTableless
    Faults = FALSE
CHECK_DEADLOCK FALSE
INVARIANT NoTableIsReportedAsNoDmadata
