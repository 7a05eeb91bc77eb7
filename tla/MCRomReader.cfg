SPECIFICATION FairSpec
CONSTANTS
    UINT32_MAX = 63
    ALIGN = 2
    CHUNK_SIZE = 3
    Requests <- MCRequests
    Faults = TRUE
CHECK_DEADLOCK FALSE
INVARIANTS
    TypeOK
    ReadsTheFile
    StaysInBuffer
    DecoderReleased
PROPERTIES
    Terminates
