SPECIFICATION FairSpec
CONSTANTS
    UINT32_MAX = 63
    ALIGN = 2
    CHUNK_SIZE = 2
    WRITE_COUNT = 2
    BOOT_START = 3
    CHECK_CODE_START = 4
    CHECK_CODE_END = 17
    Jobs <- MCJobs
CHECK_DEADLOCK FALSE
INVARIANTS
    TypeOK
    FilesSurvive
    CheckCodeMatches
    TableIsFoundAgain
    BoundedBufferSuffices
    ReportedSizeCovers
    NothingLeaks
PROPERTIES
    FinishedFilesStay
    Terminates
