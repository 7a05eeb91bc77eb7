SPECIFICATION FairSpec
CONSTANTS
    BITS = 2
    WORD = 4
    SEED = 3
    BOOT_START = 1
    START = 4
    END = 9
    CHUNK = 3
    WINDOW_AT = 1
    WINDOW = 2
    Boot <- MCBoot
    Requests <- MCRequests
    Faults = TRUE
CHECK_DEADLOCK FALSE
INVARIANTS
    TypeOK
    CodeIsOfTheRegion
    WholeImageHasCode
PROPERTIES
    Terminates
    ImplementsWideSum
