SPECIFICATION FairSpec
CONSTANTS
    CHUNK_SIZE = 32
    READ_COUNT = 2
    UINT32_MAX = 128
    Roms <- MCRoms
    Faults = TRUE
CHECK_DEADLOCK FALSE
INVARIANTS
    TypeOK
    PublishesWholeTable
    OpenedTableDescribesItself
    OwnedIffLoaded
    FoundTableIsNeverTruncated
PROPERTIES
    Terminates
    ImplementsLookup
