SPECIFICATION Spec
CONSTANTS
    LONG_MAX = 2
    Calls <- MCCalls
    Contents <- MCContents
INVARIANTS
    TypeOK
    HoldsItsParts
PROPERTIES
    ImplementsStore
    UpdateRule
    ClosedIsWritten
