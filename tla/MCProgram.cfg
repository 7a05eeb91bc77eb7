SPECIFICATION FairSpec
CONSTANTS
    MAX_STAGES = 2
    CommandLines <- MCCommandLines
    Roms <- MCRoms
    Faults = TRUE
CHECK_DEADLOCK FALSE
INVARIANTS
    TypeOK
    OptionsMeanWhatTheySay
    SuccessMeansDone
PROPERTIES
    FailureIsReported
    Terminates
