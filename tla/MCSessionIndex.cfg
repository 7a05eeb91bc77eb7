SPECIFICATION Spec
CONSTANTS
    Blocks <- MCBlocks
    Allocators = {"default", "caller"}
    RomSlots = {"r1", "r2"}
    LayoutSlots = {"l1"}
    Counts <- MCCounts
    Indexes = {2, 3}
    LayoutIndexes = {0, 3}
    TableErrors = {"NO_DMADATA"}
    CicErrors = {"UNSUPPORTED_CIC"}
    WriteErrors = {"ERRNO"}
PROPERTIES
    IndexIsInLayout
