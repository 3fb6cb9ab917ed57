CONSTANTS
    Names = {"d", "e", "f"}
    Inodes <- MCInodes
    Images <- MCTrees
    Faults = {"block"}
    MaxGiven = 7
    DataInodes <- MCDataInodes
    BlockSize = 2
    InitialEntries = 2
    PackEntries = 4
    BufferSize = 3
    PathMax = 5
    MaxSizes = {4, 20}
    ReadSizes = {1, 3, 20}
    MaxCalls = 3
SPECIFICATION MCSpec
CHECK_DEADLOCK FALSE
INVARIANTS
    ReadErrorsReported
