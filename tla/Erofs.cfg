CONSTANTS
    Names = {"d", "e", "f"}
    Inodes <- MCInodes
    Images <- MCCyclic
    Faults = {"superblock", "inode", "block"}
    MaxGiven = 14
    DataInodes <- MCDataInodes
    BlockSize = 2
    InitialEntries = 2
    PackEntries = 4
    BufferSize = 3
    PathMax = 5
    MaxSizes = {4, 20}
    ReadSizes = {1, 3, 20}
    MaxCalls = 3
SPECIFICATION MCSpec
CHECK_DEADLOCK FALSE
INVARIANTS
    IndexInBounds
    ParentFirst
    WalkComplete
    ReadsGiveFile
    EntryComplete
PROPERTIES
    WalkEnds
    WriteToEnds
