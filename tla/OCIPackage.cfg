CONSTANTS
    Block = 2
    HashesPerBlock = 2
    MaxDataSize = 12
    Word = 44
    Blobs <- MCBlobs
    Meaning <- MCMeaning
    SizeOf <- MCSizes
    OffsetOf <- MCOffsets
    ArchiveSize = 18
    Stores = {"tar", "gzip", "directory"}
    Layouts <- MCLayouts
    Indexes <- MCIndexes
    SuperBlocks <- MCSuperBlocks
    Signed <- MCSigned
    Small <- MCSmall
    EntriesIn <- MCEntries
    MaxConfigSize = 2
    MaxAuxSize = 2
    MaxImageSize = 20
    MaxBlobSize = 15
    MaxChanges = 1
SPECIFICATION Spec
CHECK_DEADLOCK FALSE
INVARIANTS
    TreeIsSigned
    HandedOutIsSigned
    VerifySound
    TreeInFile
