CONSTANTS
    p1 = p1
    p2 = p2
    Paths = {p1, p2}
    Archives <- MCArchives
    Block = 2
    Threshold = 2
    CacheSpace = 3
    r1 = r1
    r2 = r2
    Readers <- MCReaders
    MaxFds = 2
    Values = {"a", "b"}
    Image <- MCImage
    MaxChanges = 2
SPECIFICATION MCSpec
SYMMETRY MCSymmetry
INVARIANTS
    MappedIsEntry
    ReadersGiveFile
    EndMeansVerified
