CONSTANTS
    MaxChain = 4
    Scenarios <- MCScenarios
    Path = "pkg"
    Dirs = {"/mnt", "."}
    CertFiles <- MCCertFiles
    CertDirs <- MCCertDirs
    DefaultCertDir = "/certs"
    t1 = t1
    t2 = t2
    Paths <- MCPaths
    Contents <- MCContents
    SizeOf <- MCSizes
    References <- MCReferences
    Signed <- MCSigned
    Parsable = {"conf1", "conf2"}
    Packages <- MCPackages
    Threads <- MCThreads
    MaxBytes = 3
    MaxEntries = 3
    MaxChanges = 2
SPECIFICATION MCSpec
SYMMETRY MCSymmetry
CHECK_DEADLOCK FALSE
INVARIANTS
    TrustSound
    TrustComplete
    OnlyVerified
    WidgetVerified
    MetaDataSigned
