CONSTANTS
    FieldMod = 3
    LongMod = 9
    Kilo = 2
    WordMod = 4096
    StorageLimitMb = 4
    DefaultStorageMb = 3
    InvalidIds = {"bad id"}
    InvalidPaths = {"/abs"}
    InvalidAddresses = {"no address"}
    Markup = {"a<b"}
    XmlDocuments <- MCTimedDocuments
    JsonDocuments = {}
SPECIFICATION BuildSpec
CHECK_DEADLOCK FALSE
INVARIANTS
    XmlInverse
