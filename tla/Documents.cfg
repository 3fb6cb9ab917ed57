CONSTANTS
    FieldMod = 3
    LongMod = 9
    Kilo = 2
    WordMod = 4096
    StorageLimitMb = 4
    DefaultStorageMb = 3
    InvalidIds = {"bad id"}
    InvalidPaths = {"/abs"}
    InvalidAddresses = {"no address"}
    Markup = {"a<b"}
    XmlDocuments <- MCXmlDocuments
    JsonDocuments <- MCJsonDocuments
    Alphabets <- MCAlphabets
    Width = 5
    MaxExponent = 9
    IndentStep = 1
SPECIFICATION MCSpec
CHECK_DEADLOCK FALSE
INVARIANTS
    OrderIrrelevant
    XmlRoundTrip
    ConfigHonoured
    DependencyMeaning
    ParsesJson
    ConfigurationSurvives
