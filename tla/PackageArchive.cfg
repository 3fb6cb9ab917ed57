SPECIFICATION ExtractSpec
CONSTANTS
  Headers <- MCHeaders
  DigestMaps <- MCDigestMaps
  NoDigests = NoDigests
  sha256Digest <- MCsha256
  MaxHeaders = 3
  MaxReads = 3
  BufferSizes = {1}
  m_maxArchiveDirectories = 1
  MAX_SYMLINK_COUNT = 1
  MAX_PACKAGE_ENTRY_SIZE = 2
  InitialTargets <- MCInitialTargets
  OptionSets <- MCOptionSets
  SizeLimits = {2, 9}
  EntriesLimits = {2, 9}
CHECK_DEADLOCK FALSE
INVARIANTS
    DirectoryOrder
    EntryReads
    SignedFiles
    OnlyVerifiedContents
    StaysInTarget
    SuccessIsComplete
    OptionsHonoured
