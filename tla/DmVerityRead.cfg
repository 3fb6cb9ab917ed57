SPECIFICATION FairSpec
CONSTANTS
  DataBlocks = 3
  BlockSize = 2
  HashesPerBlock = 2
  kMaxCacheBlocks = 1
  MaxRead = 4
  DataSizes = {3, 5, 7}
  Offsets = {0, 1, 2, 3, 4, 5}
  a = a
  b = b
  x = x
  zero = zero
  NoByte = NoByte
  NoBlock = NoBlock
  sha256Digest <- MCsha256
  Top <- MCTop
  LevelBlocks <- MCLevelBlocks
  Tree <- MCTree
  Content <- MCContent
INVARIANTS
  ReadReturnsImage
  NoSpuriousFailure
PROPERTIES
  ImplementsAuthenticFile
