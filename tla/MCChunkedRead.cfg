SPECIFICATION FairSpec
CONSTANTS
  DefaultChunkSize = 2
  MaxByteOvershoot = 1
  BinaryDetectSize = 1
  ReadAllBlock = 1
  Contents <- MCContents
  ByteRanges <- MCByteRanges
  MaxWrites = 2
  MaxReloads = 1
  CoarseClock = FALSE
INVARIANT
  TypeOK
  ChainTiles
  SnapshotButLast
  QuietChainIsExact
  NewlineLabelIsHonest
PROPERTY
  ChainEnds
  RefinesFileStream
