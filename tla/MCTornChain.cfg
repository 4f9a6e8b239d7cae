SPECIFICATION Spec
CONSTANTS
  DefaultChunkSize = 2
  MaxByteOvershoot = 1
  BinaryDetectSize = 1
  ReadAllBlock = 1
  Contents <- MCTornContents
  ByteRanges <- MCByteRanges
  MaxWrites = 1
  MaxReloads = 0
  CoarseClock = FALSE
INVARIANT CompleteChainIsOneVersion
