SPECIFICATION Spec
CONSTANTS
  Contents <- MCContents
  SuperFeature <- MCSuperFeature
  TierEnd <- MCTierEnd
  Keep <- MCKeep
  ChunkSize <- MCChunkSize
  LZ4Size <- MCLZ4Size
  DeltaSizes = {0, 1, 4}
  JunkSizes = {7}
  Offered <- MCOffered
  BackupNum = 4
  MaxChunks = 4
  MaxErrors = 1
INVARIANTS
  RestoreCorrect
  DeltaFits
  SFnumExact
  Retention
  SimilarBase
CHECK_DEADLOCK FALSE
