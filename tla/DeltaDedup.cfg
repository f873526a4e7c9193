SPECIFICATION Spec
CONSTANTS
  Contents <- MCContents
  Features <- MCFeatures
  FeatureVals = {1, 2, 3}
  SFNum = 2
  ChunkSize <- MCChunkSize
  LZ4Size <- MCLZ4Size
  DeltaGate = 1
  DeltaSizes = {0, 3, 5, 6}
  Padding = 1
  JunkSizes = {7}
  Offered <- MCOffered
  BackupNum = 2
  MaxChunks = 3
  MaxErrors = 1
INVARIANTS
  RestoreCorrect
  Accounting
  FPindexSound
CHECK_DEADLOCK FALSE
