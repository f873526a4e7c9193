SPECIFICATION Spec
CONSTANTS
  Contents <- MCContents
  ChunkSize <- MCChunkSize
  LZ4Size <- MCLZ4Size
  Offered <- MCOffered
  BackupNum = 3
  DeltaSizes = {0, 4}
  Word = 32
  MaxChunks = 6
INVARIANT RestoreCorrect
CHECK_DEADLOCK FALSE
