SPECIFICATION MigratorySpec
CONSTANTS
  FileLists <- MCFileLists
  BackupNum = 2
  Contents <- MCContents
  Feature <- MCFeature
  ChunkSize <- MCChunkSize
  BlockSize = 4
  LZ4Sizes = {1}
  MaxLost = 1
INVARIANTS
  Rearranged
  Grouped
  SameInput
PROPERTY
  WholeFile
