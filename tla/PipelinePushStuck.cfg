SPECIFICATION Spec
CONSTANTS
  BackupNum = 3
  ChunkCount <- MCChunkCount
  QueueSize = 2
  MaxErrors = 1
PROPERTY
  PushReturns
CHECK_DEADLOCK FALSE
