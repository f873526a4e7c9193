SPECIFICATION Spec
CONSTANTS
  BackupNum = 3
  ChunkCount <- MCChunkCount
  QueueSize = 2
  MaxErrors = 2
INVARIANTS
  RecipesComplete
  CleanHandOver
  RecipesOrdered
PROPERTIES
  DoneLoweredAfterDrain
  DeliversInOrder
CHECK_DEADLOCK FALSE
