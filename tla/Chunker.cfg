SPECIFICATION Spec
CONSTANTS
  Uses <- MCUses
  Uninitialised = {0, 9}
  BlockSize = 2
  ReadSize = 36
  Margin = 12
  ContainerMax = 6
  MultiHeaderSize = 4
  MinChunk = 2
  AvgChunk = 3
  MaxChunk = 4
INVARIANTS
  Partition
  WindowInvisible
  FitsContainer
  AstrayOnlyIfMisled
  
PROPERTY
  Terminates
