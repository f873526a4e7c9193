SPECIFICATION Spec
CONSTANTS
  ContainerMax = 4
  CacheSize = 2
  Sizes <- MCSizes
  Leftover = {0, 1}
  MaxChunks = 4
  MaxFailures = 1
INVARIANTS
  CacheCoherent
  ReadBack
  HeldIntact
PROPERTY
  WriteOnce
