SPECIFICATION DetectSpec
CONSTANTS
  PieceSizes = {0, 1, 4, 7, 13, 16, 32, 40}
  MaxFed = 80
  Chunks <- MCChunks
  Keys = {k1, k2, k3}
  U64_BITS = 12
  U32_RANGE = 64
  GEARmx <- MCGear
  kSampleRatioMask = 4
  WINDOW_SIZE = 3
INVARIANTS
  StreamEqualsOneShot
  SFExact
  IndexInverse
SYMMETRY KeySymmetry
CHECK_DEADLOCK FALSE
