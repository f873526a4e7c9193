SPECIFICATION LZ4Spec
CONSTANTS
  U16_RANGE = 24
  acceleration = 3
  Hash <- MCHash
  Hashes = {0, 1, 2, 3, 4, 5, 6}
  LostBytes = 6
  Calls <- MCCalls
INVARIANTS
  DecodedPrefix
  RoundTrip
  StaysInBounds
