SPECIFICATION Spec
CONSTANTS
  MAX_BLOCK_SIZE = 2
  Uses <- MCUses
INVARIANTS
  FifoContents
  RaceFree
  AssertsHold
  DrainedAtExit
  HoldsSize
  NoLostWakeup
CHECK_DEADLOCK FALSE
