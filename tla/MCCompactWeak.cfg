\* A weak object with an extended header and two ephemerons of two and of one
\* slot, and a program that takes an ephemeron from the queue.
CONSTANTS
  OldShapes <- OneLargeWeak
  YoungShapes <- TwoEphemerons
  NumTemporaries = 0
  QueueSize = 2
  StoredSlots = {0, 1}
  MaxCollections = 1
  MaxOps = 1
SPECIFICATION FairSpec
INVARIANTS
  NothingFloats
  NoSlotThreadedTwice
  NothingFoundLate
PROPERTIES
  StepsOfObjectMemory
  CompactionEnds
CHECK_DEADLOCK FALSE
