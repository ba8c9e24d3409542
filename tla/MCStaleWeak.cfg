\* A weak object that only the queue of an earlier compaction keeps alive.
CONSTANTS
  OldShapes <- OneEmpty
  YoungShapes <- EphemeronAndWeakKey
  NumTemporaries = 1
  QueueSize = 1
  StoredSlots = {0}
  MaxCollections = 2
  MaxOps = 2
SPECIFICATION Spec
INVARIANT MovedObjectsEqual
CHECK_DEADLOCK FALSE
