\* Plain objects with basic and extended headers, in both spaces, and a
\* root dropped before, between or after two compactions.
CONSTANTS
  OldShapes <- PlainAndLarge
  YoungShapes <- OnePlain
  NumTemporaries = 0
  QueueSize = 0
  StoredSlots = {0}
  MaxCollections = 2
  MaxOps = 1
SPECIFICATION Spec
INVARIANTS
  TypeOK
  ThreadsUndoable
  CompactsAsPlanned
  MovedObjectsEqual
PROPERTY StepsOfObjectMemory
CHECK_DEADLOCK FALSE
