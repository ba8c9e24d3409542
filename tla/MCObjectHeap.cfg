\* Two objects of several formats under two collections of either kind, with
\* two operations of the program before, between or after them.
CONSTANTS
  Heaps <- MCHeaps
  NewShapes <- MCNewShapes
  Temporaries <- MCTemporaries
  QueueCells <- MCQueueCells
  LibraryBase = 20
  OldBase = 48
  NewBase = 192
  NewSize = 52
  ArraySize = 1
  MaxCollections = 2
  MaxArrays = 3
  MaxOps = 2
SPECIFICATION Spec
INVARIANTS
  TypeOK
  WalksMeetObjects
  FormatsKept
  ReachedObjectsTold
  RememberedForNext
PROPERTY StepsOfObjectMemory
CHECK_DEADLOCK FALSE
