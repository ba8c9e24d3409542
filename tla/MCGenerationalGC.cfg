\* Programs on objects of all kinds.
CONSTANTS
  SemiSize = 3
  OldSize = 5
  RememberedSize = 8
  NumSlots = 1
  NumRoots = 2
  RescuedSize = 4
  NumOffsets = 0
  Kinds = {"plain", "weak", "ephemeron"}
  StoredSlots = {0}
  MaxOps = 4
SPECIFICATION Spec
INVARIANTS
  TypeOK
  NoDanglingReference
  RememberedSetComplete
  RememberedFlagAgrees
  ScansInside
  NoSlotForgotten
  NoObjectDuplicated
PROPERTY ImplementsObjectMemory
