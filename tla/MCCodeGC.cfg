\* Native code that refers to objects, the method cache of the host and the
\* methods with native code.
CONSTANTS
  SemiSize = 2
  OldSize = 5
  RememberedSize = 8
  NumSlots = 1
  NumRoots = 1
  RescuedSize = 0
  NumOffsets = 2
  Kinds = {"plain"}
  StoredSlots = {0}
  MaxOps = 5
SPECIFICATION Spec
PROPERTY ImplementsObjectMemory
