\* An old object refers to an ephemeron of the second generation.
CONSTANTS
  SemiSize = 2
  OldSize = 3
  RememberedSize = 8
  NumSlots = 1
  NumRoots = 2
  RescuedSize = 2
  NumOffsets = 0
  Kinds = {}
  StoredSlots = {0}
  MaxOps = 0
  Heaps <- OneEphemeron
  Old <- OnePlain
  Holders = {"ephemeron", "plain"}
SPECIFICATION HeapSpec
INVARIANT RescuedOnce
