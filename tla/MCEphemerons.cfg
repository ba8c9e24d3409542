\* Two ephemerons and two keys, referring to each other in every way, and two
\* ephemerons and one key with a program that takes rescued ephemerons from the
\* queue and stores them.
CONSTANTS
  SemiSize = 4
  OldSize = 4
  RememberedSize = 8
  NumSlots = 2
  NumRoots = 2
  RescuedSize = 3
  NumOffsets = 0
  Kinds = {}
  StoredSlots = {0}
  MaxOps = 2
  Heaps <- TwoEphemerons
  Old <- NoObjects
  Holders = {"ephemeron"}
SPECIFICATION FairHeapSpec
INVARIANT
  NothingFloats
PROPERTIES
  StepsOfObjectMemory
  CollectionEnds
