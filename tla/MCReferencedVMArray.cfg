\* Growth of an array by add and addAll, and the cell of the host meanwhile.
CONSTANTS
  a = a
  b = b
  Elements <- MCElements
  Additions <- MCAdditions
  Nil = Nil
  Reservations = {1, 2}
  MaxArrays = 3
  MaxSize = 4
SPECIFICATION Spec
INVARIANTS
  TypeOK
  ElementsWithinContents
  ElementsWereAdded
  DetachedOnlyByGrowth
PROPERTIES
  DetachedIsFrozen
  StepsOfSequence
