\* Growth through add loses the host cell: expected to be violated.
CONSTANTS
  a = a
  b = b
  Elements <- MCElements
  Additions <- MCAdditions
  Nil = Nil
  Reservations = {1, 2}
  MaxArrays = 3
  MaxSize = 4
SPECIFICATION Spec
INVARIANT RefererFollowsContents
