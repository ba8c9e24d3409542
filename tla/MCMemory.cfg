\* Collections of both kinds in any order until old space is exhausted.
CONSTANTS
  Page = 2
  Padding = 4
  Reservation <- MCReservation
  Sizes = {2}
  LocalArraysSize = 1
  RememberedSize = 1
  HostArraysSize = 2
SPECIFICATION Spec
INVARIANTS
  TypeOK
  Ordered
  UsedMemoryCommitted
  PlanIsCommitted
  StopsOnlyWhenFull
PROPERTY AllocationsKept
CHECK_DEADLOCK FALSE
