\* A scavenge leaves its local arrays in old space: expected to be violated.
CONSTANTS
  Page = 2
  Padding = 4
  Reservation <- MCReservation
  Sizes = {1}
  LocalArraysSize = 1
  RememberedSize = 1
  HostArraysSize = 2
SPECIFICATION HistorySpec
INVARIANT LocalsDiscarded
CHECK_DEADLOCK FALSE
