\* Three events of two priorities, a buffer for one row, one restart.
SPECIFICATION Spec
CONSTANTS
  Events = {e1, e2, e3}
  Priorities = {0, 100}
  MaxRows = 1
  EvictDivisor = 2
  DefaultBatch = 2
  BatchSizes = {2}
  MaxSeconds = 1
  MaxCrashes = 1
SYMMETRY EventSymmetry
INVARIANTS
  TypeOK
  NoSilentLoss
  BacklogInOrder
  DuplicatesHaveACause
