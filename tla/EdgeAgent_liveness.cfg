\* Two events, a buffer that one row fills and that evicts it, a restart, a
\* batch size that changes.
SPECIFICATION FairSpec
CONSTANTS
  Events = {e1, e2}
  Priorities = {0, 100}
  MaxRows = 0
  EvictDivisor = 1
  DefaultBatch = 1
  BatchSizes = {1, 2}
  MaxSeconds = 0
  MaxCrashes = 1
PROPERTIES
  Promise
  BacklogDrains
