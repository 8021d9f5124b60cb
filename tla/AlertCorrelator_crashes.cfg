\* Three alerts of one key, two instances, a failure and a crash.
SPECIFICATION Spec
CONSTANTS
  k1 = k1
  k2 = k2
  Alerts = {a1, a2, a3}
  Keys = {k1}
  KeyOf <- OneKey
  Instances = {i1, i2}
  NoAlert = NoAlert
  ChainQueryAccepted = TRUE
  MaxExpiries = 1
  MaxFaults = 1
  MaxMoves = 1
SYMMETRY Symmetry
\* The alerts are finitely many.
CHECK_DEADLOCK FALSE
INVARIANT
  CountedOncePerRead
PROPERTY
  GroupingPromise
