\* Three alerts of two keys, a failed call, a window that ends.
SPECIFICATION FairSpec
CONSTANTS
  k1 = k1
  k2 = k2
  Alerts = {a1, a2, a3}
  Keys = {k1, k2}
  KeyOf <- OddOneOut
  Instances = {i1, i2}
  NoAlert = NoAlert
  ChainQueryAccepted = TRUE
  MaxExpiries = 1
  MaxFaults = 1
  MaxMoves = 0
\* The alerts are finitely many.
CHECK_DEADLOCK FALSE
INVARIANTS
  TypeOK
  GroupsAreSound
PROPERTY
  AlertsGetRecorded
