\* Postgres rejects the query for the attack chain: no row at all.
SPECIFICATION FairSpec
CONSTANTS
  k1 = k1
  k2 = k2
  Alerts = {a1, a2}
  Keys = {k1}
  KeyOf <- OneKey
  Instances = {i1}
  NoAlert = NoAlert
  ChainQueryAccepted = FALSE
  MaxExpiries = 1
  MaxFaults = 0
  MaxMoves = 0
\* The alerts are finitely many.
CHECK_DEADLOCK FALSE
PROPERTY
  AlertsAreCorrelated
