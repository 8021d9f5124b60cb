\* Three concurrent calls, two of which can be dropped at any await.
SPECIFICATION FairSpec
CONSTANTS
  Tasks = {t1, t2, t3}
  Cancellable = {t1, t2}
  MaxFailures = 2
  ResetTimeout = 1
  NoTask = NoTask
INVARIANTS
  TypeOK
  CountAndInstantAgree
  CountBounded
PROPERTIES
  ActsAtomically
  CallsReturn
  BreakerRecovers
