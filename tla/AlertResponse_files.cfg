\* One file, a scanner that starts three times, the orchestrator.
SPECIFICATION FairSpec
CONSTANTS
  soar = soar
  siem = siem
  f1 = f1
  Files = {f1}
  Services = {soar}
  Actions <- ActionsOf
  MaxStarts = 2
  MaxKills = 1
  MaxFaults = 1
  MaxCrashes = 1
\* The starts are finitely many.
CHECK_DEADLOCK FALSE
INVARIANTS
  TypeOK
  RepeatsNeedACrash
PROPERTIES
  MailboxPromise
  FindingsReachServices
