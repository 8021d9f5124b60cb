\* Two files, a scanner that nothing disturbs.
SPECIFICATION ScannerSpec
CONSTANTS
  Files = {f1, f2}
  MaxStarts = 0
  MaxKills = 0
  MaxFaults = 0
\* The process ends.
CHECK_DEADLOCK FALSE
PROPERTY
  NewFilesAreReported
