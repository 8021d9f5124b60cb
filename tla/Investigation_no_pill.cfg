\* One filter that is typed, and one with options: what it takes to remove the
\* pill of either.
CONSTANTS
  Queries = {""}
  NoQuery = ""
  SelectKeys = {"severity"}
  TextKeys = {"srcIp"}
  Logs = {"l1", "l2"}
  Matching <- MCMatching
  MaxFetches = 1
SPECIFICATION InvestigationSpec
INVARIANTS
  NoPillNoFilter
