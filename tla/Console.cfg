\* Two windows over one store, two requests in flight, and three attempts of each:
\* what it takes for an answer to be late, and for a lost one to be repeated.
CONSTANTS
  Windows = {w1, w2}
  MaxSaves = 1
  Queries = {"", "q"}
  NoQuery = ""
  SelectKeys = {"severity"}
  TextKeys = {}
  Logs = {"l1", "l2"}
  Matching <- MCMatching
  MaxFetches = 2
  RawQueries = {"", "q"}
  ClauseLists = {"c"}
  MaxInFlight = 2
  MaxSaved = 1
  RuleTabs = {"suricata", "yara"}
  RulesOf <- MCRulesOf
  Critical = {}
  Recommended = {"r1"}
  LibraryEnabled = {"r1"}
  Contents = {"", "f"}
  FirstContent = "f"
  MaxLoads = 2
  Incidents = {"i1", "i2"}
  Statuses = {"New", "Investigating"}
  MaxTimeline = 2
  Requests = {r1}
  MaxAttempts = 3
  InitialDelay = 1
  MaxDelay = 5
  BackoffFactor = 2
  MaxMessages = 5
SPECIFICATION ConsoleSpec
INVARIANTS
  ConsoleTypeOK
  SavedQueriesAreKept
  RowsOfTheSearch
  EventSearchAnswers
  PageIsOfItsTab
  DetailIsTheIncident
  OutcomeIsTrue
PROPERTIES
  LoadingEnds
