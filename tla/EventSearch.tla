------------------------------ MODULE EventSearch ------------------------------
(***************************************************************************)
(* The event search of the alerts page, ui/src/components/EventSearch.tsx: *)
(* a builder of clauses or a raw query, searches in flight, searches saved *)
(* on the server and the list of them.                                     *)
(*                                                                         *)
(* Choosing a saved search sets what is on the screen and, 100 ms later,   *)
(* calls the handler of the render before: it sends what was on the screen *)
(* until then.  Which events come back, and their chart, are not modelled; *)
(* the time range is taken as part of what is typed.                       *)
(***************************************************************************)
EXTENDS Naturals, FiniteSets, Sequences, SequencesExt

CONSTANTS
  RawQueries,  \* what may be typed, "" among it
  ClauseLists, \* what the builder may hold, never nothing
  MaxInFlight, \* bound: requests in flight, and timers that will send one
  MaxSaved     \* bound: searches the server has

ASSUME EventSearchAssumption ==
  /\ "" \in RawQueries
  /\ ClauseLists # {}
  /\ {MaxInFlight, MaxSaved} \subseteq Nat

VARIABLES
  eventSearch, \* the state of the component
  searches     \* what the server has saved

eventSearchVars == <<eventSearch, searches>>

\* searchParams, and the body of a saved search.
SearchParams(mode, query, clauses) ==
  [mode |-> mode, is |-> IF mode = "raw" THEN query ELSE clauses]
OnScreen == SearchParams(eventSearch.mode, eventSearch.query, eventSearch.clauses)

\* The first render, whose effect reads the list.
EventSearchMounted ==
  [mode |-> "builder", query |-> "", clauses |-> CHOOSE c \in ClauseLists : TRUE, loading |-> FALSE,
   pending |-> <<>>, timers |-> <<>>, shown |-> {}, asked |-> {}, late |-> FALSE,
   by_timer |-> FALSE, showSaveModal |-> FALSE, saving |-> <<>>,
   savedSearches |-> {}, listing |-> <<[sent |-> searches, overtaken |-> FALSE]>>,
   missed |-> FALSE, acknowledged |-> {}]

EventSearchInit ==
  /\ searches = {}
  /\ eventSearch = [EventSearchMounted EXCEPT !.listing =
                      <<[sent |-> {}, overtaken |-> FALSE]>>]

SetMode(mode) ==
  /\ eventSearch' = [eventSearch EXCEPT !.mode = mode]
  /\ UNCHANGED searches

TypeRaw(query) ==
  /\ eventSearch.mode = "raw"
  /\ eventSearch' = [eventSearch EXCEPT !.query = query]
  /\ UNCHANGED searches

\* A clause is added, or changed, or goes, the last one never.
EditClauses(clauses) ==
  /\ eventSearch.mode = "builder"
  /\ eventSearch' = [eventSearch EXCEPT !.clauses = clauses]
  /\ UNCHANGED searches

Room == Len(eventSearch.pending) + Len(eventSearch.timers) + Len(eventSearch.saving)
          + Len(eventSearch.listing) < MaxInFlight

Sent(search, by_timer) ==
  Append(eventSearch.pending, [search |-> search, by_timer |-> by_timer, overtaken |-> FALSE])

\* The Search button, disabled while loading, or Enter in the raw query.
HandleSearch ==
  /\ Room
  /\ eventSearch.loading => eventSearch.mode = "raw"
  /\ eventSearch' = [eventSearch EXCEPT !.loading = TRUE,
                       !.pending = Sent(OnScreen, FALSE), !.asked = {OnScreen}]
  /\ UNCHANGED searches

\* The timer of a saved search that was chosen calls the handler it was given.
TimerFires(i) ==
  /\ eventSearch' = [eventSearch EXCEPT !.loading = TRUE,
       !.pending = Sent(eventSearch.timers[i], TRUE), !.timers = RemoveAt(@, i)]
  /\ UNCHANGED searches

Overtaken(requests, i) ==
  RemoveAt([j \in DOMAIN requests |->
              IF j < i THEN [requests[j] EXCEPT !.overtaken = TRUE] ELSE requests[j]], i)

\* Events, or none when the request fails.
ResultsArrive(i) ==
  /\ LET answered == eventSearch.pending[i] IN
       eventSearch' = [eventSearch EXCEPT !.loading = FALSE,
         !.shown = {answered.search}, !.late = answered.overtaken,
         !.by_timer = answered.by_timer, !.pending = Overtaken(@, i)]
  /\ UNCHANGED searches

ShowSaveModal(show) ==
  /\ eventSearch.showSaveModal # show
  /\ eventSearch' = [eventSearch EXCEPT !.showSaveModal = show]
  /\ UNCHANGED searches

\* Save of the modal with a name; it stays enabled while the POST is under way.
HandleSaveSearch ==
  /\ eventSearch.showSaveModal
  /\ Room
  /\ Cardinality(searches \union ToSet(eventSearch.saving) \union {OnScreen}) <= MaxSaved
  /\ eventSearch' = [eventSearch EXCEPT !.saving = Append(@, OnScreen)]
  /\ UNCHANGED searches

Reading == [sent |-> searches', overtaken |-> FALSE]

\* Mutant: the list is not read again.
SaveReturnsQuietly(i, ok, stored) ==
  /\ ok => stored
  /\ searches' = IF stored THEN searches \union {eventSearch.saving[i]} ELSE searches
  /\ eventSearch' = [eventSearch EXCEPT !.saving = RemoveAt(@, i),
       !.showSaveModal = @ /\ ~ok,
       !.acknowledged = IF ok THEN @ \union {eventSearch.saving[i]} ELSE @]

\* The POST may be stored though the page hears of a failure.
SaveReturns(i, ok, stored) ==
  /\ ok => stored
  /\ searches' = IF stored THEN searches \union {eventSearch.saving[i]} ELSE searches
  /\ eventSearch' = [eventSearch EXCEPT !.saving = RemoveAt(@, i),
       !.showSaveModal = @ /\ ~ok,
       !.listing = IF ok THEN Append(@, Reading) ELSE @,
       !.acknowledged = IF ok THEN @ \union {eventSearch.saving[i]} ELSE @]

\* A read brings what the server had at some moment since it was sent.
ListReturns(i) ==
  /\ LET read == eventSearch.listing[i] IN
     \/ \E had \in SUBSET searches :
          /\ read.sent \subseteq had
          /\ eventSearch' = [eventSearch EXCEPT !.savedSearches = had,
               !.listing = Overtaken(@, i), !.missed = read.overtaken]
     \/ eventSearch' = [eventSearch EXCEPT !.listing = Overtaken(@, i), !.missed = TRUE]
  /\ UNCHANGED searches

\* A saved raw query that is empty is neither of the two kinds.
Restored(s) ==
  CASE s.mode = "raw" /\ s.is # "" -> [eventSearch EXCEPT !.mode = "raw", !.query = s.is]
    [] s.mode = "builder" -> [eventSearch EXCEPT !.mode = "builder", !.clauses = s.is]
    [] OTHER -> eventSearch

LoadSearch(s) ==
  /\ Room
  /\ eventSearch' = [Restored(s) EXCEPT !.timers = Append(@, OnScreen),
                       !.asked = {s}]
  /\ UNCHANGED searches

EventSearchNext ==
  \/ \E mode \in {"builder", "raw"} : SetMode(mode)
  \/ \E query \in RawQueries : TypeRaw(query)
  \/ \E clauses \in ClauseLists : EditClauses(clauses)
  \/ HandleSearch \/ HandleSaveSearch
  \/ \E i \in DOMAIN eventSearch.timers : TimerFires(i)
  \/ \E i \in DOMAIN eventSearch.pending : ResultsArrive(i)
  \/ \E show \in BOOLEAN : ShowSaveModal(show)
  \/ \E i \in DOMAIN eventSearch.saving, ok, stored \in BOOLEAN : SaveReturns(i, ok, stored)
  \/ \E i \in DOMAIN eventSearch.listing : ListReturns(i)
  \/ \E s \in eventSearch.savedSearches : LoadSearch(s)

EventSearchSpec == EventSearchInit /\ [][EventSearchNext]_eventSearchVars

\* The browser answers or fails a request in the end.
FirstResultsArrive == eventSearch.pending # <<>> /\ ResultsArrive(1)

-----------------------------------------------------------------------------
(* Properties.                                                             *)

SearchBody == [mode : {"raw"}, is : RawQueries] \union [mode : {"builder"}, is : ClauseLists]

EventSearchTypeOK ==
  /\ eventSearch.mode \in {"builder", "raw"}
  /\ eventSearch.query \in RawQueries
  /\ eventSearch.clauses \in ClauseLists
  /\ {eventSearch.loading, eventSearch.late, eventSearch.by_timer,
      eventSearch.showSaveModal, eventSearch.missed} \subseteq BOOLEAN
  /\ eventSearch.pending \in Seq([search : SearchBody, by_timer : BOOLEAN,
                                   overtaken : BOOLEAN])
  /\ eventSearch.timers \in Seq(SearchBody)
  /\ eventSearch.saving \in Seq(SearchBody)
  /\ eventSearch.listing \in Seq([sent : SUBSET SearchBody, overtaken : BOOLEAN])
  /\ eventSearch.shown \union eventSearch.asked \union eventSearch.savedSearches
       \union eventSearch.acknowledged \union searches \subseteq SearchBody

\* When nothing is in flight, the results are those of the search the user
\* asked for last, unless a later request's answer came first, or they answer
\* a timer: a saved search that is chosen sends what was on the screen before.
\* And a search whose save was acknowledged is listed, unless the last read of
\* the list failed or was overtaken.
EventSearchAnswers ==
  /\ eventSearch.pending = <<>> /\ eventSearch.timers = <<>> =>
       eventSearch.late \/ eventSearch.by_timer \/ eventSearch.shown = eventSearch.asked
  /\ eventSearch.listing = <<>> =>
       eventSearch.missed \/ eventSearch.acknowledged \subseteq eventSearch.savedSearches
=============================================================================
