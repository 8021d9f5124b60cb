-------------------------------- MODULE LogViewer --------------------------------
(***************************************************************************)
(* The log viewer, ui/src/pages/LogViewer.tsx.  A fetch sends the time     *)
(* range and the filters; only a new time range, or Refresh, sends one,    *)
(* and what came is filtered again in the browser.  The search text and    *)
(* the filters are one filter; exports and expanded rows change no state   *)
(* that anything else reads.                                               *)
(***************************************************************************)
EXTENDS Naturals, FiniteSets, Sequences, SequencesExt

CONSTANTS
  Ranges, DefaultRange, \* the time ranges, "24h" first
  ViewerLogs,
  MatchingLogs,         \* those the filter lets through
  MaxReads              \* bound: fetches in flight

ASSUME LogViewerAssumption ==
  /\ DefaultRange \in Ranges
  /\ MatchingLogs \subseteq ViewerLogs
  /\ MaxReads \in Nat

VARIABLE viewer \* the state of the page

logViewerVars == <<viewer>>

LogFilters == {"all", "value"}
LogQuery == [range : Ranges, filter : LogFilters]

Passing(logs, filter) == IF filter = "all" THEN logs ELSE logs \intersect MatchingLogs

Query(v) == [range |-> v.timeRange, filter |-> v.filter]

Fetching(v) ==
  [v EXCEPT !.loading = TRUE, !.pending = Append(@, [query |-> Query(v), overtaken |-> FALSE])]

LogViewerInit ==
  viewer = Fetching([timeRange |-> DefaultRange, filter |-> "all", logs |-> {},
                     filteredLogs |-> {}, loading |-> FALSE, selectedLogs |-> {},
                     showFilters |-> TRUE, pending |-> <<>>, shown |-> {},
                     late |-> FALSE, failed |-> FALSE])

\* Mutant: the fetch is not sent again for a new time range.
SetLogFiltersOnly(range, filter) ==
  viewer' = [viewer EXCEPT !.timeRange = range, !.filter = filter,
               !.filteredLogs = Passing(viewer.logs, filter)]

\* A new range fetches; any change filters what there is.
SetLogFilters(range, filter) ==
  LET set == [viewer EXCEPT !.timeRange = range, !.filter = filter,
                !.filteredLogs = Passing(viewer.logs, filter)] IN
  IF range = viewer.timeRange THEN viewer' = set
  ELSE Len(viewer.pending) < MaxReads /\ viewer' = Fetching(set)

ShowFilterPanel == viewer' = [viewer EXCEPT !.showFilters = ~@]

\* The search box is always there; the selects are in the panel.
EditSearch(filter) == filter # viewer.filter /\ SetLogFilters(viewer.timeRange, filter)
EditRange(range) ==
  viewer.showFilters /\ range # viewer.timeRange /\ SetLogFilters(range, viewer.filter)
ClearAllFilters == viewer.showFilters /\ SetLogFilters(DefaultRange, "all")

RefreshLogs ==
  /\ ~viewer.loading
  /\ Len(viewer.pending) < MaxReads
  /\ viewer' = Fetching(viewer)

Answered(i) ==
  LET reads == viewer.pending IN
  [viewer EXCEPT !.loading = FALSE, !.late = reads[i].overtaken,
     !.pending = RemoveAt([j \in DOMAIN reads |->
         IF j < i THEN [reads[j] EXCEPT !.overtaken = TRUE] ELSE reads[j]], i)]

\* The logs that match what was sent, filtered by what is set by now.
ReadReturns(i) ==
  LET query == viewer.pending[i].query IN
  \E logs \in SUBSET Passing(ViewerLogs, query.filter) :
    viewer' = [Answered(i) EXCEPT !.logs = logs, !.shown = {query}, !.failed = FALSE,
                 !.filteredLogs = Passing(logs, viewer.filter)]

\* A failure, or an event that lacks a field, leaves what was shown.
ReadFails(i) == viewer' = [Answered(i) EXCEPT !.failed = TRUE]

\* It compares sizes only.
SelectAllLogs ==
  viewer' = [viewer EXCEPT !.selectedLogs =
    IF Cardinality(@) = Cardinality(viewer.filteredLogs) THEN {} ELSE viewer.filteredLogs]

SelectLog(l) ==
  /\ l \in viewer.filteredLogs
  /\ viewer' = [viewer EXCEPT !.selectedLogs = IF l \in @ THEN @ \ {l} ELSE @ \union {l}]

LogViewerNext ==
  \/ \E filter \in LogFilters : EditSearch(filter)
  \/ \E range \in Ranges : EditRange(range)
  \/ ClearAllFilters \/ RefreshLogs \/ ShowFilterPanel
  \/ \E i \in DOMAIN viewer.pending : ReadReturns(i) \/ ReadFails(i)
  \/ SelectAllLogs \/ \E l \in ViewerLogs : SelectLog(l)

LogViewerSpec == LogViewerInit /\ [][LogViewerNext]_logViewerVars

-----------------------------------------------------------------------------
(* Properties.                                                             *)

LogViewerTypeOK ==
  viewer \in [timeRange : Ranges, filter : LogFilters, logs : SUBSET ViewerLogs,
              filteredLogs : SUBSET ViewerLogs, loading : BOOLEAN,
              selectedLogs : SUBSET ViewerLogs, showFilters : BOOLEAN,
              pending : Seq([query : LogQuery, overtaken : BOOLEAN]),
              shown : SUBSET LogQuery, late : BOOLEAN, failed : BOOLEAN]

\* With no fetch in flight, the rows are logs of the time range that is set,
\* and what the filter lets through of them, unless the last answer failed, or
\* came after that of a later fetch.
RowsOfTheRange ==
  /\ viewer.pending = <<>> =>
       \/ viewer.late \/ viewer.failed
       \/ \E query \in viewer.shown : query.range = viewer.timeRange
  /\ viewer.filteredLogs = Passing(viewer.logs, viewer.filter)
=============================================================================
