----------------------------- MODULE Investigation -----------------------------
(***************************************************************************)
(* The investigation page, ui/src/pages/Investigation.tsx with its         *)
(* FilterBar and BulkActionBar: what is searched for, the debounced and    *)
(* the immediate fetches, their answers in any order, the filter over what *)
(* they brought, the selection, and the URL.                               *)
(*                                                                         *)
(* An event handler or an answer, the render it causes and the effects of  *)
(* that render are one step.  The time range, which only the server sees,  *)
(* is not told from the query; expanded rows and tooltips are layout.      *)
(***************************************************************************)
EXTENDS Naturals, Sequences, SequencesExt

CONSTANTS
  Queries, NoQuery,
  SelectKeys,  \* the filters with options: severity, eventType, protocol
  TextKeys,    \* the filters one types: srcIp, dstIp
  Logs,
  Matching,    \* the logs that have the value one filters by, for each key
  MaxFetches   \* bound: fetches in flight

Keys == SelectKeys \union TextKeys

ASSUME InvestigationAssumption ==
  /\ NoQuery \in Queries
  /\ SelectKeys \intersect TextKeys = {}
  /\ Matching \in [Keys -> SUBSET Logs]
  /\ MaxFetches \in Nat

VARIABLES
  investigation, \* the state of the page
  url            \* the search parameters of its address

investigationVars == <<investigation, url>>

\* "all" and "" are what the page takes for no filter.
Values(k) == IF k \in SelectKeys THEN {"all", "value"} ELSE {"", "all", "value"}
Filters == {f \in [Keys -> {"", "all", "value"}] : \A k \in Keys : f[k] \in Values(k)}
NoFilters == [k \in Keys |-> IF k \in SelectKeys THEN "all" ELSE ""]

Search == [query : Queries, filters : Filters]
NoSearch == [query |-> NoQuery, filters |-> NoFilters]

\* The effect that filters what was fetched: every filter but an empty one,
\* and for a select "all", is compared, and no address contains "all".
PassesFilter(k, v) ==
  CASE v = "" \/ (k \in SelectKeys /\ v = "all") -> Logs
    [] k \in TextKeys /\ v = "all" -> {}
    [] OTHER -> Matching[k]

Filtered(logs, f) == {l \in logs : \A k \in Keys : l \in PassesFilter(k, f[k])}

\* A mount takes the search from the URL; its effects arm the debounce timer.
Mounted(s) ==
  [query |-> s.query, filters |-> s.filters, logs |-> {}, filteredLogs |-> {},
   loading |-> FALSE, selectedLogs |-> {}, debounce |-> TRUE, pending |-> <<>>,
   shown |-> {}, late |-> FALSE]

InvestigationInit ==
  /\ investigation = Mounted(NoSearch)
  /\ url = NoSearch

Current == [query |-> investigation.query, filters |-> investigation.filters]

\* Mutant: the debounced fetch is armed by the query alone.
SetSearchQueryOnly(s) ==
  /\ investigation' = [investigation EXCEPT !.query = s.query, !.filters = s.filters,
       !.filteredLogs = Filtered(investigation.logs, s.filters),
       !.debounce = @ \/ s.query # investigation.query]
  /\ url' = s

\* The search changes: the URL, the timer and the filtered rows follow it.
SetSearch(s) ==
  /\ investigation' = [investigation EXCEPT !.query = s.query, !.filters = s.filters,
       !.filteredLogs = Filtered(investigation.logs, s.filters), !.debounce = TRUE]
  /\ url' = s

TypeQuery(q) == q # investigation.query /\ SetSearch([Current EXCEPT !.query = q])

HandleFilterChange(k, v) == SetSearch([Current EXCEPT !.filters[k] = v])

\* The filters the FilterBar shows a pill for.
ActiveFilters == {k \in Keys : investigation.filters[k] \notin {"", "all"}}

\* Its menus set a value; a text filter may be given an empty one.
AddFilter(k, v) == v # "all" /\ v \in Values(k) /\ HandleFilterChange(k, v)
RemoveFilter(k) == k \in ActiveFilters /\ HandleFilterChange(k, "all")

HandleLoadQuery(s) == SetSearch(s)

\* What the table shows while it does not show its skeleton.
Rows == IF investigation.loading THEN {} ELSE investigation.filteredLogs

\* "Clear all" of the FilterBar, or "Clear Filters" of the empty table.
CanClear == ActiveFilters # {} \/ (~investigation.loading /\ Rows = {})
ClearFilters == CanClear /\ SetSearch(NoSearch)

\* The request takes the query and the filters of this render.
FetchLogs(debounce) ==
  /\ Len(investigation.pending) < MaxFetches
  /\ investigation' = [investigation EXCEPT !.loading = TRUE, !.debounce = debounce,
       !.pending = Append(@, [search |-> Current, overtaken |-> FALSE])]
  /\ UNCHANGED url

DebounceFires == investigation.debounce /\ FetchLogs(FALSE)
Refresh == ~investigation.loading /\ FetchLogs(investigation.debounce)
\* Enter in the query, or the Search button.
PressSearch == FetchLogs(investigation.debounce)

Overtake(pending, i) ==
  RemoveAt([j \in DOMAIN pending |->
              IF j < i THEN [pending[j] EXCEPT !.overtaken = TRUE] ELSE pending[j]], i)

Show(i, logs, loading) ==
  LET answered == investigation.pending[i] IN
  /\ investigation' = [investigation EXCEPT !.logs = logs,
       !.filteredLogs = Filtered(logs, investigation.filters), !.loading = loading,
       !.pending = Overtake(@, i), !.shown = {answered.search}, !.late = answered.overtaken]
  /\ UNCHANGED url

\* Mutant: only a good answer ends the skeleton.
LogsArriveOrHang(i) ==
  \/ \E logs \in SUBSET Logs : Show(i, logs, FALSE)
  \/ Show(i, {}, TRUE)

\* Any request in flight is answered; a failure shows nothing.
LogsArrive(i) == \E logs \in SUBSET Logs : Show(i, logs, FALSE)

\* The button is there only while nothing is selected, so it selects all.
CanSelectAll == investigation.selectedLogs = {} /\ investigation.filteredLogs # {}
ToggleSelectAll ==
  /\ CanSelectAll
  /\ investigation' = [investigation EXCEPT !.selectedLogs = investigation.filteredLogs]
  /\ UNCHANGED url

ToggleSelectLog(l) ==
  /\ l \in Rows
  /\ investigation' = [investigation EXCEPT !.selectedLogs =
       IF l \in @ THEN @ \ {l} ELSE @ \union {l}]
  /\ UNCHANGED url

\* The X of the BulkActionBar.
ClearSelection ==
  /\ investigation.selectedLogs # {}
  /\ investigation' = [investigation EXCEPT !.selectedLogs = {}]
  /\ UNCHANGED url

\* The address is opened again: at /investigation, a bookmark or a shared link.
Reload ==
  /\ investigation' = Mounted(url)
  /\ UNCHANGED url

InvestigationNext ==
  \/ \E q \in Queries : TypeQuery(q)
  \/ \E k \in Keys : RemoveFilter(k) \/ \E v \in {"", "value"} : AddFilter(k, v)
  \/ \E s \in Search : HandleLoadQuery(s)
  \/ ClearFilters \/ DebounceFires \/ Refresh \/ PressSearch
  \/ \E i \in DOMAIN investigation.pending : LogsArrive(i)
  \/ ToggleSelectAll \/ (\E l \in Logs : ToggleSelectLog(l)) \/ ClearSelection
  \/ Reload

InvestigationSpec == InvestigationInit /\ [][InvestigationNext]_investigationVars

\* Timers fire, and the browser answers or fails a request in the end.
FirstLogsArrive == investigation.pending # <<>> /\ LogsArrive(1)
InvestigationFairness ==
  /\ WF_investigationVars(DebounceFires)
  /\ WF_investigationVars(FirstLogsArrive)

-----------------------------------------------------------------------------
(* Properties.                                                             *)

Page == [query : Queries, filters : Filters, logs : SUBSET Logs,
         filteredLogs : SUBSET Logs, loading : BOOLEAN, selectedLogs : SUBSET Logs,
         debounce : BOOLEAN, pending : Seq([search : Search, overtaken : BOOLEAN]),
         shown : SUBSET Search, late : BOOLEAN]

InvestigationTypeOK ==
  /\ investigation \in Page
  /\ url \in Search

\* With no timer armed and nothing in flight, the rows are those of the search
\* that the page and its URL show, filtered by it; only an answer that came
\* after that of a later request may stand in their place.
RowsOfTheSearch ==
  LET idle == ~investigation.debounce /\ investigation.pending = <<>> IN
  /\ idle => investigation.late \/ investigation.shown = {Current}
  /\ url = Current
  /\ investigation.filteredLogs = Filtered(investigation.logs, investigation.filters)

\* A filter whose pill the user has removed hides nothing.
\* ui/src/components/FilterBar.tsx:145: "standardized to 'all' usually resets".
NoPillNoFilter ==
  ActiveFilters = {} => investigation.filteredLogs = investigation.logs
=============================================================================
