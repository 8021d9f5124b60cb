---------------------------- MODULE MonitorProofs ----------------------------
(*****************************************************************************)
(* The pages that watch: what their invariants rest on, for any logs, agents,*)
(* assets, messages and toasts and any number of requests in flight.         *)
(*****************************************************************************)
EXTENDS Monitor, AnswerLemmas, FiniteSetTheorems

-----------------------------------------------------------------------------
(* The log viewer (LogViewer).                                               *)

LogReads == [query : LogQuery, overtaken : BOOLEAN]
LogPage == [timeRange : Ranges, filter : LogFilters, logs : SUBSET ViewerLogs,
            filteredLogs : SUBSET ViewerLogs, loading : BOOLEAN,
            selectedLogs : SUBSET ViewerLogs, showFilters : BOOLEAN,
            pending : Seq(LogReads), shown : SUBSET LogQuery, late : BOOLEAN, failed : BOOLEAN]

\* The newest fetch, unless a later one has been answered, is of the range that is set.
LogInv ==
  /\ viewer \in LogPage
  /\ viewer.pending # <<>> /\ ~viewer.pending[Len(viewer.pending)].overtaken
       => viewer.pending[Len(viewer.pending)].query.range = viewer.timeRange
  /\ RowsOfTheRange

LEMMA PassingType ==
  ASSUME NEW logs \in SUBSET ViewerLogs, NEW filter
  PROVE  Passing(logs, filter) \in SUBSET ViewerLogs
BY DEF Passing

\* A page v that is right but for the fetches in flight is right once it fetches.
LEMMA FetchLogsStep ==
  ASSUME NEW v \in LogPage, v.filteredLogs = Passing(v.logs, v.filter), viewer' = Fetching(v)
  PROVE  LogInv'
<1> DEFINE r == [query |-> Query(v), overtaken |-> FALSE]
           pending == Append(v.pending, r)
<1>1. v.pending \in Seq(LogReads) /\ r \in LogReads /\ r.query.range = v.timeRange
  BY DEF LogPage, LogReads, Query, LogQuery
<1>2. pending \in Seq(LogReads) /\ pending # <<>> /\ pending[Len(pending)] = r
  BY <1>1, AppendProperties
<1>3. viewer' = [v EXCEPT !.loading = TRUE, !.pending = pending]
  BY DEF Fetching
<1> HIDE DEF pending, r
<1>4. viewer' \in LogPage
  BY <1>2, <1>3 DEF LogPage
<1>5. /\ viewer'.pending = pending /\ viewer'.timeRange = v.timeRange
      /\ viewer'.logs = v.logs /\ viewer'.filter = v.filter /\ viewer'.filteredLogs = v.filteredLogs
  BY <1>3 DEF LogPage
<1> QED
  BY <1>1, <1>2, <1>4, <1>5 DEF LogInv, RowsOfTheRange

LEMMA LogInit == LogViewerInit => LogInv
<1> SUFFICES ASSUME LogViewerInit PROVE LogInv
  OBVIOUS
<1> DEFINE v == [timeRange |-> DefaultRange, filter |-> "all", logs |-> {},
                 filteredLogs |-> {}, loading |-> FALSE, selectedLogs |-> {},
                 showFilters |-> TRUE, pending |-> <<>>, shown |-> {},
                 late |-> FALSE, failed |-> FALSE]
           r == [query |-> Query(v), overtaken |-> FALSE]
           pending == Append(v.pending, r)
<1>1. v \in LogPage
  BY LogViewerAssumption DEF LogPage, LogFilters
<1>2. v.filteredLogs = Passing(v.logs, v.filter)
  BY DEF Passing
<1>3. viewer = Fetching(v)
  BY DEF LogViewerInit
<1>4. v.pending \in Seq(LogReads) /\ r \in LogReads /\ r.query.range = v.timeRange
  BY <1>1 DEF LogPage, LogReads, Query, LogQuery
<1>5. pending \in Seq(LogReads) /\ pending # <<>> /\ pending[Len(pending)] = r
  BY <1>4, AppendProperties
<1>6. viewer = [v EXCEPT !.loading = TRUE, !.pending = pending]
  BY <1>3 DEF Fetching
<1> HIDE DEF pending, r, v
<1>7. viewer \in LogPage
  BY <1>1, <1>5, <1>6 DEF LogPage
<1>8. /\ viewer.pending = pending /\ viewer.timeRange = v.timeRange
      /\ viewer.logs = v.logs /\ viewer.filter = v.filter /\ viewer.filteredLogs = v.filteredLogs
  BY <1>1, <1>6 DEF LogPage
<1> QED
  BY <1>2, <1>4, <1>5, <1>7, <1>8 DEF LogInv, RowsOfTheRange

LEMMA SetStep ==
  ASSUME LogInv, NEW range \in Ranges, NEW filter \in LogFilters, SetLogFilters(range, filter)
  PROVE  LogInv'
<1> DEFINE rows == Passing(viewer.logs, filter)
           set == [viewer EXCEPT !.timeRange = range, !.filter = filter, !.filteredLogs = rows]
<1>1. viewer \in LogPage /\ viewer.logs \in SUBSET ViewerLogs
  BY DEF LogInv, LogPage
<1>2. rows \in SUBSET ViewerLogs
  BY <1>1, PassingType
<1> HIDE DEF rows
<1>3. set \in LogPage
  BY <1>1, <1>2 DEF LogPage
<1>4. /\ set.logs = viewer.logs /\ set.filter = filter /\ set.filteredLogs = rows
      /\ set.pending = viewer.pending /\ set.timeRange = range /\ set.late = viewer.late
      /\ set.failed = viewer.failed /\ set.shown = viewer.shown
  BY <1>1 DEF LogPage
<1>5. set.filteredLogs = Passing(set.logs, set.filter)
  BY <1>4 DEF rows
<1>6. IF range = viewer.timeRange THEN viewer' = set ELSE viewer' = Fetching(set)
  BY DEF SetLogFilters, rows
<1> HIDE DEF set
<1>7. CASE range = viewer.timeRange
  BY <1>3, <1>4, <1>5, <1>6, <1>7 DEF LogInv, RowsOfTheRange
<1>8. CASE range # viewer.timeRange
  BY <1>3, <1>5, <1>6, <1>8, FetchLogsStep
<1> QED
  BY <1>7, <1>8

\* Whatever else an answer brings, the newest fetch stays of the range that is set,
\* and the last to be answered was the newest or comes late.
LEMMA AnswerStep ==
  ASSUME LogInv, NEW i \in DOMAIN viewer.pending, NEW logs \in SUBSET ViewerLogs,
         NEW shown \in SUBSET LogQuery, NEW failed \in BOOLEAN,
         viewer' = [Answered(i) EXCEPT !.logs = logs, !.shown = shown, !.failed = failed,
                      !.filteredLogs = Passing(logs, viewer.filter)],
         failed \/ viewer.pending[i].query \in shown
  PROVE  LogInv'
<1> DEFINE q == viewer.pending
           left == AfterAnswer(q, i)
           rows == Passing(logs, viewer.filter)
<1>1. /\ viewer \in LogPage /\ q \in Seq(LogReads) /\ i \in 1 .. Len(q)
      /\ q[i].overtaken \in BOOLEAN
  <2>1. viewer \in LogPage /\ q \in Seq(LogReads) /\ i \in 1 .. Len(q)
    BY DEF LogInv, LogPage
  <2>2. q[i] \in LogReads
    BY <2>1, ElementOfSeq
  <2> QED BY <2>1, <2>2 DEF LogReads
<1>2. \A r \in LogReads : [r EXCEPT !.overtaken = TRUE] \in LogReads
                         /\ [r EXCEPT !.overtaken = TRUE].overtaken = TRUE
  BY DEF LogReads
<1>3. /\ left \in Seq(LogReads)
      /\ left = <<>> => i = Len(q)
      /\ left # <<>> /\ ~left[Len(left)].overtaken
           => q # <<>> /\ left[Len(left)] = q[Len(q)] /\ ~q[Len(q)].overtaken
  BY <1>1, <1>2, NewestStays
<1>4. rows \in SUBSET ViewerLogs
  BY PassingType
<1>5. Answered(i) = [viewer EXCEPT !.loading = FALSE, !.late = q[i].overtaken, !.pending = left]
  BY DEF Answered, AfterAnswer
<1> HIDE DEF left, rows
<1>6. viewer' = [viewer EXCEPT !.loading = FALSE, !.late = q[i].overtaken, !.pending = left,
                   !.logs = logs, !.shown = shown, !.failed = failed, !.filteredLogs = rows]
  BY <1>1, <1>5 DEF LogPage, rows
<1>7. viewer' \in LogPage
  BY <1>1, <1>3, <1>4, <1>6 DEF LogPage
<1>8. /\ viewer'.pending = left /\ viewer'.late = q[i].overtaken /\ viewer'.shown = shown
      /\ viewer'.failed = failed /\ viewer'.logs = logs /\ viewer'.filteredLogs = rows
      /\ viewer'.filter = viewer.filter /\ viewer'.timeRange = viewer.timeRange
  BY <1>1, <1>6 DEF LogPage
<1>9. ASSUME left # <<>>, ~left[Len(left)].overtaken
      PROVE  left[Len(left)].query.range = viewer.timeRange
  BY <1>3, <1>9 DEF LogInv
<1>10. ASSUME left = <<>>, ~q[i].overtaken, ~failed
       PROVE  \E query \in shown : query.range = viewer.timeRange
  <2>1. q # <<>> /\ i = Len(q)
    BY <1>1, <1>3, <1>10
  <2> QED BY <2>1, <1>10 DEF LogInv
<1> QED
  BY <1>7, <1>8, <1>9, <1>10 DEF LogInv, RowsOfTheRange, rows

\* A step that sends nothing and fetches nothing.
LEMMA LogViewStep ==
  ASSUME LogInv, NEW show \in BOOLEAN, NEW chosen \in SUBSET ViewerLogs,
         viewer' = [viewer EXCEPT !.showFilters = show, !.selectedLogs = chosen]
  PROVE  LogInv'
<1>1. viewer \in LogPage
  BY DEF LogInv
<1>2. viewer' \in LogPage
  BY <1>1 DEF LogPage
<1>3. /\ viewer'.pending = viewer.pending /\ viewer'.timeRange = viewer.timeRange
      /\ viewer'.late = viewer.late /\ viewer'.failed = viewer.failed
      /\ viewer'.shown = viewer.shown /\ viewer'.logs = viewer.logs
      /\ viewer'.filter = viewer.filter /\ viewer'.filteredLogs = viewer.filteredLogs
  BY <1>1 DEF LogPage
<1> QED
  BY <1>2, <1>3 DEF LogInv, RowsOfTheRange

LEMMA LogNext == LogInv /\ [LogViewerNext]_logViewerVars => LogInv'
<1> SUFFICES ASSUME LogInv, [LogViewerNext]_logViewerVars PROVE LogInv'
  OBVIOUS
<1>1. /\ viewer \in LogPage /\ viewer.timeRange \in Ranges /\ viewer.filter \in LogFilters
      /\ viewer.filteredLogs = Passing(viewer.logs, viewer.filter)
      /\ viewer.filteredLogs \in SUBSET ViewerLogs /\ viewer.selectedLogs \in SUBSET ViewerLogs
      /\ viewer.showFilters \in BOOLEAN /\ viewer.pending \in Seq(LogReads)
      /\ viewer.logs \in SUBSET ViewerLogs /\ viewer.shown \in SUBSET LogQuery
  BY DEF LogInv, RowsOfTheRange, LogPage
<1>2. ASSUME NEW filter \in LogFilters, EditSearch(filter) PROVE LogInv'
  BY <1>1, <1>2, SetStep DEF EditSearch
<1>3. ASSUME NEW range \in Ranges, EditRange(range) PROVE LogInv'
  BY <1>1, <1>3, SetStep DEF EditRange
<1>4. CASE ClearAllFilters
  BY <1>4, SetStep, LogViewerAssumption DEF ClearAllFilters, LogFilters
<1>5. CASE RefreshLogs
  BY <1>1, <1>5, FetchLogsStep DEF RefreshLogs
<1>6. CASE ShowFilterPanel
  <2>1. viewer' = [viewer EXCEPT !.showFilters = ~viewer.showFilters,
                                 !.selectedLogs = viewer.selectedLogs]
    BY <1>1, <1>6 DEF ShowFilterPanel, LogPage
  <2> QED BY <1>1, <2>1, LogViewStep
<1>7. ASSUME NEW i \in DOMAIN viewer.pending, ReadReturns(i) PROVE LogInv'
  <2> DEFINE query == viewer.pending[i].query
  <2>1. PICK logs \in SUBSET Passing(ViewerLogs, query.filter) :
          viewer' = [Answered(i) EXCEPT !.logs = logs, !.shown = {query}, !.failed = FALSE,
                       !.filteredLogs = Passing(logs, viewer.filter)]
    BY <1>7 DEF ReadReturns
  <2>2. logs \in SUBSET ViewerLogs
    BY PassingType
  <2>3. query \in LogQuery
    <3>1. viewer.pending[i] \in LogReads
      BY <1>1, ElementOfSeq
    <3> QED BY <3>1 DEF LogReads
  <2> QED BY <2>1, <2>2, <2>3, AnswerStep
<1>8. ASSUME NEW i \in DOMAIN viewer.pending, ReadFails(i) PROVE LogInv'
  <2>1. viewer' = [Answered(i) EXCEPT !.logs = viewer.logs, !.shown = viewer.shown,
                     !.failed = TRUE, !.filteredLogs = Passing(viewer.logs, viewer.filter)]
    BY <1>1, <1>8 DEF ReadFails, Answered, LogPage
  <2> QED BY <1>1, <2>1, AnswerStep
<1>9. CASE SelectAllLogs
  <2>1. \E chosen \in SUBSET ViewerLogs : viewer' = [viewer EXCEPT !.selectedLogs = chosen]
    BY <1>1, <1>9 DEF SelectAllLogs
  <2>2. PICK chosen \in SUBSET ViewerLogs :
          viewer' = [viewer EXCEPT !.showFilters = viewer.showFilters, !.selectedLogs = chosen]
    BY <1>1, <2>1 DEF LogPage
  <2> QED BY <1>1, <2>2, LogViewStep
<1>10. ASSUME NEW l \in ViewerLogs, SelectLog(l) PROVE LogInv'
  <2>1. PICK chosen \in SUBSET ViewerLogs : viewer' = [viewer EXCEPT !.selectedLogs = chosen]
    BY <1>1, <1>10 DEF SelectLog
  <2>2. viewer' = [viewer EXCEPT !.showFilters = viewer.showFilters, !.selectedLogs = chosen]
    BY <1>1, <2>1 DEF LogPage
  <2> QED BY <1>1, <2>2, LogViewStep
<1>11. CASE UNCHANGED logViewerVars
  BY <1>11 DEF logViewerVars, LogInv, RowsOfTheRange
<1> QED
  BY <1>2, <1>3, <1>4, <1>5, <1>6, <1>7, <1>8, <1>9, <1>10, <1>11 DEF LogViewerNext

\* The rows of ui/src/pages/LogViewer.tsx are of the time range that is set, for
\* any ranges and logs and any number of fetches in flight.
THEOREM RowsInRange == LogViewerSpec => [](LogViewerTypeOK /\ RowsOfTheRange)
<1>1. LogInv => LogViewerTypeOK /\ RowsOfTheRange
  BY DEF LogInv, LogViewerTypeOK, LogPage, LogReads
<1> QED
  BY LogInit, LogNext, <1>1, PTL DEF LogViewerSpec

-----------------------------------------------------------------------------
(* The fleet of edge agents (EdgeManagement).                                *)

FleetFetches == [manual : BOOLEAN, reads : SUBSET Fleets, overtaken : BOOLEAN]
EdgePage == [agents : Fleets, loading : BOOLEAN, refreshing : BOOLEAN, error : BOOLEAN,
             selectedAgent : SUBSET AgentRow, pending : Seq(FleetFetches), since : SUBSET Fleets,
             late : BOOLEAN, failed : BOOLEAN, opened : {"none", "since", "before"}]

\* What the newest fetch may read, unless a later one has been answered, is of the
\* time since the last one was sent.
EdgeInv ==
  /\ fleet \in [agents : Fleets, changes : 0 .. MaxChanges]
  /\ edge \in EdgePage
  /\ edge.pending # <<>> /\ ~edge.pending[Len(edge.pending)].overtaken
       => edge.pending[Len(edge.pending)].reads \subseteq edge.since
  /\ FleetIsShown

LEMMA NoAgents == <<>> \in Fleets
<1>1. <<>> \in [{} -> AgentStatus]
  BY EmptySeq
<1> QED
  BY <1>1 DEF Fleets

LEMMA RowType == ASSUME edge \in EdgePage PROVE AgentRows \in SUBSET AgentRow
<1>1. ASSUME NEW a \in DOMAIN edge.agents PROVE a \in EdgeAgents /\ edge.agents[a] \in AgentStatus
  <2>1. PICK registered \in SUBSET EdgeAgents : edge.agents \in [registered -> AgentStatus]
    BY DEF EdgePage, Fleets
  <2> QED BY <2>1
<1>2. \A status \in AgentStatus : GetStatusColor(status) \in {"success", "error", "warning", "default"}
  BY DEF GetStatusColor, AgentStatus
<1> QED
  BY <1>1, <1>2 DEF AgentRows, AgentRow

LEMMA EdgeInit == EdgeManagementInit => EdgeInv
<1> SUFFICES ASSUME EdgeManagementInit PROVE EdgeInv
  OBVIOUS
<1>1. PICK agents \in Fleets :
    /\ fleet = [agents |-> agents, changes |-> 0]
    /\ edge = [agents |-> <<>>, loading |-> TRUE, refreshing |-> FALSE, error |-> FALSE,
               selectedAgent |-> {}, pending |-> <<[manual |-> FALSE, reads |-> {agents},
                                                    overtaken |-> FALSE]>>,
               since |-> {agents}, late |-> FALSE, failed |-> FALSE, opened |-> "none"]
  BY DEF EdgeManagementInit
<1> DEFINE r == [manual |-> FALSE, reads |-> {agents}, overtaken |-> FALSE]
           q == <<r>>
<1>2. r \in FleetFetches /\ r.reads = {agents}
  BY DEF FleetFetches
<1>3. q \in Seq(FleetFetches) /\ Len(q) = 1 /\ q[1] = r /\ q # <<>>
  BY <1>2
<1>4. edge.pending = q
  BY <1>1
<1> HIDE DEF q, r
<1>5. edge \in EdgePage
  BY <1>1, <1>3, <1>4, NoAgents DEF EdgePage
<1>6. fleet \in [agents : Fleets, changes : 0 .. MaxChanges]
  BY <1>1, EdgeManagementAssumption
<1>7. edge.since = {agents} /\ ~edge.refreshing /\ edge.opened = "none"
  BY <1>1
<1> QED
  BY <1>2, <1>3, <1>4, <1>5, <1>6, <1>7 DEF EdgeInv, FleetIsShown

LEMMA FleetChangeStep == ASSUME EdgeInv, FleetChanges PROVE EdgeInv'
<1>1. PICK agents \in Fleets :
        /\ fleet' = [agents |-> agents, changes |-> fleet.changes + 1]
        /\ edge' = [edge EXCEPT !.since = @ \union {agents},
             !.pending = [i \in DOMAIN edge.pending |->
                            [edge.pending[i] EXCEPT !.reads = @ \union {agents}]]]
  BY DEF FleetChanges
<1> DEFINE q == edge.pending
           f == [i \in DOMAIN q |-> [q[i] EXCEPT !.reads = @ \union {agents}]]
<1>2. edge \in EdgePage /\ q \in Seq(FleetFetches) /\ DOMAIN q = 1 .. Len(q) /\ Len(q) \in Nat
  BY DEF EdgeInv, EdgePage
<1>3. \A i \in 1 .. Len(q) :
        /\ f[i] \in FleetFetches /\ f[i].reads = q[i].reads \union {agents}
        /\ f[i].manual = q[i].manual /\ f[i].overtaken = q[i].overtaken
  <2>1. ASSUME NEW i \in 1 .. Len(q)
        PROVE /\ f[i] \in FleetFetches /\ f[i].reads = q[i].reads \union {agents}
              /\ f[i].manual = q[i].manual /\ f[i].overtaken = q[i].overtaken
    <3>1. q[i] \in FleetFetches /\ f[i] = [q[i] EXCEPT !.reads = @ \union {agents}]
      BY <1>2, ElementOfSeq
    <3> QED BY <3>1 DEF FleetFetches
  <2> QED BY <2>1
<1>4. f \in Seq(FleetFetches) /\ Len(f) = Len(q)
  <2>1. f \in [1 .. Len(q) -> FleetFetches]
    BY <1>2, <1>3
  <2> HIDE DEF f
  <2> QED BY <1>2, <2>1, IsASeq, LenProperties
<1>5. edge' = [edge EXCEPT !.since = edge.since \union {agents}, !.pending = f]
  BY <1>1
<1> HIDE DEF f
<1>6. edge' \in EdgePage
  BY <1>2, <1>4, <1>5 DEF EdgePage
<1>7. /\ edge'.pending = f /\ edge'.since = edge.since \union {agents}
      /\ edge'.late = edge.late /\ edge'.failed = edge.failed /\ edge'.agents = edge.agents
      /\ edge'.refreshing = edge.refreshing /\ edge'.opened = edge.opened
      /\ edge'.selectedAgent = edge.selectedAgent /\ edge'.loading = edge.loading
  BY <1>2, <1>5 DEF EdgePage
<1>8. fleet' \in [agents : Fleets, changes : 0 .. MaxChanges]
  <2>1. fleet.changes \in 0 .. MaxChanges /\ fleet.changes < MaxChanges
    BY DEF EdgeInv, FleetChanges
  <2>2. fleet.changes + 1 \in 0 .. MaxChanges
    BY <2>1, EdgeManagementAssumption
  <2> QED BY <1>1, <2>2
<1>9. ASSUME f # <<>>, ~f[Len(f)].overtaken
      PROVE  f[Len(f)].reads \subseteq edge'.since
  <2>1. q # <<>> /\ Len(q) \in 1 .. Len(q)
    BY <1>2, <1>4, <1>9, EmptySeq
  <2> QED BY <1>3, <1>4, <1>7, <1>9, <2>1 DEF EdgeInv
<1>10. ASSUME f = <<>> PROVE edge.late \/ edge.failed \/ edge.agents \in edge'.since
  <2>1. q = <<>>
    BY <1>2, <1>4, <1>10, EmptySeq
  <2> QED BY <1>7, <2>1 DEF EdgeInv, FleetIsShown
<1>11. ASSUME edge.refreshing PROVE \E i \in DOMAIN f : f[i].manual
  <2>1. PICK i \in 1 .. Len(q) : q[i].manual
    BY <1>2, <1>11 DEF EdgeInv, FleetIsShown
  <2> QED BY <1>3, <1>4, <2>1
<1>12. AgentRows' = AgentRows
  BY <1>7 DEF AgentRows, Shown
<1> QED
  BY <1>6, <1>7, <1>8, <1>9, <1>10, <1>11, <1>12 DEF EdgeInv, FleetIsShown

LEMMA FetchAgentsStep ==
  ASSUME EdgeInv, NEW manual \in BOOLEAN, FetchAgents(manual) PROVE EdgeInv'
<1> DEFINE r == Fetch(manual)
           q == edge.pending
           pending == Append(q, r)
<1>1. edge \in EdgePage /\ q \in Seq(FleetFetches) /\ fleet.agents \in Fleets
  BY DEF EdgeInv, EdgePage
<1>2. r \in FleetFetches /\ r.reads = {fleet.agents} /\ r.manual = manual
  BY <1>1 DEF Fetch, FleetFetches
<1>3. edge' = [edge EXCEPT !.refreshing = edge.refreshing \/ manual, !.pending = pending,
                 !.since = {fleet.agents}]
  BY <1>1 DEF FetchAgents, EdgePage
<1> HIDE DEF r
<1>4. /\ pending \in Seq(FleetFetches) /\ pending # <<>> /\ pending[Len(pending)] = r
      /\ Len(pending) = Len(q) + 1 /\ \A i \in 1 .. Len(q) : pending[i] = q[i]
  BY <1>1, <1>2, AppendProperties
<1> HIDE DEF pending
<1>5. edge' \in EdgePage
  BY <1>1, <1>3, <1>4 DEF EdgePage
<1>6. /\ edge'.pending = pending /\ edge'.since = {fleet.agents}
      /\ edge'.late = edge.late /\ edge'.failed = edge.failed /\ edge'.agents = edge.agents
      /\ edge'.refreshing = (edge.refreshing \/ manual) /\ edge'.opened = edge.opened
      /\ edge'.selectedAgent = edge.selectedAgent /\ edge'.loading = edge.loading
  BY <1>1, <1>3 DEF EdgePage
<1>7. ASSUME edge.refreshing \/ manual PROVE \E i \in DOMAIN pending : pending[i].manual
  <2>1. CASE manual
    <3>1. Len(pending) \in DOMAIN pending
      BY <1>4, EmptySeq
    <3> QED BY <1>2, <1>4, <2>1, <3>1
  <2>2. CASE edge.refreshing
    <3>1. PICK i \in 1 .. Len(q) : q[i].manual
      BY <1>1, <2>2 DEF EdgeInv, FleetIsShown
    <3> QED BY <1>1, <1>4, <3>1
  <2> QED BY <1>7, <2>1, <2>2
<1>8. AgentRows' = AgentRows
  BY <1>6 DEF AgentRows, Shown
<1>9. UNCHANGED fleet
  BY DEF FetchAgents
<1> QED
  BY <1>2, <1>4, <1>5, <1>6, <1>7, <1>8, <1>9 DEF EdgeInv, FleetIsShown

\* An answer, good or bad: the newest fetch was answered, or the answer comes late.
LEMMA SettledStep ==
  ASSUME EdgeInv, NEW i \in DOMAIN edge.pending, NEW agents \in Fleets,
         NEW error \in BOOLEAN, NEW failed \in BOOLEAN,
         NEW opened \in {"none", "since", "before"},
         edge' = [Settled(i) EXCEPT !.agents = agents, !.error = error, !.failed = failed,
                    !.opened = opened],
         failed \/ agents \in edge.pending[i].reads,
         opened = "since" => opened = edge.opened /\ agents = edge.agents,
         UNCHANGED fleet
  PROVE  EdgeInv'
<1> DEFINE q == edge.pending
           left == AfterAnswer(q, i)
<1>1. /\ edge \in EdgePage /\ q \in Seq(FleetFetches) /\ i \in 1 .. Len(q)
      /\ q[i].overtaken \in BOOLEAN
  <2>1. edge \in EdgePage /\ q \in Seq(FleetFetches) /\ i \in 1 .. Len(q)
    BY DEF EdgeInv, EdgePage
  <2>2. q[i] \in FleetFetches
    BY <2>1, ElementOfSeq
  <2> QED BY <2>1, <2>2 DEF FleetFetches
<1>2. \A r \in FleetFetches : [r EXCEPT !.overtaken = TRUE] \in FleetFetches
                           /\ [r EXCEPT !.overtaken = TRUE].overtaken = TRUE
  BY DEF FleetFetches
<1>3. /\ left \in Seq(FleetFetches)
      /\ left = <<>> => i = Len(q)
      /\ left # <<>> /\ ~left[Len(left)].overtaken
           => q # <<>> /\ left[Len(left)] = q[Len(q)] /\ ~q[Len(q)].overtaken
  BY <1>1, <1>2, NewestStays
<1>4. Settled(i) = [edge EXCEPT !.loading = FALSE, !.refreshing = FALSE,
                      !.late = q[i].overtaken, !.pending = left]
  BY DEF Settled, AfterAnswer
<1> HIDE DEF left
<1>5. edge' = [edge EXCEPT !.loading = FALSE, !.refreshing = FALSE, !.late = q[i].overtaken,
                 !.pending = left, !.agents = agents, !.error = error, !.failed = failed,
                 !.opened = opened]
  BY <1>1, <1>4 DEF EdgePage
<1>6. edge' \in EdgePage
  BY <1>1, <1>3, <1>5 DEF EdgePage
<1>7. /\ edge'.pending = left /\ edge'.since = edge.since /\ edge'.late = q[i].overtaken
      /\ edge'.failed = failed /\ edge'.agents = agents /\ ~edge'.refreshing
      /\ edge'.opened = opened /\ edge'.selectedAgent = edge.selectedAgent /\ ~edge'.loading
  BY <1>1, <1>5 DEF EdgePage
<1>8. ASSUME left # <<>>, ~left[Len(left)].overtaken
      PROVE  left[Len(left)].reads \subseteq edge.since
  BY <1>3, <1>8 DEF EdgeInv
<1>9. ASSUME left = <<>>, ~q[i].overtaken, ~failed PROVE agents \in edge.since
  <2>1. q # <<>> /\ i = Len(q)
    BY <1>1, <1>3, <1>9
  <2> QED BY <2>1, <1>9 DEF EdgeInv
<1>10. ASSUME opened = "since" PROVE edge.selectedAgent \subseteq AgentRows'
  <2>1. edge.selectedAgent \subseteq AgentRows /\ agents = edge.agents
    BY <1>10 DEF EdgeInv, FleetIsShown
  <2>2. AgentRows \subseteq AgentRows'
    BY <1>7, <2>1 DEF AgentRows, Shown
  <2> QED BY <2>1, <2>2
<1> QED
  BY <1>6, <1>7, <1>8, <1>9, <1>10 DEF EdgeInv, FleetIsShown

\* The dialog and the error, which concern no fetch.
LEMMA DialogStep ==
  ASSUME EdgeInv, NEW error \in BOOLEAN, NEW chosen \in SUBSET AgentRow,
         NEW opened \in {"none", "since", "before"},
         edge' = [edge EXCEPT !.error = error, !.selectedAgent = chosen, !.opened = opened],
         opened = "since" => chosen \subseteq AgentRows,
         UNCHANGED fleet
  PROVE  EdgeInv'
<1>1. edge \in EdgePage
  BY DEF EdgeInv
<1>2. edge' \in EdgePage
  BY <1>1 DEF EdgePage
<1>3. /\ edge'.pending = edge.pending /\ edge'.since = edge.since /\ edge'.late = edge.late
      /\ edge'.failed = edge.failed /\ edge'.agents = edge.agents
      /\ edge'.refreshing = edge.refreshing /\ edge'.opened = opened
      /\ edge'.selectedAgent = chosen /\ edge'.loading = edge.loading
  BY <1>1 DEF EdgePage
<1>4. AgentRows' = AgentRows
  BY <1>3 DEF AgentRows, Shown
<1> QED
  BY <1>2, <1>3, <1>4 DEF EdgeInv, FleetIsShown

LEMMA EdgeNext == EdgeInv /\ [EdgeManagementNext]_edgeVars => EdgeInv'
<1> SUFFICES ASSUME EdgeInv, [EdgeManagementNext]_edgeVars PROVE EdgeInv'
  OBVIOUS
<1>1. /\ edge \in EdgePage /\ edge.agents \in Fleets /\ edge.error \in BOOLEAN
      /\ edge.selectedAgent \in SUBSET AgentRow /\ edge.opened \in {"none", "since", "before"}
      /\ edge.pending \in Seq(FleetFetches)
      /\ edge.opened = "since" => edge.selectedAgent \subseteq AgentRows
  BY DEF EdgeInv, EdgePage, FleetIsShown
<1>2. CASE FleetChanges
  BY <1>2, FleetChangeStep
<1>3. CASE Poll
  BY <1>3, FetchAgentsStep DEF Poll
<1>4. CASE HandleRefresh
  BY <1>4, FetchAgentsStep DEF HandleRefresh
<1>5. CASE HandleCloseDetails
  <2>1. edge' = [edge EXCEPT !.error = edge.error, !.selectedAgent = {}, !.opened = "none"]
    BY <1>1, <1>5 DEF HandleCloseDetails, EdgePage
  <2> QED BY <1>1, <1>5, <2>1, DialogStep DEF HandleCloseDetails
<1>6. CASE DismissError
  <2>1. edge' = [edge EXCEPT !.error = FALSE, !.selectedAgent = edge.selectedAgent,
                             !.opened = edge.opened]
    BY <1>1, <1>6 DEF DismissError, EdgePage
  <2> QED BY <1>1, <1>6, <2>1, DialogStep DEF DismissError
<1>7. ASSUME NEW row \in AgentRows, HandleAgentClick(row) PROVE EdgeInv'
  <2>1. {row} \in SUBSET AgentRow /\ {row} \subseteq AgentRows
    BY <1>1, <1>7, RowType
  <2>2. edge' = [edge EXCEPT !.error = edge.error, !.selectedAgent = {row}, !.opened = "since"]
    BY <1>1, <1>7 DEF HandleAgentClick, EdgePage
  <2>3. UNCHANGED fleet /\ "since" \in {"none", "since", "before"}
    BY <1>7 DEF HandleAgentClick
  <2> HIDE DEF EdgeInv
  <2> QED BY <1>1, <2>1, <2>2, <2>3, DialogStep
<1>8. ASSUME NEW i \in DOMAIN edge.pending, AgentsArrive(i) PROVE EdgeInv'
  <2> DEFINE opened == IF edge.opened = "none" THEN "none" ELSE "before"
  <2>1. PICK agents \in edge.pending[i].reads :
          edge' = [Settled(i) EXCEPT !.agents = agents, !.error = FALSE, !.failed = FALSE,
                     !.opened = IF @ = "none" THEN @ ELSE "before"]
    BY <1>8 DEF AgentsArrive
  <2>2. edge.pending[i] \in FleetFetches
    BY <1>1, ElementOfSeq
  <2>3. agents \in Fleets
    BY <2>1, <2>2 DEF FleetFetches
  <2>4. edge' = [Settled(i) EXCEPT !.agents = agents, !.error = FALSE, !.failed = FALSE,
                     !.opened = opened]
    BY <1>1, <2>1 DEF Settled, EdgePage
  <2>5. opened \in {"none", "since", "before"} /\ opened # "since"
    OBVIOUS
  <2> HIDE DEF opened
  <2> QED BY <1>8, <2>1, <2>3, <2>4, <2>5, SettledStep DEF AgentsArrive
<1>9. ASSUME NEW i \in DOMAIN edge.pending, AgentsFail(i) PROVE EdgeInv'
  <2>1. edge' = [Settled(i) EXCEPT !.agents = edge.agents, !.error = TRUE, !.failed = TRUE,
                     !.opened = edge.opened]
    BY <1>1, <1>9 DEF AgentsFail, Settled, EdgePage
  <2> QED BY <1>1, <1>9, <2>1, SettledStep DEF AgentsFail
<1>10. CASE UNCHANGED edgeVars
  BY <1>10 DEF edgeVars, EdgeInv, FleetIsShown, AgentRows, Shown
<1> QED
  BY <1>2, <1>3, <1>4, <1>5, <1>6, <1>7, <1>8, <1>9, <1>10 DEF EdgeManagementNext

\* The table of ui/src/components/EdgeManagement.jsx is what the coordinator had
\* since the last fetch, for any agents and any number of fetches in flight.
THEOREM FleetShown == EdgeManagementSpec => [](EdgeManagementTypeOK /\ FleetIsShown)
<1>1. EdgeInv => EdgeManagementTypeOK /\ FleetIsShown
  BY DEF EdgeInv, EdgeManagementTypeOK, EdgePage, FleetFetches
<1> QED
  BY EdgeInit, EdgeNext, <1>1, PTL DEF EdgeManagementSpec

-----------------------------------------------------------------------------
(* The live feed (LiveFeed).                                                 *)

Sockets == [state : {"connecting", "open", "closed"}, received : 0 .. MaxMessages]
Feeds == [events : Seq(Event), newest : 0 .. MaxMessages, isPaused : BOOLEAN,
          filtered : BOOLEAN, showFilters : BOOLEAN, total : 0 .. MaxIds,
          ids : 0 .. MaxIds, resumed : SUBSET (0 .. MaxMessages)]

\* Two events of the feed f, the first of them the newer one.
InOrder(newer, older, f) ==
  /\ newer.id > older.id
  /\ newer.message # 0 /\ older.message # 0 =>
       \/ newer.message > older.message
       \/ newer.message = older.message /\ newer.message \in f.resumed

\* No event is newer than the last one made, nor of a later message than the last
\* one rendered, which came; the counter never passes the ids.
FeedOrder(f) ==
  /\ f \in Feeds
  /\ \A i \in 1 .. Len(f.events) : f.events[i].id <= f.ids /\ f.events[i].message <= f.newest
  /\ \A i, j \in 1 .. Len(f.events) : i < j => InOrder(f.events[i], f.events[j], f)
  /\ Len(f.events) <= f.total /\ f.total <= f.ids

FeedInv == socket \in Sockets /\ FeedOrder(feed) /\ feed.newest <= socket.received

LEMMA FeedInit == LiveFeedInit => FeedInv
<1> SUFFICES ASSUME LiveFeedInit PROVE FeedInv
  OBVIOUS
<1>1. socket = [state |-> "connecting", received |-> 0]
  BY DEF LiveFeedInit
<1>2. feed = [events |-> <<>>, newest |-> 0, isPaused |-> FALSE, filtered |-> FALSE,
              showFilters |-> FALSE, total |-> 0, ids |-> 0, resumed |-> {}]
  BY DEF LiveFeedInit
<1>3. 0 \in 0 .. MaxMessages /\ 0 \in 0 .. MaxIds
  BY LiveFeedAssumption
<1>4. feed \in Feeds /\ feed.events = <<>> /\ Len(feed.events) = 0
  BY <1>2, <1>3 DEF Feeds
<1> QED
  BY <1>1, <1>2, <1>3, <1>4 DEF FeedInv, FeedOrder, Sockets

\* An event of the newest message, or of none, keeps the order when no other is of
\* that message, or when the feed was resumed at it.
LEMMA AddedKeepsOrder ==
  ASSUME NEW f, FeedOrder(f), f.ids < MaxIds, NEW message \in {0, f.newest},
         NEW matches \in BOOLEAN,
         \/ message \in f.resumed
         \/ \A i \in 1 .. Len(f.events) : f.events[i].message < message
         \/ message = 0
  PROVE  FeedOrder(Added(f, message, matches)) /\ Added(f, message, matches).newest = f.newest
<1> DEFINE e == [id |-> f.ids + 1, message |-> message, matches |-> matches]
           s == <<e>> \o f.events
           n == IF Len(f.events) < MaxEvents THEN Len(f.events) + 1 ELSE MaxEvents
           events == SubSeq(s, 1, n)
           g == Added(f, message, matches)
<1>1. /\ f \in Feeds /\ f.events \in Seq(Event) /\ Len(f.events) \in Nat
      /\ f.ids \in 0 .. MaxIds /\ f.total \in 0 .. MaxIds /\ f.newest \in 0 .. MaxMessages
      /\ {MaxEvents, MaxMessages, MaxIds} \subseteq Nat
  BY LiveFeedAssumption DEF FeedOrder, Feeds
<1>2. e \in Event /\ e.id = f.ids + 1 /\ e.message = message
  BY <1>1 DEF Event
<1> HIDE DEF e
<1>3. /\ s \in Seq(Event) /\ Len(s) = Len(f.events) + 1 /\ s[1] = e
      /\ \A i \in 2 .. Len(s) : i - 1 \in 1 .. Len(f.events) /\ s[i] = f.events[i - 1]
  BY <1>1, <1>2
<1>4. n \in 0 .. Len(s)
  BY <1>1, <1>3
<1> HIDE DEF s
<1>5. n <= Len(f.events) + 1
  BY <1>1
<1> HIDE DEF n
<1>6. events \in Seq(Event) /\ Len(events) = n /\ \A i \in 1 .. n : events[i] = s[i]
  BY <1>3, <1>4
<1>7. g = [f EXCEPT !.events = events, !.total = f.total + 1, !.ids = f.ids + 1]
  BY <1>1 DEF Added, Feeds, e, n, s
<1> HIDE DEF events
<1>8. f.ids + 1 \in 0 .. MaxIds /\ f.total + 1 \in 0 .. MaxIds
  BY <1>1 DEF FeedOrder
<1> HIDE DEF g
<1>9. /\ g \in Feeds /\ g.events = events /\ g.newest = f.newest /\ g.resumed = f.resumed
      /\ g.ids = f.ids + 1 /\ g.total = f.total + 1
  BY <1>1, <1>6, <1>7, <1>8 DEF Feeds
<1>10. Len(g.events) <= g.total /\ g.total <= g.ids
  BY <1>1, <1>5, <1>6, <1>9 DEF FeedOrder
<1>11. n \in Nat /\ Len(s) \in Nat
  BY <1>1, <1>3, <1>4
<1>12. ASSUME NEW i \in 1 .. n, i # 1
       PROVE  /\ i - 1 \in 1 .. Len(f.events) /\ events[i] = f.events[i - 1]
              /\ events[i].id \in Int /\ events[i].id <= f.ids
              /\ events[i].message \in Nat /\ events[i].message <= f.newest
  <2>1. i \in 2 .. Len(f.events) + 1 /\ i \in 2 .. Len(s)
    BY <1>1, <1>3, <1>5, <1>11, <1>12
  <2>2. i - 1 \in 1 .. Len(f.events) /\ events[i] = f.events[i - 1]
    BY <1>3, <1>6, <2>1
  <2>3. f.events[i - 1] \in Event
    BY <1>1, <2>2, ElementOfSeq
  <2>4. events[i].id \in 1 .. MaxIds /\ events[i].message \in 0 .. MaxMessages
    BY <2>2, <2>3 DEF Event
  <2>5. f.events[i - 1].id <= f.ids /\ f.events[i - 1].message <= f.newest
    BY <2>2 DEF FeedOrder
  <2> QED BY <1>1, <2>2, <2>4, <2>5
<1>13. n >= 1 => events[1] = e
  BY <1>3, <1>6, <1>11
<1>14. message \in Nat /\ message <= f.newest /\ f.ids \in Int
  BY <1>1
<1>15. ASSUME NEW i \in 1 .. n
       PROVE  events[i].id <= g.ids /\ events[i].message <= g.newest
  <2>1. CASE i = 1
    BY <1>2, <1>9, <1>11, <1>13, <1>14, <2>1
  <2>2. CASE i # 1
    BY <1>9, <1>12, <1>14, <2>2
  <2> QED BY <2>1, <2>2
<1>16. ASSUME NEW i \in 1 .. n, NEW j \in 1 .. n, i < j
       PROVE  InOrder(events[i], events[j], g)
  <2>1. j # 1
    BY <1>11, <1>16
  <2>2. /\ j - 1 \in 1 .. Len(f.events) /\ events[j] = f.events[j - 1]
        /\ events[j].id \in Int /\ events[j].id <= f.ids
        /\ events[j].message \in Nat /\ events[j].message <= f.newest
    BY <1>12, <2>1
  <2>3. CASE i = 1
    <3>1. events[i] = e
      BY <1>11, <1>13, <2>3
    <3>2. e.id > events[j].id
      BY <1>2, <1>14, <2>2
    <3>3. ASSUME message # 0
          PROVE  \/ message > events[j].message
                 \/ message = events[j].message /\ message \in f.resumed
      <4>1. message = f.newest
        BY <3>3
      <4>2. CASE message \in f.resumed
        BY <1>14, <2>2, <4>1, <4>2
      <4>3. CASE \A k \in 1 .. Len(f.events) : f.events[k].message < message
        BY <1>14, <2>2, <4>3
      <4> QED BY <3>3, <4>2, <4>3
    <3> QED BY <1>2, <1>9, <3>1, <3>2, <3>3 DEF InOrder
  <2>4. CASE i # 1
    <3>1. i - 1 \in 1 .. Len(f.events) /\ events[i] = f.events[i - 1]
      BY <1>12, <2>4
    <3>2. i - 1 < j - 1
      BY <1>11, <1>16
    <3>3. InOrder(f.events[i - 1], f.events[j - 1], f)
      BY <2>2, <3>1, <3>2 DEF FeedOrder
    <3> QED BY <1>9, <2>2, <3>1, <3>3 DEF InOrder
  <2> QED BY <2>3, <2>4
<1> QED
  BY <1>6, <1>9, <1>10, <1>15, <1>16 DEF FeedOrder, g

\* The effect at the end of a render of f, a feed in order.
LEMMA EffectStep ==
  ASSUME NEW f, FeedOrder(f), ProcessMessages(f), socket' \in Sockets,
         f.newest <= socket'.received,
         ~f.isPaused => \/ f.newest \in f.resumed
                        \/ \A i \in 1 .. Len(f.events) : f.events[i].message < f.newest
  PROVE  FeedInv'
<1>1. CASE f.newest > 0 /\ ~f.isPaused
  <2>1. PICK matches \in BOOLEAN : f.ids < MaxIds /\ feed' = Added(f, f.newest, matches)
    BY <1>1 DEF ProcessMessages
  <2> QED BY <1>1, <2>1, AddedKeepsOrder DEF FeedInv
<1>2. CASE ~(f.newest > 0 /\ ~f.isPaused)
  BY <1>2 DEF ProcessMessages, FeedInv
<1> QED
  BY <1>1, <1>2

LEMMA RenderStep == ASSUME FeedInv, RenderMessages PROVE FeedInv'
<1>1. PICK n \in feed.newest + 1 .. socket.received : ProcessMessages([feed EXCEPT !.newest = n])
  BY DEF RenderMessages
<1> DEFINE f == [feed EXCEPT !.newest = n]
<1>2. feed \in Feeds /\ socket \in Sockets /\ UNCHANGED socket
  BY DEF FeedInv, FeedOrder, RenderMessages
<1>3. /\ feed.newest \in 0 .. MaxMessages /\ socket.received \in 0 .. MaxMessages
      /\ feed.events \in Seq(Event) /\ MaxMessages \in Nat
  BY <1>2, LiveFeedAssumption DEF Feeds, Sockets
<1>4. n \in 0 .. MaxMessages /\ n > feed.newest /\ n <= socket.received
  BY <1>3
<1>5. /\ f \in Feeds /\ f.events = feed.events /\ f.newest = n /\ f.resumed = feed.resumed
      /\ f.ids = feed.ids /\ f.total = feed.total
  BY <1>2, <1>4 DEF Feeds
<1> HIDE DEF f
<1>6. ASSUME NEW i \in 1 .. Len(f.events)
      PROVE  f.events[i].id <= f.ids /\ f.events[i].message < f.newest
  <2>1. f.events[i] \in Event
    BY <1>3, <1>5, ElementOfSeq
  <2>2. feed.events[i].id <= feed.ids /\ feed.events[i].message <= feed.newest
    BY <1>5 DEF FeedInv, FeedOrder
  <2>3. f.events[i].id <= f.ids /\ f.events[i].message <= feed.newest
    BY <1>5, <2>2
  <2>4. f.events[i].message \in Int
    BY <2>1 DEF Event
  <2> QED BY <1>3, <1>4, <1>5, <2>3, <2>4
<1>7. ASSUME NEW i \in 1 .. Len(f.events) PROVE f.events[i].message <= f.newest
  <2>1. f.events[i] \in Event
    BY <1>3, <1>5, ElementOfSeq
  <2> QED BY <1>3, <1>4, <1>5, <1>6, <2>1 DEF Event
<1>8. FeedOrder(f)
  BY <1>5, <1>6, <1>7 DEF FeedOrder, FeedInv, InOrder
<1> QED
  BY <1>1, <1>2, <1>4, <1>5, <1>6, <1>8, EffectStep DEF f

LEMMA PauseStep == ASSUME FeedInv, NEW paused \in BOOLEAN, SetIsPaused(paused) PROVE FeedInv'
<1> DEFINE resumed == IF paused THEN feed.resumed ELSE feed.resumed \union {feed.newest}
           f == [feed EXCEPT !.isPaused = paused, !.resumed = resumed]
<1>1. feed \in Feeds /\ socket \in Sockets /\ UNCHANGED socket
  BY DEF FeedInv, FeedOrder, SetIsPaused
<1>2. resumed \in SUBSET (0 .. MaxMessages) /\ feed.resumed \subseteq resumed
  BY <1>1 DEF Feeds
<1>3. ProcessMessages(f)
  BY DEF SetIsPaused
<1>4. ~paused => feed.newest \in resumed
  OBVIOUS
<1> HIDE DEF resumed
<1>5. /\ f \in Feeds /\ f.events = feed.events /\ f.newest = feed.newest /\ f.resumed = resumed
      /\ f.ids = feed.ids /\ f.total = feed.total /\ f.isPaused = paused
  BY <1>1, <1>2 DEF Feeds
<1> HIDE DEF f
<1>6. FeedOrder(f)
  BY <1>2, <1>5 DEF FeedOrder, FeedInv, InOrder
<1> QED
  BY <1>1, <1>3, <1>4, <1>5, <1>6, EffectStep DEF FeedInv

LEMMA MockStep == ASSUME FeedInv, MockEvent PROVE FeedInv'
<1>1. PICK matches \in BOOLEAN : feed' = Added(feed, 0, matches)
  BY DEF MockEvent
<1>2. feed.ids < MaxIds /\ UNCHANGED socket
  BY DEF MockEvent
<1> QED
  BY <1>1, <1>2, AddedKeepsOrder DEF FeedInv

\* The filters and their panel, which concern no event.
LEMMA FeedViewStep ==
  ASSUME FeedInv, NEW filtered \in BOOLEAN, NEW shown \in BOOLEAN, UNCHANGED socket,
         feed' = [feed EXCEPT !.filtered = filtered, !.showFilters = shown]
  PROVE  FeedInv'
<1>1. feed \in Feeds
  BY DEF FeedInv, FeedOrder
<1>2. /\ feed' \in Feeds /\ feed'.events = feed.events /\ feed'.newest = feed.newest
      /\ feed'.resumed = feed.resumed /\ feed'.ids = feed.ids /\ feed'.total = feed.total
  BY <1>1 DEF Feeds
<1> QED
  BY <1>2 DEF FeedInv, FeedOrder, InOrder

LEMMA ClearStep == ASSUME FeedInv, HandleClearFeed PROVE FeedInv'
<1>1. feed \in Feeds /\ feed' = [feed EXCEPT !.events = <<>>, !.total = 0] /\ UNCHANGED socket
  BY DEF FeedInv, FeedOrder, HandleClearFeed
<1>2. 0 \in 0 .. MaxIds /\ feed.ids \in 0 .. MaxIds
  BY <1>1, LiveFeedAssumption DEF Feeds
<1>3. /\ feed' \in Feeds /\ feed'.events = <<>> /\ feed'.newest = feed.newest
      /\ feed'.resumed = feed.resumed /\ feed'.ids = feed.ids /\ feed'.total = 0
  <2>1. <<>> \in Seq(Event)
    OBVIOUS
  <2> DEFINE events == <<>>
  <2>2. events \in Seq(Event) /\ feed' = [feed EXCEPT !.events = events, !.total = 0]
    BY <1>1, <2>1
  <2> HIDE DEF events
  <2>3. /\ feed' \in Feeds /\ feed'.events = events /\ feed'.newest = feed.newest
        /\ feed'.resumed = feed.resumed /\ feed'.ids = feed.ids /\ feed'.total = 0
    BY <1>1, <1>2, <2>2 DEF Feeds
  <2> QED BY <2>3 DEF events
<1>4. Len(feed'.events) = 0
  BY <1>3
<1> QED
  BY <1>1, <1>2, <1>3, <1>4 DEF FeedInv, FeedOrder

LEMMA SocketStep ==
  ASSUME FeedInv, SocketOpens \/ SocketCloses \/ MessageArrives PROVE FeedInv'
<1>1. socket \in Sockets /\ feed \in Feeds /\ feed.newest <= socket.received /\ UNCHANGED feed
  BY DEF FeedInv, FeedOrder, SocketOpens, SocketCloses, MessageArrives
<1>2. CASE SocketOpens \/ SocketCloses
  BY <1>1, <1>2 DEF FeedInv, Sockets, SocketOpens, SocketCloses
<1>3. CASE MessageArrives
  <2>1. socket' = [socket EXCEPT !.received = socket.received + 1] /\ socket.received < MaxMessages
    BY <1>1, <1>3 DEF MessageArrives
  <2>2. socket.received \in 0 .. MaxMessages /\ feed.newest \in 0 .. MaxMessages /\ MaxMessages \in Nat
    BY <1>1, LiveFeedAssumption DEF Sockets, Feeds
  <2>3. socket.received + 1 \in 0 .. MaxMessages /\ feed.newest <= socket.received + 1
    BY <1>1, <2>1, <2>2
  <2>4. socket' \in Sockets /\ socket'.received = socket.received + 1
    BY <1>1, <2>1, <2>3 DEF Sockets
  <2> QED BY <1>1, <2>3, <2>4 DEF FeedInv
<1> QED
  BY <1>2, <1>3

LEMMA FeedNext == FeedInv /\ [LiveFeedNext]_liveFeedVars => FeedInv'
<1> SUFFICES ASSUME FeedInv, [LiveFeedNext]_liveFeedVars PROVE FeedInv'
  OBVIOUS
<1>1. feed \in Feeds /\ feed.filtered \in BOOLEAN /\ feed.showFilters \in BOOLEAN
  BY DEF FeedInv, FeedOrder, Feeds
<1>2. CASE SocketOpens \/ SocketCloses \/ MessageArrives
  BY <1>2, SocketStep
<1>3. CASE RenderMessages
  BY <1>3, RenderStep
<1>4. CASE MockEvent
  BY <1>4, MockStep
<1>5. CASE ShowFilters
  <2>1. feed' = [feed EXCEPT !.filtered = feed.filtered, !.showFilters = ~feed.showFilters]
    BY <1>1, <1>5 DEF ShowFilters, Feeds
  <2>2. (~feed.showFilters) \in BOOLEAN
    BY <1>1
  <2> QED BY <1>1, <1>5, <2>1, <2>2, FeedViewStep DEF ShowFilters
<1>6. CASE HandleClearFeed
  BY <1>6, ClearStep
<1>7. ASSUME NEW b \in BOOLEAN, SetIsPaused(b) PROVE FeedInv'
  BY <1>7, PauseStep
<1>8. ASSUME NEW b \in BOOLEAN, SetFilter(b) PROVE FeedInv'
  <2>1. feed' = [feed EXCEPT !.filtered = b, !.showFilters = feed.showFilters]
    BY <1>1, <1>8 DEF SetFilter, Feeds
  <2> QED BY <1>1, <1>8, <2>1, FeedViewStep DEF SetFilter
<1>9. CASE UNCHANGED <<socket, feed>>
  BY <1>9 DEF FeedInv
<1>10. CASE \/ CloseModal \/ HandleCopyJSON \/ CopiedTimer
            \/ \E i \in FilteredEvents : SelectEvent(i)
  BY <1>9, <1>10 DEF CloseModal, HandleCopyJSON, CopiedTimer, SelectEvent
<1> QED
  BY <1>2, <1>3, <1>4, <1>5, <1>6, <1>7, <1>8, <1>9, <1>10 DEF LiveFeedNext, liveFeedVars

Details == [event : SUBSET Event, copied : BOOLEAN, timers : 0 .. 2]

\* The modal shows an event of the feed, as it was when it was clicked.
LEMMA DetailNext ==
  ASSUME feed \in Feeds, detail \in Details, [LiveFeedNext]_liveFeedVars PROVE detail' \in Details
<1>1. CASE \E i \in FilteredEvents : SelectEvent(i)
  <2>1. PICK i \in FilteredEvents : SelectEvent(i)
    BY <1>1
  <2>2. feed.events \in Seq(Event) /\ i \in 1 .. Len(feed.events)
    BY DEF Feeds, FilteredEvents
  <2>3. feed.events[i] \in Event
    BY <2>2, ElementOfSeq
  <2> QED BY <2>1, <2>3 DEF SelectEvent, Details
<1>2. CASE CloseModal \/ HandleCopyJSON \/ CopiedTimer
  <2>1. detail.timers \in 0 .. 2
    BY DEF Details
  <2>2. CASE CloseModal
    BY <2>2 DEF CloseModal, Details
  <2>3. CASE HandleCopyJSON
    <3>1. detail.timers + 1 \in 0 .. 2
      BY <2>1, <2>3 DEF HandleCopyJSON
    <3> QED BY <2>3, <3>1 DEF HandleCopyJSON, Details
  <2>4. CASE CopiedTimer
    <3>1. detail.timers - 1 \in 0 .. 2
      BY <2>1, <2>4 DEF CopiedTimer
    <3> QED BY <2>4, <3>1 DEF CopiedTimer, Details
  <2> QED BY <1>2, <2>2, <2>3, <2>4
<1>3. CASE UNCHANGED detail
  BY <1>3
<1>4. CASE SocketOpens \/ SocketCloses \/ MessageArrives \/ RenderMessages \/ MockEvent
  BY <1>3, <1>4 DEF SocketOpens, SocketCloses, MessageArrives, RenderMessages, MockEvent
<1>5. CASE ShowFilters \/ HandleClearFeed \/ \E b \in BOOLEAN : SetIsPaused(b) \/ SetFilter(b)
  BY <1>3, <1>5 DEF ShowFilters, HandleClearFeed, SetIsPaused, SetFilter
<1> QED BY <1>1, <1>2, <1>3, <1>4, <1>5 DEF LiveFeedNext, liveFeedVars

LEMMA DetailInit == LiveFeedInit => detail \in Details
BY DEF LiveFeedInit, Details

\* The live feed of ui/src/components/RealTimeFeed.tsx shows the newest event
\* first and the messages in the order they came, for any size of the feed.
THEOREM FeedInOrder == LiveFeedSpec => [](LiveFeedTypeOK /\ FeedIsTheStream)
<1> DEFINE Inv == FeedInv /\ detail \in Details
<1>1. FeedInv => FeedIsTheStream
  <2> SUFFICES ASSUME FeedInv PROVE FeedIsTheStream
    OBVIOUS
  <2>1. feed.events \in Seq(Event) /\ feed.total \in Int /\ Len(feed.events) \in Int
    BY DEF FeedInv, FeedOrder, Feeds
  <2> QED BY <2>1 DEF FeedInv, FeedOrder, InOrder, FeedIsTheStream
<1>2. FeedInv /\ detail \in Details => LiveFeedTypeOK
  BY DEF FeedInv, FeedOrder, Sockets, Feeds, Details, LiveFeedTypeOK
<1>3. Inv /\ [LiveFeedNext]_liveFeedVars => Inv'
  BY FeedNext, DetailNext DEF FeedInv, FeedOrder
<1>4. LiveFeedInit => Inv
  BY FeedInit, DetailInit
<1>5. Inv => LiveFeedTypeOK /\ FeedIsTheStream
  BY <1>1, <1>2
<1> HIDE DEF Inv
<1> QED
  BY <1>3, <1>4, <1>5, PTL DEF LiveFeedSpec

-----------------------------------------------------------------------------
(* The inventory (Inventory).                                                *)

Figures == [total : Nat, new24h : Nat, highRisk : Nat]
TypeFilters == {"all", "server", "workstation", "iot"}
AssetPage == [rows : SUBSET AssetRows, stats : Figures, counted : Figures, loading : BOOLEAN,
           selected : SUBSET AssetRows, filter : TypeFilters, searchTerm : {"", "text"}]
SensorPage == [rows : SUBSET (Agents \union MockSensors), loading : BOOLEAN,
            selected : SUBSET (Agents \union MockSensors)]

\* The counters over rows, when the service has counted so.
CountersOver(rows, stats, counted) ==
  /\ stats.total = Or(counted.total, Cardinality(rows))
  /\ stats.highRisk = Or(counted.highRisk, HighRisk(rows))

\* While it loads, a table has no row and shows no detail.
InventoryInv ==
  /\ assets \in AssetPage /\ sensors \in SensorPage
  /\ IsFiniteSet(assets.rows)
  /\ assets.selected \subseteq assets.rows /\ sensors.selected \subseteq sensors.rows
  /\ assets.loading => assets.selected = {} /\ assets.counted = NoStats
  /\ ~assets.loading => CountersOver(assets.rows, assets.stats, assets.counted)

LEMMA RiskScore == ASSUME NEW asset \in Scanned PROVE calculateRiskScore(asset) \in 0 .. 100
<1> DEFINE weight == [high |-> 40, medium |-> 25, critical |-> 60]
           w == IF asset.criticality \in DOMAIN weight THEN weight[asset.criticality] ELSE 0
           p == IF asset.open_ports > 10 THEN 30
                ELSE IF asset.open_ports > 5 THEN 15 ELSE IF asset.open_ports > 0 THEN 5 ELSE 0
<1>1. w \in Nat /\ p \in Nat
  <2>1. \A c \in DOMAIN weight : weight[c] \in Nat
    OBVIOUS
  <2> QED BY <2>1
<1> HIDE DEF w, p
<1>2. \E x \in {100, w + p} : \A y \in {100, w + p} : x <= y
  BY <1>1
<1>3. Min({100, w + p}) \in {100, w + p} /\ Min({100, w + p}) <= 100
  BY <1>2 DEF Min
<1>4. calculateRiskScore(asset) = Min({100, w + p})
  BY DEF calculateRiskScore, w, p
<1> QED
  BY <1>1, <1>3, <1>4

LEMMA TransformedRow == ASSUME NEW asset \in Scanned PROVE Transformed(asset) \in AssetRows
<1>1. mapAssetType(asset.asset_type) \in AssetTypes
  BY DEF mapAssetType, AssetTypes
<1>2. asset.id \in {a.id : a \in Scanned \union MockAssets}
  OBVIOUS
<1> QED
  BY <1>1, <1>2, RiskScore DEF Transformed, AssetRows

LEMMA TransformedFinite ==
  ASSUME NEW raw \in SUBSET Scanned PROVE IsFiniteSet({Transformed(a) : a \in raw})
<1> DEFINE T == {Transformed(a) : a \in raw}
           f == [a \in raw |-> Transformed(a)]
<1>1. IsFiniteSet(raw)
  BY InventoryAssumption, FS_Subset
<1>2. f \in Surjection(raw, T)
  BY DEF Surjection
<1> QED
  BY <1>1, <1>2, FS_Surjection

LEMMA Mocked == MockAssets \in SUBSET AssetRows /\ IsFiniteSet(MockAssets)
<1> DEFINE a1 == [id |-> "asset-01", type |-> "workstation", riskScore |-> 15]
           a2 == [id |-> "asset-02", type |-> "server", riskScore |-> 5]
           a3 == [id |-> "asset-03", type |-> "laptop", riskScore |-> 45]
           a4 == [id |-> "asset-04", type |-> "iot", riskScore |-> 85]
           a5 == [id |-> "asset-05", type |-> "network", riskScore |-> 0]
<1>1. MockAssets = {a1, a2, a3, a4, a5}
  BY DEF MockAssets
<1>2. \A a \in MockAssets : a \in AssetRows
  <2>1. ASSUME NEW a \in MockAssets
        PROVE  a = [id |-> a.id, type |-> a.type, riskScore |-> a.riskScore]
                 /\ a.type \in AssetTypes /\ a.riskScore \in 0 .. 100
    BY <1>1 DEF AssetTypes
  <2>2. \A a \in MockAssets : a.id \in {b.id : b \in Scanned \union MockAssets}
    OBVIOUS
  <2> QED BY <2>1, <2>2 DEF AssetRows
<1> HIDE DEF a1, a2, a3, a4, a5
<1>3. IsFiniteSet({a1, a2, a3, a4, a5})
  <2>1. IsFiniteSet({a1})
    BY FS_Singleton
  <2>2. IsFiniteSet({a1} \union {a2})
    BY <2>1, FS_AddElement
  <2>3. IsFiniteSet({a1} \union {a2} \union {a3})
    BY <2>2, FS_AddElement
  <2>4. IsFiniteSet({a1} \union {a2} \union {a3} \union {a4})
    BY <2>3, FS_AddElement
  <2>5. IsFiniteSet({a1} \union {a2} \union {a3} \union {a4} \union {a5})
    BY <2>4, FS_AddElement
  <2>6. {a1, a2, a3, a4, a5} = {a1} \union {a2} \union {a3} \union {a4} \union {a5}
    OBVIOUS
  <2> QED BY <2>5, <2>6
<1> QED
  BY <1>1, <1>2, <1>3

LEMMA CountsAreNat ==
  ASSUME NEW rows, IsFiniteSet(rows)
  PROVE  Cardinality(rows) \in Nat /\ HighRisk(rows) \in Nat
         /\ (HighRisk(rows) = 0 <=> \A a \in rows : ~(a.riskScore >= 50))
<1> DEFINE high == {a \in rows : a.riskScore >= 50}
<1>1. IsFiniteSet(high)
  BY FS_Subset
<1>2. Cardinality(rows) \in Nat /\ Cardinality(high) \in Nat
  BY <1>1, FS_CardinalityType
<1>3. Cardinality(high) = 0 <=> high = {}
  BY <1>1, FS_EmptySet
<1> QED
  BY <1>2, <1>3 DEF HighRisk

LEMMA InventoryStarts == InventoryInit => InventoryInv
<1> SUFFICES ASSUME InventoryInit PROVE InventoryInv
  OBVIOUS
<1>1. NoStats \in Figures
  BY DEF NoStats, Figures
<1>2. assets = [rows |-> {}, stats |-> NoStats, counted |-> NoStats, loading |-> TRUE,
                selected |-> {}, filter |-> "all", searchTerm |-> ""]
  BY DEF InventoryInit, AssetsInit
<1>3. assets \in AssetPage /\ assets.rows = {} /\ assets.selected = {} /\ assets.loading
        /\ assets.counted = NoStats
  BY <1>1, <1>2 DEF AssetPage, TypeFilters
<1>4. sensors \in SensorPage /\ sensors.selected = {}
  <2>1. sensors = [rows |-> {}, loading |-> TRUE, selected |-> {}]
    BY DEF InventoryInit, SensorsInit
  <2> QED BY <2>1 DEF SensorPage
<1> QED
  BY <1>3, <1>4, FS_EmptySet DEF InventoryInv

LEMMA AssetsStep == ASSUME InventoryInv, AssetsArrive, UNCHANGED sensors PROVE InventoryInv'
<1>1. PICK raw \in SUBSET Scanned,
           counted \in {NoStats} \union [total : Counts, new24h : Counts, highRisk : Counts] :
        assets' = [assets EXCEPT !.loading = FALSE, !.rows = {Transformed(a) : a \in raw},
          !.counted = counted,
          !.stats = [total |-> Or(counted.total, Cardinality({Transformed(a) : a \in raw})),
                     new24h |-> counted.new24h,
                     highRisk |-> Or(counted.highRisk, HighRisk({Transformed(a) : a \in raw}))]]
  BY DEF AssetsArrive
<1> DEFINE rows == {Transformed(a) : a \in raw}
           stats == [total |-> Or(counted.total, Cardinality(rows)), new24h |-> counted.new24h,
                     highRisk |-> Or(counted.highRisk, HighRisk(rows))]
<1>2. rows \in SUBSET AssetRows /\ IsFiniteSet(rows)
  BY TransformedRow, TransformedFinite
<1>3. assets' = [assets EXCEPT !.loading = FALSE, !.rows = rows, !.counted = counted,
                   !.stats = stats]
  BY <1>1
<1> HIDE DEF rows
<1>4. counted \in Figures
  <2>1. CASE counted \in {NoStats}
    BY <2>1 DEF NoStats, Figures
  <2>2. CASE counted \in [total : Counts, new24h : Counts, highRisk : Counts]
    <3>1. Counts \subseteq Nat
      BY InventoryAssumption
    <3> QED BY <2>2, <3>1 DEF Figures
  <2> QED BY <2>1, <2>2
<1>5. stats \in Figures /\ CountersOver(rows, stats, counted)
  <2>1. Cardinality(rows) \in Nat /\ HighRisk(rows) \in Nat
    BY <1>2, CountsAreNat
  <2>2. counted.total \in Nat /\ counted.new24h \in Nat /\ counted.highRisk \in Nat
    BY <1>4 DEF Figures
  <2> QED BY <2>1, <2>2 DEF Figures, CountersOver, Or
<1> HIDE DEF stats
<1>6. assets \in AssetPage /\ assets.loading /\ assets.selected = {}
  BY DEF InventoryInv, AssetsArrive
<1>7. /\ assets' \in AssetPage /\ assets'.rows = rows /\ assets'.stats = stats
      /\ assets'.counted = counted /\ ~assets'.loading /\ assets'.selected = {}
  BY <1>2, <1>3, <1>4, <1>5, <1>6 DEF AssetPage
<1> QED
  BY <1>2, <1>5, <1>7 DEF InventoryInv

LEMMA AssetsFailStep == ASSUME InventoryInv, AssetsFail, UNCHANGED sensors PROVE InventoryInv'
<1> DEFINE stats == [total |-> Cardinality(MockAssets), new24h |-> 3,
                     highRisk |-> HighRisk(MockAssets)]
<1>1. assets \in AssetPage /\ assets.loading /\ assets.selected = {} /\ assets.counted = NoStats
  BY DEF InventoryInv, AssetsFail
<1>2. stats \in Figures /\ CountersOver(MockAssets, stats, NoStats)
  BY Mocked, CountsAreNat DEF Figures, CountersOver, Or, NoStats
<1>3. assets' = [assets EXCEPT !.loading = FALSE, !.rows = MockAssets, !.stats = stats]
  BY DEF AssetsFail
<1> HIDE DEF stats
<1>4. /\ assets' \in AssetPage /\ assets'.rows = MockAssets /\ assets'.stats = stats
      /\ assets'.counted = NoStats /\ ~assets'.loading /\ assets'.selected = {}
  BY <1>1, <1>2, <1>3, Mocked DEF AssetPage
<1> QED
  BY <1>2, <1>4, Mocked DEF InventoryInv

\* The filters and the detail, which change no row.
LEMMA TableStep ==
  ASSUME InventoryInv, UNCHANGED sensors, NEW selected \in SUBSET assets.rows,
         NEW filter \in TypeFilters, NEW searchTerm \in {"", "text"},
         assets.loading => selected = {},
         assets' = [assets EXCEPT !.selected = selected, !.filter = filter,
                                  !.searchTerm = searchTerm]
  PROVE  InventoryInv'
<1>1. assets \in AssetPage
  BY DEF InventoryInv
<1>2. /\ assets' \in AssetPage /\ assets'.rows = assets.rows /\ assets'.stats = assets.stats
      /\ assets'.counted = assets.counted /\ assets'.loading = assets.loading
      /\ assets'.selected = selected
  BY <1>1 DEF AssetPage
<1> QED
  BY <1>2 DEF InventoryInv

LEMMA SensorPageStep ==
  ASSUME InventoryInv, UNCHANGED assets, SensorsNext PROVE InventoryInv'
<1> USE DEF SensorsShown
<1>1. sensors \in SensorPage
  BY DEF InventoryInv
<1>2. ASSUME NEW rows \in SUBSET (Agents \union MockSensors), NEW selected \in SUBSET rows,
             SensorsShown(rows, selected)
      PROVE  InventoryInv'
  BY <1>2 DEF InventoryInv, SensorPage
<1>3. CASE AgentsListed
  BY <1>2, <1>3 DEF AgentsListed
<1>4. CASE SensorsListed
  BY <1>2, <1>4 DEF SensorsListed
<1>5. CASE SensorsFail
  <2>1. {[id |-> "sensor-01", status |-> "online"]} \in SUBSET MockSensors
    BY DEF MockSensors
  <2> QED BY <1>2, <1>5, <2>1 DEF SensorsFail
<1>6. ASSUME NEW s \in sensors.rows, SelectSensor(s) PROVE InventoryInv'
  <2>1. sensors' = [sensors EXCEPT !.selected = {s}]
    BY <1>6 DEF SelectSensor
  <2>2. sensors' \in SensorPage /\ sensors'.rows = sensors.rows /\ sensors'.selected = {s}
    BY <1>1, <1>6, <2>1 DEF SensorPage
  <2> QED BY <1>6, <2>2 DEF InventoryInv
<1> QED
  BY <1>3, <1>4, <1>5, <1>6 DEF SensorsNext

LEMMA AssetPageStep == ASSUME InventoryInv, UNCHANGED sensors, AssetsNext PROVE InventoryInv'
<1>1. /\ assets \in AssetPage /\ assets.filter \in TypeFilters /\ assets.searchTerm \in {"", "text"}
      /\ assets.selected \in SUBSET assets.rows
      /\ assets.loading => assets.selected = {}
  BY DEF InventoryInv, AssetPage
<1>2. CASE AssetsArrive
  BY <1>2, AssetsStep
<1>3. CASE AssetsFail
  BY <1>3, AssetsFailStep
<1>4. ASSUME NEW selected \in SUBSET assets.rows, NEW filter \in TypeFilters,
             NEW searchTerm \in {"", "text"}, assets.loading => selected = {},
             assets' = [assets EXCEPT !.selected = selected, !.filter = filter,
                                      !.searchTerm = searchTerm]
      PROVE  InventoryInv'
  BY <1>4, TableStep
<1>5. CASE CloseAsset
  <2>1. assets' = [assets EXCEPT !.selected = {}, !.filter = assets.filter,
                                 !.searchTerm = assets.searchTerm]
    BY <1>1, <1>5 DEF CloseAsset, AssetPage
  <2> QED BY <1>1, <1>4, <2>1
<1>6. ASSUME NEW term \in {"", "text"}, SearchAssets(term) PROVE InventoryInv'
  <2>1. assets' = [assets EXCEPT !.selected = assets.selected, !.filter = assets.filter,
                                 !.searchTerm = term]
    BY <1>1, <1>6 DEF SearchAssets, AssetPage
  <2> QED BY <1>1, <1>4, <1>6, <2>1
<1>7. ASSUME NEW filter \in {"all", "server", "workstation", "iot"}, FilterAssets(filter)
      PROVE  InventoryInv'
  <2>1. assets' = [assets EXCEPT !.selected = assets.selected, !.filter = filter,
                                 !.searchTerm = assets.searchTerm]
    BY <1>1, <1>7 DEF FilterAssets, AssetPage
  <2>2. filter \in TypeFilters
    BY <1>7 DEF TypeFilters
  <2> QED BY <1>1, <1>4, <2>1, <2>2
<1>8. ASSUME NEW a \in assets.rows, SelectAsset(a) PROVE InventoryInv'
  <2>1. assets' = [assets EXCEPT !.selected = {a}, !.filter = assets.filter,
                                 !.searchTerm = assets.searchTerm]
    BY <1>1, <1>8 DEF SelectAsset, AssetPage
  <2>2. ~assets.loading /\ {a} \in SUBSET assets.rows
    BY <1>8 DEF SelectAsset
  <2> QED BY <1>1, <1>4, <2>1, <2>2
<1> QED
  BY <1>2, <1>3, <1>5, <1>6, <1>7, <1>8 DEF AssetsNext

LEMMA InventoryStep == InventoryInv /\ [InventoryNext]_inventoryVars => InventoryInv'
<1> SUFFICES ASSUME InventoryInv, [InventoryNext]_inventoryVars PROVE InventoryInv'
  OBVIOUS
<1>1. CASE UNCHANGED inventoryVars
  BY <1>1 DEF inventoryVars, InventoryInv
<1> QED
  BY <1>1, AssetPageStep, SensorPageStep DEF InventoryNext

LEMMA CountersHold == InventoryInv => InventoryTypeOK /\ CountersAreOfTheRows
<1> SUFFICES ASSUME InventoryInv PROVE InventoryTypeOK /\ CountersAreOfTheRows
  OBVIOUS
<1>1. /\ assets.rows \subseteq AssetRows /\ assets.loading \in BOOLEAN
      /\ assets.stats \in Figures /\ assets.counted \in Figures /\ IsFiniteSet(assets.rows)
  BY DEF InventoryInv, AssetPage
<1>2. InventoryTypeOK
  BY <1>1 DEF InventoryInv, InventoryTypeOK, Figures, SensorPage
<1>3. \A a \in assets.rows : RiskBadge(a.riskScore) \in {"High", "Critical"} <=> a.riskScore >= 50
  <2>1. ASSUME NEW a \in assets.rows
        PROVE  RiskBadge(a.riskScore) \in {"High", "Critical"} <=> a.riskScore >= 50
    <3>1. a.riskScore \in 0 .. 100
      BY <1>1 DEF AssetRows
    <3> QED BY <3>1 DEF RiskBadge
  <2> QED BY <2>1
<1>4. {a \in assets.rows : RiskBadge(a.riskScore) \in {"High", "Critical"}}
        = {a \in assets.rows : a.riskScore >= 50}
  BY <1>3
<1>5. ASSUME ~assets.loading
      PROVE  /\ assets.stats.total \in {Cardinality(assets.rows), assets.counted.total}
             /\ assets.stats.highRisk \in {HighRisk(assets.rows), assets.counted.highRisk}
             /\ assets.counted.highRisk = 0 => assets.stats.highRisk = HighRisk(assets.rows)
  BY <1>5 DEF InventoryInv, CountersOver, Or
<1>6. /\ HighRisk(assets.rows) \in Nat
      /\ HighRisk(assets.rows) > 0
           <=> \E a \in assets.rows : RiskBadge(a.riskScore) \in {"High", "Critical"}
  BY <1>1, <1>3, CountsAreNat
<1>7. HighRisk(assets.rows)
        = Cardinality({a \in assets.rows : RiskBadge(a.riskScore) \in {"High", "Critical"}})
  BY <1>4 DEF HighRisk
<1> QED
  BY <1>2, <1>5, <1>6, <1>7 DEF InventoryInv, CountersAreOfTheRows

\* The counters over the assets of ui/src/components/AssetDiscovery.tsx are those
\* of its rows, whatever the asset service knows and counts.
THEOREM CountersRight == InventorySpec => [](InventoryTypeOK /\ CountersAreOfTheRows)
BY InventoryStarts, InventoryStep, CountersHold, PTL DEF InventorySpec

-----------------------------------------------------------------------------
(* The shell (Shell).                                                        *)

ToastsType == [now : Nat, added : Seq([id : Nat, at : Nat]), shown : SUBSET Nat,
           armed : SUBSET Nat, ended : SUBSET Nat]

\* The id of a toast is its millisecond, so that what ends by one id has its time.
ToastInv ==
  /\ toasts \in ToastsType
  /\ toasts.shown \subseteq toasts.armed /\ toasts.armed \subseteq DOMAIN toasts.added
  /\ \A n \in DOMAIN toasts.added : toasts.added[n].id = toasts.added[n].at
  /\ \A n \in toasts.armed : n \in toasts.shown \/ toasts.added[n].at \in toasts.ended

LEMMA ToastInit == ShellInit => ToastInv
BY DEF ShellInit, ToastInv, ToastsType

LEMMA AddStep == ASSUME ToastInv, AddToast PROVE ToastInv'
<1> DEFINE toast == [id |-> toasts.now, at |-> toasts.now]
           n == Len(toasts.added) + 1
           added == Append(toasts.added, toast)
<1>1. toasts \in ToastsType /\ toasts.added \in Seq([id : Nat, at : Nat])
  BY DEF ToastInv, ToastsType
<1>2. toasts' = [toasts EXCEPT !.added = added,
                   !.shown = toasts.shown \union {n}, !.armed = toasts.armed \union {n}]
  BY DEF AddToast
<1>3. toast \in [id : Nat, at : Nat] /\ toast.id = toast.at
  BY <1>1 DEF ToastsType
<1>4. n \in Nat
  BY <1>1
<1> HIDE DEF toast
<1>5. /\ added \in Seq([id : Nat, at : Nat])
      /\ DOMAIN added = DOMAIN toasts.added \union {n}
      /\ n \notin DOMAIN toasts.added /\ added[n] = toast
      /\ \A m \in DOMAIN toasts.added : added[m] = toasts.added[m]
  BY <1>1, <1>3
<1> HIDE DEF n, added
<1>6. /\ toasts' \in ToastsType /\ toasts'.added = added
      /\ toasts'.shown = toasts.shown \union {n} /\ toasts'.armed = toasts.armed \union {n}
      /\ toasts'.ended = toasts.ended
  BY <1>1, <1>2, <1>4, <1>5 DEF ToastsType
<1>7. toasts'.shown \subseteq toasts'.armed /\ toasts'.armed \subseteq DOMAIN toasts'.added
  BY <1>5, <1>6 DEF ToastInv
<1>8. \A m \in DOMAIN toasts'.added : toasts'.added[m].id = toasts'.added[m].at
  BY <1>3, <1>5, <1>6 DEF ToastInv
<1>9. ASSUME NEW m \in toasts'.armed
      PROVE  m \in toasts'.shown \/ toasts'.added[m].at \in toasts'.ended
  BY <1>5, <1>6 DEF ToastInv
<1> QED
  BY <1>6, <1>7, <1>8, <1>9 DEF ToastInv

\* What leaves with toast n was added in its millisecond, which has then ended.
LEMMA EndsTogether ==
  ASSUME ToastInv, NEW n \in DOMAIN toasts.added, NEW m \in toasts.armed,
         m \in toasts.shown, m \notin Remaining(n)
  PROVE  toasts.added[m].at = toasts.added[n].at
BY DEF Remaining, ToastInv

\* A toast is taken away, by its timer or by a click; its timer goes with it
\* or stays armed.
LEMMA EndStep ==
  ASSUME ToastInv, NEW n \in DOMAIN toasts.added, NEW armed \in {toasts.armed, toasts.armed \ {n}},
         toasts' = [toasts EXCEPT !.shown = Remaining(n), !.armed = armed,
                                  !.ended = toasts.ended \union {toasts.added[n].at}]
  PROVE  ToastInv'
<1>1. toasts \in ToastsType /\ toasts.added \in Seq([id : Nat, at : Nat])
  BY DEF ToastInv, ToastsType
<1>2. toasts.added[n].at \in Nat
  <2>1. toasts.added[n] \in [id : Nat, at : Nat]
    <3>1. n \in 1 .. Len(toasts.added)
      BY <1>1
    <3> QED BY <1>1, <3>1, ElementOfSeq
  <2> QED BY <2>1
<1>3. Remaining(n) \subseteq toasts.shown /\ n \notin Remaining(n)
  BY DEF Remaining
<1>4. /\ toasts' \in ToastsType /\ toasts'.added = toasts.added
      /\ toasts'.shown = Remaining(n) /\ toasts'.armed = armed
      /\ toasts'.ended = toasts.ended \union {toasts.added[n].at}
  BY <1>1, <1>2, <1>3 DEF ToastsType
<1>5. toasts'.shown \subseteq toasts'.armed /\ toasts'.armed \subseteq DOMAIN toasts'.added
  BY <1>3, <1>4 DEF ToastInv
<1>6. ASSUME NEW m \in toasts'.armed
      PROVE  m \in toasts'.shown \/ toasts'.added[m].at \in toasts'.ended
  <2>1. m \in toasts.armed
    BY <1>4
  <2>2. CASE m \in toasts.shown
    BY <1>4, <2>1, <2>2, EndsTogether
  <2>3. CASE m \notin toasts.shown
    BY <1>4, <2>1, <2>3 DEF ToastInv
  <2> QED BY <2>2, <2>3
<1> QED
  BY <1>4, <1>5, <1>6 DEF ToastInv

LEMMA TimerStep == ASSUME ToastInv, NEW n \in DOMAIN toasts.added, ToastTimer(n) PROVE ToastInv'
BY EndStep DEF ToastTimer

LEMMA RemoveStep == ASSUME ToastInv, NEW n \in DOMAIN toasts.added, RemoveToast(n) PROVE ToastInv'
<1>1. toasts' = [toasts EXCEPT !.shown = Remaining(n), !.armed = toasts.armed,
                               !.ended = toasts.ended \union {toasts.added[n].at}]
  BY DEF RemoveToast, ToastInv, ToastsType
<1> QED
  BY <1>1, EndStep

LEMMA TimeStep == ASSUME ToastInv, TimePasses PROVE ToastInv'
<1>1. toasts \in ToastsType /\ toasts' = [toasts EXCEPT !.now = toasts.now + 1]
  BY DEF TimePasses, ToastInv
<1>2. toasts.now + 1 \in Nat
  BY <1>1 DEF ToastsType
<1>3. /\ toasts' \in ToastsType /\ toasts'.added = toasts.added
      /\ toasts'.shown = toasts.shown /\ toasts'.armed = toasts.armed
      /\ toasts'.ended = toasts.ended
  BY <1>1, <1>2 DEF ToastsType
<1> QED
  BY <1>3 DEF ToastInv

\* A page loaded anew shows no toast, and has no timer.
LEMMA ReloadStep == ASSUME ToastInv, Reload PROVE ToastInv'
BY DEF Reload, ToastInv, ToastsType

LEMMA ToastNext == ToastInv /\ [ShellNext]_shellVars => ToastInv'
<1> SUFFICES ASSUME ToastInv, [ShellNext]_shellVars PROVE ToastInv'
  OBVIOUS
<1>1. CASE UNCHANGED toasts
  BY <1>1 DEF ToastInv
<1>2. CASE AddToast
  BY <1>2, AddStep
<1>3. CASE TimePasses \/ Reload
  BY <1>3, TimeStep, ReloadStep
<1>4. CASE \E n \in DOMAIN toasts.added : ToastTimer(n) \/ RemoveToast(n)
  BY <1>4, TimerStep, RemoveStep
<1>5. CASE PageReports \/ AddUserOrKey \/ SaveTimer
  BY <1>5, <1>2 DEF PageReports, AddUserOrKey, SaveTimer
<1>6. CASE \/ \E u \in Users : HandleDeleteUser(u)
           \/ \E k \in ActiveKeys : HandleRevokeKey(k)
  BY <1>6, <1>2 DEF HandleDeleteUser, HandleRevokeKey
<1>7. CASE StatsArrive \/ OpenPalette \/ ClosePalette \/ PressEnter \/ EditConfig \/ HandleSave
  BY <1>7, <1>1 DEF StatsArrive, OpenPalette, ClosePalette, PressEnter, RunCommand,
                    EditConfig, HandleSave
<1>8. CASE \/ \E tab \in SidebarTabs : ClickSidebar(tab)
           \/ \E tab \in TileTabs : ClickTile(tab)
           \/ \E view \in {"topology", "map"} : SetNetworkView(view)
           \/ \E tab \in PanelTabs : SetPanelTab(tab)
  BY <1>8, <1>1 DEF ClickSidebar, ClickTile, SetNetworkView, SetPanelTab
<1>9. CASE \/ \E query \in DOMAIN CommandsFor : SetQuery(query)
           \/ \E step \in {"up", "down"} : Arrow(step)
           \/ \E i \in Indices : HoverCommand(i) \/ ClickCommand(i)
  BY <1>9, <1>1 DEF SetQuery, Arrow, HoverCommand, ClickCommand, RunCommand
<1> QED
  BY <1>1, <1>2, <1>3, <1>4, <1>5, <1>6, <1>7, <1>8, <1>9 DEF ShellNext, shellVars

\* The tabs, the palette and the settings panel.
Tabs == SidebarTabs \union TileTabs \union {"dashboard", "config"}
          \union {CommandsFor[NoQuery][i] : i \in DOMAIN CommandsFor[NoQuery]}
Dashboards == [activeTab : Tabs, address : {"dashboard", "config"},
               stats : {"zeros", "service"}, fetching : BOOLEAN,
               networkView : {"topology", "map"}]
Palettes == [isOpen : BOOLEAN, query : DOMAIN CommandsFor,
             selectedIndex : Indices \union {NaN}]
SettingsPanels == [activeTab : PanelTabs, loading : BOOLEAN, users : SUBSET Users,
                   keys : SUBSET ActiveKeys, edited : BOOLEAN, orphans : 0 .. MaxToasts]

\* A save that a tab change would orphan has its place among the timers.
DeskInv ==
  /\ dashboard \in Dashboards /\ palette \in Palettes /\ settings \in SettingsPanels
  /\ settings.loading => settings.orphans < MaxToasts

LEMMA Commands ==
  /\ NoQuery \in DOMAIN CommandsFor /\ MaxToasts \in Nat
  /\ Len(CommandsFor[NoQuery]) \in Nat /\ Len(CommandsFor[NoQuery]) > 0
  /\ \A query \in DOMAIN CommandsFor :
       /\ Len(CommandsFor[query]) \in Nat
       /\ Len(CommandsFor[query]) <= Len(CommandsFor[NoQuery])
       /\ DOMAIN CommandsFor[query] = 1 .. Len(CommandsFor[query])
       /\ \A i \in DOMAIN CommandsFor[query] : CommandsFor[query][i] \in Tabs
<1> DEFINE S == {CommandsFor[""][i] : i \in DOMAIN CommandsFor[""]}
<1>1. \A query \in DOMAIN CommandsFor :
        CommandsFor[query] \in Seq(S) /\ Len(CommandsFor[query]) <= Len(CommandsFor[""])
  BY ShellAssumption
<1>2. "" \in DOMAIN CommandsFor /\ Len(CommandsFor[""]) > 0 /\ MaxToasts \in Nat
  BY ShellAssumption
<1>3. S \subseteq Tabs
  BY DEF Tabs, NoQuery
<1> HIDE DEF S
<1>4. \A query \in DOMAIN CommandsFor :
       /\ Len(CommandsFor[query]) \in Nat
       /\ DOMAIN CommandsFor[query] = 1 .. Len(CommandsFor[query])
  BY <1>1, LenProperties
<1>5. \A query \in DOMAIN CommandsFor :
        \A i \in DOMAIN CommandsFor[query] : CommandsFor[query][i] \in Tabs
  BY <1>1, <1>3, <1>4, ElementOfSeq
<1> QED BY <1>1, <1>2, <1>4, <1>5 DEF NoQuery

LEMMA PaletteStarts == ClosedPalette \in Palettes
<1>1. 0 \in Indices
  BY Commands DEF Indices
<1> QED BY <1>1, Commands DEF ClosedPalette, Palettes

LEMMA PanelStarts ==
  ASSUME NEW n \in 0 .. MaxToasts
  PROVE  NewPanel(n) \in SettingsPanels /\ NewPanel(n).loading = FALSE
BY DEF NewPanel, SettingsPanels, PanelTabs

LEMMA DeskInit == ShellInit => DeskInv
<1> SUFFICES ASSUME ShellInit PROVE DeskInv
  OBVIOUS
<1>1. dashboard \in Dashboards
  BY DEF ShellInit, Dashboards, Tabs
<1>2. 0 \in 0 .. MaxToasts
  BY Commands
<1>3. palette = ClosedPalette /\ settings = NewPanel(0)
  BY DEF ShellInit
<1> QED BY <1>1, <1>2, <1>3, PaletteStarts, PanelStarts DEF DeskInv

\* The tab changes: a save that runs becomes a timer of a panel that is gone.
LEMMA TabStep ==
  ASSUME DeskInv, NEW tab \in Tabs, HandleTabChange(tab)
  PROVE  dashboard' \in Dashboards /\ settings' \in SettingsPanels
         /\ (settings'.loading => settings'.orphans < MaxToasts)
<1>1. dashboard' \in Dashboards
  BY DEF DeskInv, HandleTabChange, Dashboards
<1>2. settings.orphans \in 0 .. MaxToasts /\ MaxToasts \in Nat
  BY Commands DEF DeskInv, SettingsPanels
<1>3. CASE tab = dashboard.activeTab
  BY <1>1, <1>3 DEF DeskInv, HandleTabChange
<1>4. CASE tab # dashboard.activeTab
  <2>1. PICK n : n = IF settings.loading THEN settings.orphans + 1 ELSE settings.orphans
    OBVIOUS
  <2>2. settings' = NewPanel(n)
    BY <1>4, <2>1 DEF HandleTabChange
  <2>3. n \in 0 .. MaxToasts
    BY <1>2, <2>1 DEF DeskInv
  <2> QED BY <1>1, <2>2, <2>3, PanelStarts
<1> QED BY <1>3, <1>4

LEMMA RunStep ==
  ASSUME DeskInv, NEW i, RunCommand(i) PROVE DeskInv'
<1>1. FilteredCommands[i + 1] \in Tabs
  BY Commands DEF RunCommand, FilteredCommands, DeskInv, Palettes
<1>2. HandleTabChange(FilteredCommands[i + 1]) /\ palette' = ClosedPalette
  BY DEF RunCommand
<1> QED BY <1>1, <1>2, TabStep, PaletteStarts DEF DeskInv

\* An arrow goes round the commands there are, or has no index to go to.
LEMMA ArrowStep ==
  ASSUME DeskInv, NEW step \in {"up", "down"}, Arrow(step) PROVE DeskInv'
<1> DEFINE n == Len(FilteredCommands)
           i == palette.selectedIndex
           j == IF n = 0 \/ i = NaN THEN NaN ELSE IF step = "down" THEN (i + 1) % n
                ELSE IF i = 0 THEN n - 1 ELSE (i - 1) % n
<1>1. palette' = [palette EXCEPT !.selectedIndex = j] /\ UNCHANGED <<dashboard, settings>>
  BY DEF Arrow
<1>2. /\ palette \in Palettes /\ n \in Nat /\ n <= Len(CommandsFor[NoQuery])
      /\ Len(CommandsFor[NoQuery]) \in Nat
  BY Commands DEF DeskInv, Palettes, FilteredCommands
<1>3. i \in Int /\ (i # NaN => i \in Nat)
  BY <1>2 DEF Palettes, Indices, NaN
<1> HIDE DEF n, i
<1>4. ASSUME n # 0 PROVE \A k \in Nat : k % n \in 0 .. Len(CommandsFor[NoQuery]) - 1
  <2> TAKE k \in Nat
  <2>1. k % n \in 0 .. n - 1
    BY <1>2, <1>4
  <2> QED BY <1>2, <2>1
<1>5. j \in Indices \union {NaN}
  <2>1. CASE n = 0 \/ i = NaN
    BY <2>1
  <2>2. CASE n # 0 /\ i # NaN
    <3>1. i \in Nat /\ i + 1 \in Nat /\ (i # 0 => i - 1 \in Nat)
      BY <1>3, <2>2
    <3>2. n - 1 \in 0 .. Len(CommandsFor[NoQuery]) - 1
      BY <1>2, <2>2
    <3> QED BY <1>4, <2>2, <3>1, <3>2 DEF Indices
  <2> QED BY <2>1, <2>2
<1> HIDE DEF j
<1> QED BY <1>1, <1>2, <1>5 DEF DeskInv, Palettes

LEMMA PaletteStep ==
  ASSUME DeskInv,
         \/ OpenPalette \/ ClosePalette
         \/ \E query \in DOMAIN CommandsFor : SetQuery(query)
         \/ \E i \in Indices : HoverCommand(i)
  PROVE  DeskInv'
<1>1. palette' \in Palettes
  BY PaletteStarts DEF OpenPalette, ClosePalette, SetQuery, HoverCommand, DeskInv, Palettes
<1>2. UNCHANGED <<dashboard, settings>>
  BY DEF OpenPalette, ClosePalette, SetQuery, HoverCommand
<1> QED BY <1>1, <1>2 DEF DeskInv

LEMMA DashboardStep ==
  ASSUME DeskInv,
         \/ StatsArrive \/ Reload
         \/ \E view \in {"topology", "map"} : SetNetworkView(view)
  PROVE  DeskInv'
<1>1. dashboard' \in Dashboards
  BY DEF StatsArrive, Reload, SetNetworkView, DeskInv, Dashboards, Tabs
<1>2. 0 \in 0 .. MaxToasts
  BY Commands
<1> QED BY <1>1, <1>2, PaletteStarts, PanelStarts DEF StatsArrive, Reload, SetNetworkView, DeskInv

\* What the settings panel does; one save at a time.
LEMMA SettingsStep ==
  ASSUME DeskInv, toasts \in ToastsType,
         \/ \E tab \in PanelTabs : SetPanelTab(tab)
         \/ EditConfig \/ HandleSave \/ SaveTimer
         \/ \E u \in Users : HandleDeleteUser(u)
         \/ \E k \in ActiveKeys : HandleRevokeKey(k)
  PROVE  DeskInv'
<1>1. /\ settings \in SettingsPanels /\ settings.orphans \in 0 .. MaxToasts /\ MaxToasts \in Nat
      /\ settings.loading \in BOOLEAN
  BY Commands DEF DeskInv, SettingsPanels
<1>2. Len(toasts.added) \in Nat
  BY DEF ToastsType
<1>3. UNCHANGED <<dashboard, palette>>
  BY DEF SetPanelTab, EditConfig, HandleSave, SaveTimer, HandleDeleteUser, HandleRevokeKey
<1>4. CASE \/ \E tab \in PanelTabs : SetPanelTab(tab)
           \/ EditConfig
           \/ \E u \in Users : HandleDeleteUser(u)
           \/ \E k \in ActiveKeys : HandleRevokeKey(k)
  <2>1. /\ settings' \in SettingsPanels /\ settings'.loading = settings.loading
        /\ settings'.orphans = settings.orphans
    BY <1>1, <1>4 DEF SetPanelTab, EditConfig, HandleDeleteUser, HandleRevokeKey, SettingsPanels
  <2> QED BY <1>3, <2>1 DEF DeskInv
<1>5. CASE HandleSave
  <2>1. settings' \in SettingsPanels /\ settings'.orphans = settings.orphans
    BY <1>1, <1>5 DEF HandleSave, SettingsPanels
  <2>2. Len(toasts.added) + settings.orphans < MaxToasts
    BY <1>5 DEF HandleSave
  <2>3. settings.orphans < MaxToasts
    BY <1>1, <1>2, <2>2
  <2> QED BY <1>3, <2>1, <2>3 DEF DeskInv
<1>6. CASE SaveTimer
  <2>1. CASE settings' = [settings EXCEPT !.loading = FALSE]
    BY <1>1, <1>3, <2>1 DEF DeskInv, SettingsPanels
  <2>2. CASE settings.orphans > 0 /\ settings' = [settings EXCEPT !.orphans = settings.orphans - 1]
    <3>1. settings.orphans - 1 \in 0 .. MaxToasts
      BY <1>1, <2>2
    <3>2. settings' \in SettingsPanels /\ settings'.orphans = settings.orphans - 1
          /\ settings'.loading = settings.loading
      BY <1>1, <2>2, <3>1 DEF SettingsPanels
    <3>3. settings.loading => settings.orphans - 1 < MaxToasts
      BY <1>1 DEF DeskInv
    <3> QED BY <1>3, <3>2, <3>3 DEF DeskInv
  <2> QED BY <1>6, <2>1, <2>2 DEF SaveTimer
<1> QED BY <1>4, <1>5, <1>6

LEMMA DeskNext == DeskInv /\ ToastInv /\ [ShellNext]_shellVars => DeskInv'
<1> SUFFICES ASSUME DeskInv, ToastInv, [ShellNext]_shellVars PROVE DeskInv'
  OBVIOUS
<1>1. CASE UNCHANGED <<dashboard, palette, settings>>
  BY <1>1 DEF DeskInv
<1>2. CASE \/ TimePasses \/ PageReports \/ AddUserOrKey \/ UNCHANGED shellVars
           \/ \E n \in DOMAIN toasts.added : ToastTimer(n) \/ RemoveToast(n)
  BY <1>1, <1>2 DEF TimePasses, PageReports, AddUserOrKey, ToastTimer, RemoveToast, shellVars
<1>3. CASE \/ \E tab \in SidebarTabs : ClickSidebar(tab)
           \/ \E tab \in TileTabs : ClickTile(tab)
  <2>1. PICK tab \in Tabs : HandleTabChange(tab) /\ UNCHANGED palette
    BY <1>3 DEF ClickSidebar, ClickTile, Tabs
  <2> QED BY <2>1, TabStep DEF DeskInv
<1>4. CASE PressEnter \/ \E i \in Indices : ClickCommand(i)
  BY <1>4, RunStep DEF PressEnter, ClickCommand
<1>5. CASE \E step \in {"up", "down"} : Arrow(step)
  BY <1>5, ArrowStep
<1>6. toasts \in ToastsType
  BY DEF ToastInv
<1>7. CASE \/ \E tab \in PanelTabs : SetPanelTab(tab)
           \/ EditConfig \/ HandleSave \/ SaveTimer
           \/ \E u \in Users : HandleDeleteUser(u)
           \/ \E k \in ActiveKeys : HandleRevokeKey(k)
  BY <1>6, <1>7, SettingsStep
<1>8. CASE \/ StatsArrive \/ Reload
           \/ \E view \in {"topology", "map"} : SetNetworkView(view)
  BY <1>8, DashboardStep
<1>9. CASE \/ OpenPalette \/ ClosePalette
           \/ \E query \in DOMAIN CommandsFor : SetQuery(query)
           \/ \E i \in Indices : HoverCommand(i)
  BY <1>9, PaletteStep
<1> QED
  BY <1>2, <1>3, <1>4, <1>5, <1>7, <1>8, <1>9 DEF ShellNext

LEMMA ShellTyped == DeskInv /\ ToastInv => ShellTypeOK
<1> SUFFICES ASSUME DeskInv, ToastInv PROVE ShellTypeOK
  OBVIOUS
<1>1. dashboard \in Dashboards /\ palette \in Palettes /\ settings \in SettingsPanels
  BY DEF DeskInv
<1>2. toasts.shown \union toasts.armed \subseteq DOMAIN toasts.added
  BY DEF ToastInv
<1> QED BY <1>1, <1>2 DEF ShellTypeOK, Dashboards, Palettes, SettingsPanels, Tabs

\* A toast of ui/src/components/Toast.tsx stays until its timer or a click ends
\* it, or one of the same millisecond, however many there are; and no arrow, query
\* or tab of ui/src/pages/Dashboard.tsx leads out of what there is.
THEOREM ToastsLast == ShellSpec => [](ShellTypeOK /\ ToastsHaveTheirTime)
<1>1. ToastInv => ToastsHaveTheirTime
  BY DEF ToastInv, ToastsHaveTheirTime
<1> QED
  BY ToastInit, ToastNext, DeskInit, DeskNext, ShellTyped, <1>1, PTL DEF ShellSpec

-----------------------------------------------------------------------------
(* The analysis panels (AnalysisPanels).                                     *)

Sources == {"none", "default", "service", "placeholder"}

PanelFields(p) ==
  p = [name |-> p.name, awaits |-> p.awaits, loading |-> p.loading,
       timeRange |-> p.timeRange, activeView |-> p.activeView,
       searchQuery |-> p.searchQuery, metrics |-> p.metrics, shown |-> p.shown]

PanelTyped(p) ==
  /\ PanelFields(p)
  /\ p.name \in PanelNames /\ p.timeRange \in TimeRanges
  /\ p.activeView \in {"playbooks", "connectors"}
  /\ p.shown \in [View[p.name] -> Sources]

\* What was read together is of one source, or is not there.
OneSource(p) == \E source \in Sources :
  \A x \in ReadTogether[p.name] : p.shown[x] \in {"none", source}

\* A panel between two renders: one that awaits an answer is loading, but for
\* the operations centre's; and what was put in place already, one after the
\* other, is placeholders.
Panel(p) ==
  /\ PanelTyped(p) /\ p.loading \in BOOLEAN
  /\ p.loading \/ p.awaits = "nothing" \/ p.name = "soc"
  /\ p.name = "network" =>
       /\ p.awaits \in {"mock protocols", "mock talkers"} => p.shown["trafficData"] = "placeholder"
       /\ p.awaits = "mock talkers" => p.shown["protocolData"] = "placeholder"
  /\ p.name = "soar" /\ p.loading => \A x \in {"playbooks", "history"} : p.shown[x] = "none"
  /\ ~p.loading => OneSource(p)

LEMMA OfTheView == \A n \in PanelNames : ReadTogether[n] \subseteq View[n]
<1>1. View = [n \in PanelNames |-> View[n]]
  BY DEF View, PanelNames
<1>2. \A n \in PanelNames \ {"soc", "soar", "network"} : ReadTogether[n] = View[n]
  BY <1>1 DEF ReadTogether
<1>3. /\ ReadTogether["soc"] = {"charts"} /\ ReadTogether["soar"] = {"playbooks", "history"}
      /\ ReadTogether["network"] = {"trafficData", "protocolData"}
  BY <1>1 DEF ReadTogether, PanelNames
<1>4. View["soc"] = SocView /\ View["soar"] = SoarView /\ View["network"] = NetworkView
  BY DEF View
<1> QED BY <1>2, <1>3, <1>4 DEF SocView, SoarView, NetworkView

\* Pieces of a panel, from a source.
LEMMA PanelPut ==
  ASSUME NEW p, PanelTyped(p), NEW pieces, NEW source \in Sources,
         NEW q, q = With(p, pieces, source)
  PROVE  /\ PanelTyped(q)
         /\ q.name = p.name /\ q.awaits = p.awaits /\ q.loading = p.loading
         /\ q.timeRange = p.timeRange /\ q.activeView = p.activeView
         /\ \A x \in View[p.name] : q.shown[x] = IF x \in pieces THEN source ELSE p.shown[x]
<1>1. PICK shown : shown = [x \in View[p.name] |-> IF x \in pieces THEN source ELSE p.shown[x]]
  OBVIOUS
<1>2. q = [p EXCEPT !.shown = shown]
  BY <1>1 DEF With, PanelTyped
<1>3. /\ PanelFields(q) /\ q.name = p.name /\ q.awaits = p.awaits /\ q.loading = p.loading
      /\ q.timeRange = p.timeRange /\ q.activeView = p.activeView /\ q.shown = shown
  BY <1>2 DEF PanelFields, PanelTyped
<1>4. shown \in [View[p.name] -> Sources]
  BY <1>1 DEF PanelTyped
<1> QED BY <1>1, <1>3, <1>4 DEF PanelTyped

LEMMA PanelGoes ==
  ASSUME NEW p, PanelTyped(p), NEW what, NEW q, q = Then(p, what)
  PROVE  /\ PanelTyped(q) /\ q.awaits = what /\ q.loading = p.loading
         /\ q.name = p.name /\ q.shown = p.shown
BY DEF PanelFields, PanelTyped, Then

LEMMA PanelEnds ==
  ASSUME NEW p, PanelTyped(p), NEW q, q = Loaded(p)
  PROVE  /\ PanelTyped(q) /\ q.awaits = "nothing" /\ q.loading = FALSE
         /\ q.name = p.name /\ q.shown = p.shown
<1>1. PICK r : r = Then(p, "nothing")
  OBVIOUS
<1>2. PanelTyped(r) /\ r.awaits = "nothing" /\ r.name = p.name /\ r.shown = p.shown
  BY <1>1, PanelGoes
<1>3. q = [r EXCEPT !.loading = FALSE]
  BY <1>1 DEF Loaded
<1> QED BY <1>2, <1>3 DEF PanelTyped, PanelFields

\* A panel that has all it awaited, from one source.
LEMMA LoadedPanel ==
  ASSUME NEW p, PanelTyped(p), OneSource(p), NEW q, q = Loaded(p)
  PROVE  Panel(q)
BY PanelEnds DEF Panel, OneSource

\* A panel of placeholders only.
LEMMA AllReplaced ==
  ASSUME NEW p, PanelTyped(p), NEW pieces, View[p.name] \subseteq pieces,
         NEW q, q = Loaded(With(p, pieces, "placeholder"))
  PROVE  Panel(q)
<1>1. PICK r : r = With(p, pieces, "placeholder")
  OBVIOUS
<1>2. "placeholder" \in Sources
  BY DEF Sources
<1>3. PanelTyped(r) /\ r.name = p.name /\ \A x \in View[p.name] : r.shown[x] = "placeholder"
  BY <1>1, <1>2, PanelPut
<1>4. OneSource(r)
  BY <1>2, <1>3, OfTheView DEF OneSource, PanelTyped
<1> QED BY <1>1, <1>3, <1>4, LoadedPanel

\* What the first answers have brought is of their service.
LEMMA PanelRead ==
  ASSUME Panel(panel), NEW some,
         NEW read \in {panel, With(panel, some, "service")}
  PROVE  PanelTyped(read) /\ read.name = panel.name /\ read.loading = panel.loading
<1>1. "service" \in Sources
  BY DEF Sources
<1>2. PanelTyped(panel)
  BY DEF Panel
<1>3. CASE read = panel
  BY <1>2, <1>3
<1>4. CASE read = With(panel, some, "service")
  BY <1>1, <1>2, <1>4, PanelPut
<1> QED BY <1>3, <1>4

LEMMA FilesStep ==
  ASSUME Panel(panel), FileStatsArrive \/ DnsStatsArrive \/ SslAnswer PROVE Panel(panel')
<1>0. View["files"] = FilesView /\ View["dns"] = DnsView /\ View["ssl"] = SslView
  BY DEF View
<1>1. CASE FileStatsArrive
  <2>1. PICK read \in {panel, With(panel, {"stats"}, "service")} :
          panel' = Loaded(With(read, FilesView, "placeholder"))
    BY <1>1 DEF FileStatsArrive
  <2>2. panel.name = "files"
    BY <1>1 DEF FileStatsArrive, Awaits
  <2> QED BY <1>0, <2>1, <2>2, PanelRead, AllReplaced
<1>2. CASE DnsStatsArrive
  <2>1. PICK read \in {panel, With(panel, {"stats"}, "service")} :
          panel' = Loaded(With(read, DnsView, "placeholder"))
    BY <1>2 DEF DnsStatsArrive
  <2>2. panel.name = "dns"
    BY <1>2 DEF DnsStatsArrive, Awaits
  <2> QED BY <1>0, <2>1, <2>2, PanelRead, AllReplaced
<1>3. CASE SslAnswer
  <2>1. panel.name = "ssl"
    BY <1>3 DEF SslAnswer, Awaits
  <2>2. ASSUME NEW what, panel' = Then(panel, what), panel.awaits # "nothing"
        PROVE  Panel(panel')
    <3>1. PanelTyped(panel) /\ panel.loading
      BY <2>1, <2>2 DEF Panel
    <3>2. PanelTyped(panel') /\ panel'.loading = panel.loading /\ panel'.name = panel.name
      BY <2>2, <3>1, PanelGoes
    <3> QED BY <2>1, <3>1, <3>2 DEF Panel
  <2>3. ASSUME NEW some, NEW read \in {panel, With(panel, some, "service")},
               panel' = Loaded(With(read, SslView, "placeholder"))
        PROVE  Panel(panel')
    BY <1>0, <2>1, <2>3, PanelRead, AllReplaced
  <2> QED BY <1>3, <2>2, <2>3 DEF SslAnswer, Awaits
<1> QED BY <1>1, <1>2, <1>3

LEMMA ThreatsStep ==
  ASSUME Panel(panel), ThreatStatsArrive \/ ThreatDelayEnds PROVE Panel(panel')
<1>0. View["threats"] = ThreatsView
  BY DEF View
<1>1. CASE ThreatStatsArrive
  <2>1. PICK read \in {panel, With(panel, {"stats"}, "service")} : panel' = Then(read, "delay")
    BY <1>1 DEF ThreatStatsArrive
  <2>2. panel.name = "threats" /\ panel.loading
    BY <1>1 DEF ThreatStatsArrive, Awaits, Panel
  <2>3. PanelTyped(read) /\ read.name = panel.name /\ read.loading = panel.loading
    BY <2>1, PanelRead
  <2> QED BY <2>1, <2>2, <2>3, PanelGoes DEF Panel
<1>2. CASE ThreatDelayEnds
  BY <1>0, <1>2, AllReplaced DEF ThreatDelayEnds, Awaits, Panel
<1> QED BY <1>1, <1>2

\* The operations centre: its charts have one source, as they are one.
LEMMA SocOneSource == ASSUME NEW p, PanelTyped(p), p.name = "soc" PROVE OneSource(p)
<1>1. ReadTogether["soc"] = {"charts"} /\ "charts" \in View["soc"]
  BY DEF ReadTogether, View, SocView
<1>2. p.shown["charts"] \in Sources
  BY <1>1 DEF PanelTyped
<1> QED BY <1>1, <1>2 DEF OneSource

LEMMA SocStep ==
  ASSUME Panel(panel), SocMetricsArrive \/ SocDashboardArrives \/ SocDashboardFails
  PROVE  Panel(panel')
<1>0. "service" \in Sources /\ "placeholder" \in Sources
  BY DEF Sources
<1>1. panel.name = "soc" /\ PanelTyped(panel)
  BY DEF SocMetricsArrive, SocDashboardArrives, SocDashboardFails, Awaits, Panel
<1>2. CASE SocMetricsArrive
  <2>1. PICK metrics : panel' = Then([panel EXCEPT !.metrics = metrics], "dashboard")
    BY <1>2 DEF SocMetricsArrive
  <2>2. PICK r : r = [panel EXCEPT !.metrics = metrics]
    OBVIOUS
  <2>3. PanelTyped(r) /\ r.name = "soc" /\ r.loading = panel.loading
    BY <1>1, <2>2 DEF PanelTyped, PanelFields
  <2>5. panel' = Then(r, "dashboard")
    BY <2>1, <2>2
  <2>4. PanelTyped(panel') /\ panel'.name = "soc" /\ panel'.loading = panel.loading
    BY <2>3, <2>5, PanelGoes
  <2> QED BY <2>4, SocOneSource DEF Panel
<1>3. ASSUME NEW some, panel' = Loaded(With(With(panel, some, "service"), {"charts"}, "placeholder"))
      PROVE  Panel(panel')
  <2>1. PICK r : r = With(panel, some, "service")
    OBVIOUS
  <2>2. PanelTyped(r) /\ r.name = "soc"
    BY <1>0, <1>1, <2>1, PanelPut
  <2>3. PICK q : q = With(r, {"charts"}, "placeholder")
    OBVIOUS
  <2>4. PanelTyped(q) /\ q.name = "soc"
    BY <1>0, <2>2, <2>3, PanelPut
  <2> QED BY <1>3, <2>1, <2>3, <2>4, SocOneSource, LoadedPanel
<1>4. CASE SocDashboardArrives
  BY <1>3, <1>4 DEF SocDashboardArrives
<1>5. CASE SocDashboardFails
  <2>1. PICK q : q = With(panel, {"charts"}, "placeholder")
    OBVIOUS
  <2>2. PanelTyped(q) /\ q.name = "soc"
    BY <1>0, <1>1, <2>1, PanelPut
  <2> QED BY <1>5, <2>1, <2>2, SocOneSource, LoadedPanel DEF SocDashboardFails
<1> QED BY <1>2, <1>4, <1>5

\* Automation: a list that came beside one that did not come.
LEMMA SoarStep ==
  ASSUME Panel(panel), SoarListsArrive \/ SoarListsFail PROVE Panel(panel')
<1>0. View["soar"] = SoarView /\ ReadTogether["soar"] = {"playbooks", "history"}
  BY DEF View, ReadTogether
<1>1. panel.name = "soar" /\ PanelTyped(panel)
  BY DEF SoarListsArrive, SoarListsFail, Awaits, Panel
<1>2. "service" \in Sources /\ "placeholder" \in Sources
  BY DEF Sources
<1>3. CASE panel' = Loaded(With(panel, SoarView, "placeholder"))
  BY <1>0, <1>1, <1>3, AllReplaced
<1>4. ASSUME NEW some, some \subseteq {"playbooks", "history"},
             panel' = Loaded(With(With(panel, some, "service"), {"connectors"}, "placeholder"))
      PROVE  Panel(panel')
  <2>1. PICK r : r = With(panel, some, "service")
    OBVIOUS
  <2>2. /\ PanelTyped(r) /\ r.name = "soar"
        /\ \A x \in View["soar"] : r.shown[x] = IF x \in some THEN "service" ELSE panel.shown[x]
    BY <1>1, <1>2, <2>1, PanelPut
  <2>3. PICK q : q = With(r, {"connectors"}, "placeholder")
    OBVIOUS
  <2>4. /\ PanelTyped(q) /\ q.name = "soar"
        /\ \A x \in View["soar"] : q.shown[x] = IF x \in {"connectors"} THEN "placeholder" ELSE r.shown[x]
    BY <1>2, <2>2, <2>3, PanelPut
  <2>5. \A x \in {"playbooks", "history"} : panel.shown[x] = "none"
    BY <1>1 DEF Panel, SoarListsArrive, SoarListsFail, Awaits
  <2>6. \A x \in {"playbooks", "history"} : q.shown[x] \in {"none", "service"}
    BY <1>0, <2>2, <2>4, <2>5 DEF SoarView
  <2>7. OneSource(q)
    BY <1>0, <1>2, <2>4, <2>6 DEF OneSource
  <2> QED BY <1>4, <2>1, <2>3, <2>4, <2>7, LoadedPanel
<1> QED BY <1>3, <1>4 DEF SoarListsArrive, SoarListsFail

\* Network traffic: whatever came, two charts of the service's or two placeholders.
LEMMA NetworkLoaded ==
  ASSUME NEW p, PanelTyped(p), p.name = "network", p.shown["trafficData"] = p.shown["protocolData"],
         NEW q, q = Loaded(p)
  PROVE  Panel(q)
<1>1. ReadTogether["network"] = {"trafficData", "protocolData"} /\ "trafficData" \in View["network"]
  BY DEF ReadTogether, View, NetworkView
<1>2. p.shown["trafficData"] \in Sources
  BY <1>1 DEF PanelTyped
<1>3. OneSource(p)
  BY <1>1, <1>2 DEF OneSource
<1> QED BY <1>3, LoadedPanel

LEMMA NetworkGoes ==
  ASSUME NEW p, PanelTyped(p), p.name = "network", p.loading = TRUE, NEW what,
         what \in {"mock protocols", "mock talkers"} => p.shown["trafficData"] = "placeholder",
         what = "mock talkers" => p.shown["protocolData"] = "placeholder",
         NEW q, q = Then(p, what)
  PROVE  Panel(q)
<1>1. PanelTyped(q) /\ q.awaits = what /\ q.loading = p.loading /\ q.name = p.name /\ q.shown = p.shown
  BY ONLY PanelTyped(p), q = Then(p, what) DEF PanelTyped, PanelFields, Then
<1> QED BY <1>1 DEF Panel

LEMMA NetworkStep ==
  ASSUME Panel(panel), TrafficArrives \/ ProtocolsArrive \/ NetworkFails \/ MockAnswersNetwork
  PROVE  Panel(panel')
<1>0. View["network"] = NetworkView /\ "service" \in Sources /\ "placeholder" \in Sources
  BY DEF View, Sources
<1>1. panel.name = "network" /\ PanelTyped(panel) /\ panel.loading = TRUE
  BY DEF TrafficArrives, ProtocolsArrive, NetworkFails, MockAnswersNetwork, Awaits, Panel
<1>2. CASE TrafficArrives
  BY <1>1, <1>2, NetworkGoes DEF TrafficArrives
<1>3. CASE NetworkFails
  BY <1>1, <1>3, NetworkGoes DEF NetworkFails
<1>4. CASE ProtocolsArrive
  <2>1. PICK q : q = With(panel, {"trafficData", "protocolData"}, "service")
    OBVIOUS
  <2>2. /\ PanelTyped(q) /\ q.name = "network"
        /\ \A x \in View["network"] : x \in {"trafficData", "protocolData"} => q.shown[x] = "service"
    BY <1>0, <1>1, <2>1, PanelPut
  <2>3. q.shown["trafficData"] = q.shown["protocolData"]
    BY <1>0, <2>2 DEF NetworkView
  <2> QED BY <1>4, <2>1, <2>2, <2>3, NetworkLoaded DEF ProtocolsArrive
<1>5. CASE MockAnswersNetwork
  <2>2. CASE /\ Awaits("network", "mock traffic")
             /\ panel' = Then(With(panel, {"trafficData"}, "placeholder"), "mock protocols")
    <3>1. PICK q : q = With(panel, {"trafficData"}, "placeholder")
      OBVIOUS
    <3>2. /\ PanelTyped(q) /\ q.name = "network" /\ q.loading = TRUE
          /\ \A x \in View["network"] :
               q.shown[x] = IF x \in {"trafficData"} THEN "placeholder" ELSE panel.shown[x]
      BY <1>0, <1>1, <3>1, PanelPut
    <3>3. q.shown["trafficData"] = "placeholder"
      BY <1>0, <3>2 DEF NetworkView
    <3> QED BY <2>2, <3>1, <3>2, <3>3, NetworkGoes
  <2>3. CASE /\ Awaits("network", "mock protocols")
             /\ panel' = Then(With(panel, {"protocolData"}, "placeholder"), "mock talkers")
    <3>1. panel.shown["trafficData"] = "placeholder"
      BY <2>3 DEF Awaits, Panel
    <3>2. PICK q : q = With(panel, {"protocolData"}, "placeholder")
      OBVIOUS
    <3>3. /\ PanelTyped(q) /\ q.name = "network" /\ q.loading = TRUE
          /\ \A x \in View["network"] :
               q.shown[x] = IF x \in {"protocolData"} THEN "placeholder" ELSE panel.shown[x]
      BY <1>0, <1>1, <3>2, PanelPut
    <3>4. q.shown["protocolData"] = "placeholder" /\ q.shown["trafficData"] = "placeholder"
      BY <1>0, <3>1, <3>3 DEF NetworkView
    <3> QED BY <2>3, <3>2, <3>3, <3>4, NetworkGoes
  <2>4. CASE /\ Awaits("network", "mock talkers")
             /\ panel' = Loaded(With(panel, {"topTalkers"}, "placeholder"))
    <3>1. panel.shown["trafficData"] = "placeholder" /\ panel.shown["protocolData"] = "placeholder"
      BY <2>4 DEF Awaits, Panel
    <3>2. PICK q : q = With(panel, {"topTalkers"}, "placeholder")
      OBVIOUS
    <3>3. /\ PanelTyped(q) /\ q.name = "network" /\ q.loading = TRUE
          /\ \A x \in View["network"] :
               q.shown[x] = IF x \in {"topTalkers"} THEN "placeholder" ELSE panel.shown[x]
      BY <1>0, <1>1, <3>2, PanelPut
    <3>4. q.shown["trafficData"] = q.shown["protocolData"]
      BY <1>0, <3>1, <3>3 DEF NetworkView
    <3> QED BY <2>4, <3>2, <3>3, <3>4, NetworkLoaded
  <2> QED BY <1>5, <2>2, <2>3, <2>4 DEF MockAnswersNetwork
<1> QED BY <1>2, <1>3, <1>4, <1>5

\* What the user sets: no piece of the panel changes with it.
LEMMA PanelSetStep ==
  ASSUME Panel(panel),
         \/ \E query \in {"", "text"} : SetSearchQuery(query)
         \/ \E view \in {"playbooks", "connectors"} : SetActiveView(view)
         \/ \E range \in TimeRanges : SetTimeRange(range)
  PROVE  Panel(panel')
<1>1. PanelTyped(panel)
  BY DEF Panel
<1>2. ASSUME NEW query \in {"", "text"}, SetSearchQuery(query) PROVE Panel(panel')
  <2>1. panel' = [panel EXCEPT !.searchQuery = query]
    BY <1>2 DEF SetSearchQuery
  <2>2. /\ PanelTyped(panel') /\ panel'.name = panel.name /\ panel'.shown = panel.shown
        /\ panel'.loading = panel.loading /\ panel'.awaits = panel.awaits
    BY <1>1, <2>1 DEF PanelTyped, PanelFields
  <2> QED BY <2>2 DEF Panel, OneSource
<1>3. ASSUME NEW view \in {"playbooks", "connectors"}, SetActiveView(view) PROVE Panel(panel')
  <2>1. panel' = [panel EXCEPT !.activeView = view]
    BY <1>3 DEF SetActiveView
  <2>2. /\ PanelTyped(panel') /\ panel'.name = panel.name /\ panel'.shown = panel.shown
        /\ panel'.loading = panel.loading /\ panel'.awaits = panel.awaits
    BY <1>1, <2>1 DEF PanelTyped, PanelFields
  <2> QED BY <2>2 DEF Panel, OneSource
<1>4. ASSUME NEW range \in TimeRanges, SetTimeRange(range) PROVE Panel(panel')
  <2>1. PICK r : r = [panel EXCEPT !.timeRange = range, !.loading = TRUE]
    OBVIOUS
  <2>2. PanelTyped(r) /\ r.name = "network" /\ r.loading = TRUE
    BY <1>1, <1>4, <2>1 DEF PanelTyped, PanelFields, SetTimeRange
  <2>3. panel' = Then(r, "traffic")
    BY <1>4, <2>1 DEF SetTimeRange
  <2> QED BY <2>2, <2>3, NetworkGoes
<1> QED BY <1>2, <1>3, <1>4

LEMMA PanelNext == Panel(panel) /\ [AnalysisPanelsNext]_analysisPanelsVars => Panel(panel)'
<1> SUFFICES ASSUME Panel(panel), [AnalysisPanelsNext]_analysisPanelsVars PROVE Panel(panel')
  OBVIOUS
<1>1. CASE UNCHANGED analysisPanelsVars
  BY <1>1 DEF analysisPanelsVars
<1>2. CASE AnalysisPanelsNext
  BY <1>2, FilesStep, ThreatsStep, SocStep, SoarStep, NetworkStep, PanelSetStep DEF AnalysisPanelsNext
<1> QED BY <1>1, <1>2

LEMMA PanelInit == AnalysisPanelsInit => Panel(panel)
<1> SUFFICES ASSUME AnalysisPanelsInit PROVE Panel(panel)
  OBVIOUS
<1>1. PICK n \in PanelNames :
    panel = [name |-> n, awaits |-> FirstRead[n], loading |-> n # "soc",
             timeRange |-> "24h", activeView |-> "playbooks", searchQuery |-> "",
             metrics |-> "none",
             shown |-> [p \in View[n] |-> IF p \in {"openCritical", "mttr"} THEN "default"
                                          ELSE "none"]]
  BY DEF AnalysisPanelsInit
<1>2. PICK shown : shown = [p \in View[n] |-> IF p \in {"openCritical", "mttr"} THEN "default"
                                             ELSE "none"]
  OBVIOUS
<1>3. /\ PanelFields(panel) /\ panel.name = n /\ panel.shown = shown /\ panel.awaits = FirstRead[n]
      /\ panel.loading = (n # "soc") /\ panel.timeRange = "24h" /\ panel.activeView = "playbooks"
  BY <1>1, <1>2 DEF PanelFields
<1>4. shown \in [View[n] -> Sources]
  BY <1>2 DEF Sources
<1>5. PanelTyped(panel)
  BY <1>3, <1>4 DEF PanelTyped, TimeRanges
<1>6. View["soar"] = SoarView /\ FirstRead["network"] = "traffic"
  BY DEF View, FirstRead, PanelNames
<1>7. n = "soar" => \A x \in {"playbooks", "history"} : shown[x] = "none"
  BY <1>2, <1>6 DEF SoarView
<1>8. n = "soc" => OneSource(panel)
  BY <1>3, <1>5, SocOneSource
<1> QED BY <1>3, <1>5, <1>6, <1>7, <1>8 DEF Panel

LEMMA PanelHolds == Panel(panel) => AnalysisPanelsTypeOK /\ PanelsHaveOneSource
<1> SUFFICES ASSUME Panel(panel) PROVE AnalysisPanelsTypeOK /\ PanelsHaveOneSource
  OBVIOUS
<1>1. AnalysisPanelsTypeOK
  BY DEF Panel, PanelTyped, AnalysisPanelsTypeOK, Sources
<1>2. ASSUME ~panel.loading
      PROVE  Cardinality({panel.shown[p] : p \in ReadTogether[panel.name]} \ {"none"}) <= 1
  <2>1. PICK source \in Sources : \A x \in ReadTogether[panel.name] : panel.shown[x] \in {"none", source}
    BY <1>2 DEF Panel, OneSource
  <2> DEFINE S == {panel.shown[p] : p \in ReadTogether[panel.name]} \ {"none"}
  <2>2. S \subseteq {source}
    BY <2>1
  <2> HIDE DEF S
  <2>3. IsFiniteSet({source}) /\ Cardinality({source}) = 1
    BY FS_Singleton
  <2>4. Cardinality(S) <= Cardinality({source})
    BY <2>2, <2>3, FS_Subset
  <2> QED BY <2>3, <2>4 DEF S
<1> QED BY <1>1, <1>2 DEF PanelsHaveOneSource

\* The analysis panels of ui/src/components: a panel that has loaded shows no
\* placeholder beside a figure of the service's.
THEOREM OneSourcePerPanel == AnalysisPanelsSpec => [](AnalysisPanelsTypeOK /\ PanelsHaveOneSource)
BY PanelInit, PanelNext, PanelHolds, PTL DEF AnalysisPanelsSpec

-----------------------------------------------------------------------------
(* The pages together (Monitor).                                           *)

\* A step of the monitor is a step of a part, or leaves the part as it is.
LEMMA MonitorSteps ==
  [MonitorNext]_monitorVars =>
    /\ [LiveFeedNext]_liveFeedVars
    /\ [EdgeManagementNext]_edgeVars
    /\ [LogViewerNext]_logViewerVars
    /\ [InventoryNext]_inventoryVars
    /\ [AnalysisPanelsNext]_analysisPanelsVars
    /\ [ShellNext]_shellVars
<1> SUFFICES ASSUME [MonitorNext]_monitorVars
             PROVE  /\ LiveFeedNext \/ UNCHANGED liveFeedVars
                    /\ EdgeManagementNext \/ UNCHANGED edgeVars
                    /\ LogViewerNext \/ UNCHANGED logViewerVars
                    /\ InventoryNext \/ UNCHANGED inventoryVars
                    /\ AnalysisPanelsNext \/ UNCHANGED analysisPanelsVars
                    /\ ShellNext \/ UNCHANGED shellVars
  OBVIOUS
<1>1. CASE UNCHANGED monitorVars
  BY <1>1 DEF monitorVars
<1>2. CASE MonitorNext
  BY <1>2 DEF MonitorNext, Others
<1> QED
  BY <1>1, <1>2

\* What each page that watches promises (ui/src/pages and ui/src/components) holds
\* of the monitor, whose part is any of them.
THEOREM MonitorKeepsItsPromises ==
  MonitorSpec => [](/\ MonitorTypeOK
                    /\ FeedIsTheStream /\ FleetIsShown /\ RowsOfTheRange
                    /\ CountersAreOfTheRows /\ PanelsHaveOneSource /\ ToastsHaveTheirTime)
<1>1. MonitorInit => /\ LiveFeedInit /\ EdgeManagementInit /\ LogViewerInit /\ InventoryInit
                     /\ AnalysisPanelsInit /\ ShellInit
  BY DEF MonitorInit
<1>2. MonitorSpec => /\ LiveFeedSpec /\ EdgeManagementSpec /\ LogViewerSpec /\ InventorySpec
                     /\ AnalysisPanelsSpec /\ ShellSpec
  BY <1>1, MonitorSteps, PTL
  DEF MonitorSpec, LiveFeedSpec, EdgeManagementSpec, LogViewerSpec, InventorySpec,
      AnalysisPanelsSpec, ShellSpec
<1> QED
  BY <1>2, FeedInOrder, FleetShown, RowsInRange, CountersRight, OneSourcePerPanel, ToastsLast, PTL
  DEF MonitorTypeOK
==============================================================================
