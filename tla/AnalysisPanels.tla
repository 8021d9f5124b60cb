------------------------------ MODULE AnalysisPanels ------------------------------
(***************************************************************************)
(* The analysis panels of ui/src/components: files, TLS, DNS, threats, the *)
(* operations centre, automation and network traffic.  A panel reads a few *)
(* answers, one after the other, and puts placeholders in the place of     *)
(* those that did not come.  Of a figure or a table the model has where it *)
(* comes from: the service, the placeholders, or a default.                *)
(***************************************************************************)
EXTENDS Naturals, FiniteSets

VARIABLE panel \* the panel that is mounted

analysisPanelsVars == <<panel>>

PanelNames == {"files", "ssl", "dns", "threats", "soc", "soar", "network"}

\* What each panel renders of what it has read.
FilesView == {"stats", "files"}
SslView == {"stats", "tlsVersions", "cipherSuites", "certificates"}
DnsView == {"stats", "queries", "tunnelingEvents"}
ThreatsView == {"stats", "feeds", "matches"}
SocView == {"openCritical", "mttr", "charts"}
SoarView == {"playbooks", "connectors", "history"}
NetworkView == {"trafficData", "protocolData", "topTalkers"}

View == [files |-> FilesView, ssl |-> SslView, dns |-> DnsView, threats |-> ThreatsView,
         soc |-> SocView, soar |-> SoarView, network |-> NetworkView]

FirstRead == [n \in PanelNames |-> IF n = "network" THEN "traffic"
                                   ELSE IF n = "soc" THEN "metrics" ELSE "stats"]

TimeRanges == {"1h", "6h", "24h", "7d"}

AnalysisPanelsInit ==
  \E n \in PanelNames :
    panel = [name |-> n, awaits |-> FirstRead[n], loading |-> n # "soc",
             timeRange |-> "24h", activeView |-> "playbooks", searchQuery |-> "",
             metrics |-> "none",
             shown |-> [p \in View[n] |-> IF p \in {"openCritical", "mttr"} THEN "default"
                                          ELSE "none"]]

Awaits(name, what) == panel.name = name /\ panel.awaits = what

\* The panel p with the pieces from a source.
With(p, pieces, source) ==
  [p EXCEPT !.shown = [x \in DOMAIN @ |-> IF x \in pieces THEN source ELSE @[x]]]
Then(p, what) == [p EXCEPT !.awaits = what]
Loaded(p) == [Then(p, "nothing") EXCEPT !.loading = FALSE]

\* Whatever the figures are, the handler goes on to throw, for the tables.
FileStatsArrive ==
  /\ Awaits("files", "stats")
  /\ \E read \in {panel, With(panel, {"stats"}, "service")} :
       panel' = Loaded(With(read, FilesView, "placeholder"))

SetSearchQuery(query) ==
  /\ panel.name = "files" /\ ~panel.loading /\ query # panel.searchQuery
  /\ panel' = [panel EXCEPT !.searchQuery = query]

DnsStatsArrive ==
  /\ Awaits("dns", "stats")
  /\ \E read \in {panel, With(panel, {"stats"}, "service")} :
       panel' = Loaded(With(read, DnsView, "placeholder"))

\* The certificates are those of the first sensor, if the sensors come and there
\* is one; then, as above, all is replaced.
SslAnswer ==
  \/ Awaits("ssl", "stats") /\ panel' = Then(panel, "sensors")
  \/ Awaits("ssl", "sensors") /\ panel' = Then(panel, "certificates")
  \/ /\ panel.name = "ssl" /\ panel.awaits \in {"sensors", "certificates"}
     /\ \E read \in {panel, With(panel, {"stats"}, "service"),
                     With(panel, {"stats", "certificates"}, "service")} :
          panel' = Loaded(With(read, SslView, "placeholder"))

\* The figures are set, and for a while a placeholder is awaited.
ThreatStatsArrive ==
  /\ Awaits("threats", "stats")
  /\ \E read \in {panel, With(panel, {"stats"}, "service")} : panel' = Then(read, "delay")
ThreatDelayEnds ==
  Awaits("threats", "delay") /\ panel' = Loaded(With(panel, ThreatsView, "placeholder"))

\* A number that is zero is taken for one that is missing.
SocMetricsArrive ==
  /\ Awaits("soc", "metrics")
  /\ \E metrics \in {"none", "zero", "count"} :
       panel' = Then([panel EXCEPT !.metrics = metrics], "dashboard")
SocDashboardArrives ==
  /\ Awaits("soc", "dashboard")
  /\ \E dashboard \in {"none", "zero", "count"} :
       LET critical == {p \in {"openCritical"} : "count" \in {panel.metrics, dashboard}}
           times == {p \in {"mttr"} : panel.metrics # "none"} IN
       panel' = Loaded(With(With(panel, critical \union times, "service"), {"charts"},
                            "placeholder"))
\* The metrics that had come are lost.
SocDashboardFails ==
  Awaits("soc", "dashboard") /\ panel' = Loaded(With(panel, {"charts"}, "placeholder"))

\* Playbooks and executions are awaited together: one that fails is both failing.
\* A list is shown if it has entries; an answer that is none, an error's body,
\* is neither shown nor seen to be empty.
SoarListsArrive ==
  /\ Awaits("soar", "stats")
  /\ \E playbooks, executions \in {"none", "rows", "error body"} :
       panel' = IF playbooks = "none" /\ executions = "none"
                THEN Loaded(With(panel, SoarView, "placeholder"))
                ELSE LET read == {p \in {"playbooks"} : playbooks = "rows"}
                                   \union {p \in {"history"} : executions = "rows"} IN
                     Loaded(With(With(panel, read, "service"), {"connectors"}, "placeholder"))
SoarListsFail ==
  Awaits("soar", "stats") /\ panel' = Loaded(With(panel, SoarView, "placeholder"))

SetActiveView(view) ==
  /\ panel.name = "soar" /\ ~panel.loading /\ view # panel.activeView
  /\ panel' = [panel EXCEPT !.activeView = view]

TrafficArrives == Awaits("network", "traffic") /\ panel' = Then(panel, "protocols")
ProtocolsArrive ==
  /\ Awaits("network", "protocols")
  /\ panel' = Loaded(With(panel, {"trafficData", "protocolData"}, "service"))

\* Mutant: the placeholders are for the answer that failed.
NetworkFailsInPart ==
  \/ Awaits("network", "traffic") /\ panel' = Then(panel, "mock traffic")
  \/ /\ Awaits("network", "protocols")
     /\ panel' = Then(With(panel, {"trafficData"}, "service"), "mock protocols")

\* One answer that fails, first or second, and all are replaced, one by one.
NetworkFails ==
  /\ panel.name = "network" /\ panel.awaits \in {"traffic", "protocols"}
  /\ panel' = Then(panel, "mock traffic")
MockAnswersNetwork ==
  \/ /\ Awaits("network", "mock traffic")
     /\ panel' = Then(With(panel, {"trafficData"}, "placeholder"), "mock protocols")
  \/ /\ Awaits("network", "mock protocols")
     /\ panel' = Then(With(panel, {"protocolData"}, "placeholder"), "mock talkers")
  \/ /\ Awaits("network", "mock talkers")
     /\ panel' = Loaded(With(panel, {"topTalkers"}, "placeholder"))

\* The select is not there while the panel loads.
SetTimeRange(range) ==
  /\ panel.name = "network" /\ ~panel.loading /\ range # panel.timeRange
  /\ panel' = Then([panel EXCEPT !.timeRange = range, !.loading = TRUE], "traffic")

AnalysisPanelsNext ==
  \/ FileStatsArrive \/ DnsStatsArrive \/ SslAnswer \/ ThreatStatsArrive \/ ThreatDelayEnds
  \/ SocMetricsArrive \/ SocDashboardArrives \/ SocDashboardFails
  \/ SoarListsArrive \/ SoarListsFail
  \/ TrafficArrives \/ ProtocolsArrive \/ NetworkFails \/ MockAnswersNetwork
  \/ \E query \in {"", "text"} : SetSearchQuery(query)
  \/ \E view \in {"playbooks", "connectors"} : SetActiveView(view)
  \/ \E range \in TimeRanges : SetTimeRange(range)

AnalysisPanelsSpec == AnalysisPanelsInit /\ [][AnalysisPanelsNext]_analysisPanelsVars

-----------------------------------------------------------------------------
(* Properties.                                                             *)

AnalysisPanelsTypeOK ==
  /\ panel.name \in PanelNames /\ panel.loading \in BOOLEAN /\ panel.timeRange \in TimeRanges
  /\ panel.activeView \in {"playbooks", "connectors"}
  /\ DOMAIN panel.shown = View[panel.name]
  /\ \A p \in DOMAIN panel.shown : panel.shown[p] \in {"none", "default", "service", "placeholder"}

\* The figures and tables that are read together.  Not here: the connectors and
\* the charts, that have no service; and the top talkers, asked of none.
ReadTogether ==
  [View EXCEPT !.soc = {"charts"}, !.soar = {"playbooks", "history"},
               !.network = {"trafficData", "protocolData"}]

\* A panel that has loaded shows what it read together from one source: no
\* placeholder beside a figure of the service's, whichever answer failed.
PanelsHaveOneSource ==
  ~panel.loading =>
    Cardinality({panel.shown[p] : p \in ReadTogether[panel.name]} \ {"none"}) <= 1
=============================================================================
