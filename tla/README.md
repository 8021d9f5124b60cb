# Verification of the NDR platform

TLA+ models of the NDR (network detection and response) platform, the TLC
configurations that check them on small instances, and TLAPS proofs of theorems
about them for every value of the constants. Source paths are relative to the
root of the repository.

1. The system
2. The inventory
3. The modules, and how they correspond to the code
4. The runs: what they show, their bounds, the fairness they assume
5. The proofs
6. Where the code and its documents disagree
7. What is only model-checked, and what is not modelled
8. The plan

## 1. The system

Sensors and edge agents observe network traffic. Edge agents accept events over
HTTP, grade them, and forward them to Kafka, or buffer them in SQLite while
Kafka or the coordinator is away. Services written in Rust under `services/`
read Kafka topics and produce others: parse and normalise, scan files with
YARA, correlate alerts, trigger playbooks, export to a SIEM, push to browsers.
Postgres holds what must stay, Redis what may be forgotten. A React UI in
TypeScript under `ui/`, which is the largest part of the repository, reads and
polls the APIs and shows what they say.

    sensors, edge agents --> [Kafka: network-events, security-alerts, ...]
                                |            |              |
                            normaliser   YARA scanner   correlator --> Postgres, Redis
                                |            |              |
                                v            v              v
                            assets ...   SOAR, SIEM exporter, dashboard API --> UI
    edge coordinator --(HTTP, topic edge-rules)--> edge agents
    controller <--(HTTP)-- sensors;  auth service <--(HTTP)-- UI

The hard behaviours are those of one process with many tasks (the breaker, the
agent), of several processes over stores that offer no transaction across them
(the correlator over Redis, Postgres and Kafka; the coordinator over Postgres
and Kafka), and of everything that restarts: what survives is only what SQLite,
Postgres or Kafka holds, and Kafka's offsets are committed by a timer. In the
browser they are those of one thread that is never alone: answers in any order,
timers that call the handlers of an earlier render, requests sent again, two
copies of one thing in two pieces of state, a store shared by several windows.

## 2. The inventory

**Circuit breaker** (`services/crates/ndr-core/src/circuit_breaker.rs`, re-exported
by the agent, used by its forwarder, by the correlator for Redis and for its
producer, and by the sensor controller for Postgres).
State: a count of failures and the instant of the last one, each under a
`tokio::RwLock` of its own. Operations: `is_open`, which may reset;
`record_success`; `record_failure`. Shared by concurrent tasks, some of which are
HTTP handlers that are dropped when their client goes. Hard: two cells under two
locks, read one after the other, written after an await, and tasks that vanish at
an await. Correct when the two cells never tell different stories, calls return,
an open breaker reopens, and the count is bounded.

**Edge agent** (`services/rust-edge-agent`). State: the online flag, the SQLite
table `buffered_events`, the forwarder with its breaker and policy, the detector's
rules, in memory. Operations: `POST /ingest`, `POST /config`; tasks for the
heartbeat, for forwarding the buffer (5 s), for rule updates, for metrics.
Hard: every await of a handler, of the forwarder task and of the heartbeat
interleaves with the others; eviction from the buffer races with forwarding; a
crash between a send and the DELETE of its row. Correct when an acknowledged
event is never lost silently, the order of the backlog is kept, duplicates happen
only for a reason, and the backlog drains.

**Edge coordinator** (`services/rust-edge-coordinator`). State: Postgres tables
`edge_agents`, `edge_forwarding_policies` and `detection_rules`. Operations: register, heartbeat, list and
configure agents; create, list and delete rules, a new rule being published on
`edge-rules`. Hard: a row and a message are written one after the other, the
message reaches a consumer group. Correct when agents end up with the rules the
table has, the status of an agent tells whether it lives, and a configuration
reaches its agent.

**Alert correlator** (`services/rust-alert-correlator`). State: rows of
`alert_meta` in Postgres, `alert:<key>` entries in Redis that expire with the
aggregation window. Operation: read an alert, look its key up, update the row
found or create one, publish. Hard: check-then-act across two stores, several
instances, calls that fail after they took effect, crashes, redelivery, expiry
between two calls. Correct when no row mixes keys, no alert is counted twice for
one delivery, an alert is published only when it is recorded, and groups split
only for a reason.

**SOAR orchestrator** (`services/rust-soar-orchestrator`). State: the playbooks,
built in. Operation: match an alert of `correlated-alerts` or `security-alerts`
and run the actions, in a task of its own. Hard: the producers of its topics use
different schemas, errors of actions are swallowed, offsets are committed while
actions run. Correct when an alert that matches is acted on, and only once.

**Sensor** (`services/rust-sensor`). State: the table of flows, the anomaly
detector's counters, the current capture file. Operations: process a packet,
expire flows, detect, rotate the file, send. Hard: expiry by packet time, the
counters' thresholds, sends whose result is dropped. Correct when each packet is
in exactly one exported flow and capture files rotate within their limit.

**Ingestion gateway, threat feed** (`services/rust-ingestion-gateway`). Stateless
between requests but for the list of indicators. Operations: ingest one event or
a batch; poll a feed. Hard: a batch that fails half way. Correct when an answer
says what was sent.

**Parser and normalizer** (`services/rust-parser-normalizer`). A loop from topic
to topic; conversion of formats.

**YARA scanner** (`services/rust-yara-scanner`). State: a bounded channel of
paths, the watch on a directory. Operations: watch, walk the directory at the
start, scan, publish on `security-alerts`. Hard: files are scanned while they are
written, the watch and everything that waits for it end together, errors of a send
are not looked at. Correct when every file that matches is reported.

**Sensor controller** (`services/rust-controller`). State: table `sensors`, a
breaker. Operations: register, heartbeat, list. Hard: an upsert that overwrites
what it should merge. Its clients are `sensors/zeek-sensor`, which also polls
routes the controller does not have, and `sensors/suricata-sensor`.

**Authentication service** (`services/rust-auth-service`, `crates/ndr-auth`). State:
users, sessions, API keys. Operations: register, login, refresh, verify; create,
list, revoke and validate API keys. Hard: refresh and revocation against tokens
that live on. Correct when a revoked or expired credential opens nothing.

**Asset service** (`services/rust-asset-service`): upserts the hosts it sees in
events; concurrent upserts and redelivery. **PCAP service**: capture and file
output. **SIEM exporter** (`services/rust-siem-exporter`): the orchestrator's loop
with the enabled exporters as actions, errors logged.
**Dashboard API** (`services/rust-dashboard-api`): a broadcast channel to
WebSockets, a slow reader lags and is closed. **AI service**: calls of a language
model, one table of settings.

**Domain model** (`crates/ndr-core/src/domain/alert.rs`, `services/scoring.rs`,
`services/correlation.rs`): the transitions of an alert's status, a score in a
`u8`. **Shared crates** (`ndr-api`, `ndr-storage`, `ndr-telemetry`): types and
set-up.

**Web UI: saved queries** (`ui/src/hooks/useSavedQueries.ts`,
`components/SavedQueriesMenu.tsx`). State: a list in the component, a copy of it in
`localStorage`. Operations: mount, save, delete, mark, load. Hard: the effect that
writes runs on the first render, before what was read is rendered; windows share the
key. Correct when what was saved stays until it is deleted.

**Web UI: investigation page** (`pages/Investigation.tsx`, `FilterBar`, `BulkActionBar`).
State: query and filters, kept in the URL too, the rows fetched, those that pass, the
selection, a debounce timer. Hard: a typed, a debounced and a refreshed fetch
overlap and are never cancelled; the filters run in the browser a second time.
Correct when the rows are those of the search that is shown, and a filter nobody
sees hides nothing.

**Web UI: event search** (`components/EventSearch.tsx`). State: a builder of clauses, a
raw query, results, saved searches on the server. Hard: the timer of a chosen saved
search calls a stale handler. Correct when results answer what was asked, and what
was saved is listed.

**Web UI: detection rules** (`components/AdvancedDetection.tsx`). State: the tab, its
rules, the selection, the library, the editor with the server's rule file. Hard: each
tab loads and no load is cancelled; Save during a load. Correct when a page shows
what its tab names and the rule file is replaced only by what a user meant.

**Web UI: incident board** (`components/IncidentBoard.tsx`). State: the incidents, a copy of
the open one, a comment being typed. Correct when the two copies agree.

**Web UI: HTTP client** (`utils/api.ts`, `utils/retry.ts`; `services/api.ts`, which does not
retry). Hard: every method is sent again after a failure, which may be one of the
answer only. Correct when the caller is told what happened.

**Web UI: AI chat** (`components/AiChatWidget.tsx`). One question at a time, a placeholder
when the service fails. Correct when it never waits for ever.

**Web UI: live feed** (`components/RealTimeFeed.tsx`, `hooks/useWebSocket.ts`,
`EventDetailModal`). State: the socket's messages, the events, a pause, filters, a modal
with timers. Hard: messages that come within one render, made-up events while the
socket is away, an effect that runs again on resume. Correct when the feed tells the
stream in its order.

**Web UI: edge management** (`components/EdgeManagement.jsx`). State: the agents last read,
three flags, a dialog. Hard: polls and refreshes overlap and share the flags. Correct
when the table is what the coordinator has, and nothing spins for ever.

**Web UI: log viewer** (`pages/LogViewer.tsx`), **inventory**
(`components/AssetDiscovery.tsx`, `SensorManagement.tsx`), **analysis panels** (`FileAnalysis`,
`SSLAnalysis`, `DNSIntelligence`, `ThreatIntelligence`, `SocDashboard`, `SoarIntegration`,
`NetworkAnalytics`). They read answers, filter and count them, and put placeholders in
the place of what did not come. Correct when rows, counters and figures that stand
side by side belong together.

**Web UI: shell** (`pages/Dashboard.tsx`, `Sidebar`, `CommandPalette`, `SettingsPanel`,
`components/Toast.tsx`). State: the tab, in the URL too, the palette, the settings panel, the
toasts with their timers. Hard: a toast's id is a millisecond and its timer outlives
it. Correct when a toast has its time.

**Chaos monkey, load tester, deployment**: tools and configuration.

`PROJECT.json` lists the hazards of this code, each at its line, with the
properties that cover it, or why none does yet.

## 3. The modules

| Module | Models | State |
|---|---|---|
| `CircuitBreaker` | the breaker, one await at a time | both cells, the holder of the write guard, where each caller is |
| `AtomicBreaker` | what `CircuitBreaker` is to its callers (abstract) | one flag, whether the timeout has passed, how far each caller is |
| `EdgeAgent` | ingest, buffer, forwarder task, heartbeat, registration, restart | the agent's memory and its table, what Kafka has, what is reachable |
| `EventDelivery` | what `EdgeAgent` promises its clients (abstract) | where each event is, which are acknowledged |
| `AlertCorrelator` | instances of the correlator over Kafka, Redis and Postgres | the call each instance is at, the entry of each key, the rows |
| `AlertGrouping` | what `AlertCorrelator` promises of the rows (abstract) | what each reader holds, what it has counted, the groups, the reasons to begin one |
| `RuleDistribution` | coordinator's rules, topic `edge-rules`, the agents' rule lists | the table, the topic, the consumer group, each agent's list |
| `FileScanner` | the YARA scanner: walk, watcher, publication, restarts | the files, where `main` is, the watch, the paths sent, the topic |
| `AlertResponse` | `FileScanner` with the consumers of its topic, SOAR and SIEM | the position and offset of each service, its tasks |
| `Mailbox` | what the services of `AlertResponse` promise as readers of a topic (abstract) | the topic, each reader's place, its tasks, what it passed over |
| `SavedQueries` | the hook, its menu and its dialog in several windows | each window's list and what it has queued, the store |
| `Investigation` | the investigation page | the page's state with its fetches in flight, the URL |
| `EventSearch` | the event search | the component's state with its requests and timers, the server's searches |
| `RuleLibrary` | the detection rules | the component's state with its loads and saves, the server's file |
| `IncidentBoard` | the incident board | the incidents, the open copy, the comment, the filter |
| `ApiClient` | requests and their retries | each request's phase, attempt, delay, and what the server did |
| `AiChat` | the AI chat | the widget's state and whom it awaits |
| `Console` | the seven above | which of them the behaviour is of |
| `LiveFeed` | the live feed | the socket, the feed, the modal |
| `EdgeManagement` | the page of the agents | the coordinator's list, the page |
| `LogViewer` | the log viewer | the page with its fetches |
| `Inventory` | assets and sensors | rows, counters, what is selected |
| `AnalysisPanels` | seven panels | the panel that is mounted, where each piece of it comes from |
| `Shell` | dashboard, palette, settings, toasts | one variable for each |
| `Monitor` | the six above | which of them the behaviour is of |
| `MCEdgeAgent`, `MCAlertCorrelator`, `MCAlertResponse`, `MCConsole`, `MCMonitor`, `MCInvestigation` | values of constants and symmetry for TLC | |
| `...Proofs` | theorems about the module of that name; `ConsoleProofs` and `MonitorProofs` also about the parts of theirs | |
| `AnswerLemmas` | lemmas on requests in flight and what an answer leaves of them | |

The modules meet where the components do. `EdgeAgent` sees the breaker as a flag
that a failed send may set and that time clears: `CircuitBreaker` shows that this
is all a caller can rely on (an open breaker recovers, unless dropped calls left it
without an instant; a closed one may open at any failure). `AlertCorrelator` sees the
breaker of Redis the same way. Four modules say what a component promises and nothing of how:
`CircuitBreaker` implements `AtomicBreaker`, `EdgeAgent` implements `EventDelivery`,
`AlertCorrelator` implements `AlertGrouping`, `AlertResponse` implements `Mailbox`.
`AlertResponse` extends `FileScanner` with those who read what it publishes. The pages
of the UI share no state: what one does no other reads. `Console` and `Monitor`
put them side by side as a sum, not a product: a behaviour is that of one page
(`part`, `page`), and what is shown of it holds of the page wherever it is mounted.

Variables keep the source's names where they exist (`failure_count`,
`last_failure`, `is_online`, `batch_size`, `alert_meta`, `detection_rules`). A
variable marked *history* in its module records what happened for the sake of a
property; no guard reads it. Operators marked *Mutant* are plausible bugs of one
action. No specification uses them: they exist to show that the property they are
paired with in `PROJECT.json` would notice.

**CircuitBreaker.** A step ends at the next `.await`. Only the write guard of
`failure_count` is held across one, so it is the only lock with a holder
(`writer`). `is_open` is `IsOpenReadCount`, `IsOpenReadLast`, `IsOpenLock`,
`IsOpenReset`; `record_success` is `SuccessRead`, `SuccessLock`, `SuccessReset`;
`record_failure` is `FailureLock` and `FailureStamp`. `Drop` is a handler whose
future is dropped: its guard goes, what it wrote stays. Time is the age of the
last failure, which saturates above the timeout, so that the state space is
finite although there is no bound on time.

**EdgeAgent.** `Ingest`, `ForwardOk`, `ForwardErr`, `CheckSize`, `Evict`, `Insert`
and `PushFails` are the awaits of `ingest_event` with `Buffer::push` and
`cleanup_if_full`; `TaskPop`, `TaskForwardOk`, `TaskForwardFails`, `TaskRemove`,
`TaskRemoveFails` those of `buffer_forwarder_task` with `forward_buffered`. A send
that fails may have arrived. `Heartbeat` sets the online flag as the coordinator
answers, or does not; `Restart` loses everything but the file. Rows are identified
with their events; SQL's `ORDER BY` is a relation on rows and what it leaves open
stays open. Sizes are counted in rows, and the file has room for the most rows it
ever held (`file_rows`), as SQLite does not give pages back without VACUUM.

**AlertCorrelator.** One action per call of `process_alert`: `Lookup`, `Update`,
`SetPending`, `DetectChain`, `Create`, `SetMeta`, `Fetch`, `Publish`. `RedisFails`
and `DbFails` fail the call an instance is at, before or after it took effect.
`Rebalance` and `Crash` make some of what an instance has read be read again: the
offsets are committed by a timer, done with or not. `Expire` ends the window of a
key at any moment. `ChainQueryAccepted` says whether Postgres accepts the SQL of
`find_related_alerts`; it does not (section 6), and with it rejected nothing else
of the module could happen, so the other runs ask what holds once it is accepted.

**RuleDistribution.** `Save` and `Publish` are the two halves of `create_rule`,
between which other calls run, the send fails (`PublishFails`) or the client goes
(`Disconnect`; what librdkafka has queued may still arrive, `QueuedMessage`).
`Receive` is one round of `rule_updater_task` with `add_rule`; `UpdateRules` is
`POST /config` with a list; `Crash` starts again from the default rules.
`Start`, `Assign`, `Revoke` and `Commit` are Kafka's consumer group. The topic is a
log that is never cut, read at a position.

**FileScanner.** `WalkFile` and `ReceivePath` are one call of `process_file` each,
from the walk and from the channel; a scan that fails is logged, a send that fails
may have arrived. `DropWatcher` is notify's thread ending after `start_watcher` has
returned and dropped its local variable; `Return` is `main` after the channel has
no sender left. `Write` is whoever extracts files: a file is there before it is
whole, and a rule matches the whole one only. What the directory is read and what
the watcher sees of a write are choices.

**AlertResponse.** `Receive` is a round of the loop, which spawns a task; `Act` is an
action that returns, well or badly; `Commit` is the timer of `enable.auto.commit`,
done with or not; `Crash` ends the tasks and starts from the committed offset, or,
without one, at the end of the topic. How many actions an alert has for a service
is the constant `Actions`. Both services also read `correlated-alerts`. What the
correlator writes there has no `category`, which the orchestrator's `Alert`
demands, so the orchestrator skips it; the built-in playbooks that fire for the
scanner's alerts are those of a severity.

**The UI.** A step is one turn of the browser's loop: an event handler, a timer or an
answer, with the render it causes and the effects of that render, which React runs
before the next event. A request in flight is a member of a sequence, any of which
may answer next; what it carries is fixed when it is sent, and what the service
read is fixed when it reads. `late`, `overtaken`, `shown`, `asked`, `failed`,
`since` and their like are history. What a page displays is an operator
(`Rows`, `Table`, `AgentRows`, `FilteredEvents`), and actions on a row are guarded by it: nobody
clicks what is not shown, nor what a modal covers.

**SavedQueries.** `Mount` is the first render with its two effects, the one that reads
and the one that writes the empty list; `Loaded` is the render of what was read,
whose effect writes it back. Between them other windows run, or this one goes
(`Unmount`). `HandleSaveQuery`, `DeleteQuery`, `ToggleFavorite`, `LoadFromMenu` are the user's.

**Investigation.** `SetSearch` is the handler of every change of query or filter with
the effects that write the URL, filter the rows and arm the debounce;
`DebounceFires`, `Refresh` and `PressSearch` send a fetch; `LogsArrive` is its end,
with rows or with none when it failed. `FirstLogsArrive` is the same for the oldest
fetch, and what fairness speaks of.

**EventSearch.** `LoadSearch` shows a saved search and keeps, for the timer, the search that
was on the screen: `TimerFires` sends that one, which is what a closure of the render
before does. `HandleSaveSearch`, `SaveReturns` and `ListReturns` are the POST and the read of the
list that follows it, or does not.

**RuleLibrary.** `SetActiveTab` sends a load, of rules or of the file; `RulesArrive`,
`ContentArrives` and `ContentFails` are its ends, whatever tab is open by then. `SaveRules`
and `SaveEnds` are the request that stores it. The selection and the bulk operations (`BulkToolbar`,
`QuickActions`) work on what the page has, which never leaves it.

**IncidentBoard.** `SelectIncident` takes the copy, `HandleStatusChange` and `HandleAddComment`
write both; the incidents come from the generator `utils/mockIncidents.ts`, whose draw is
an input.

**ApiClient.** `Call`, `Resolves`, `Fails` with the kind of failure, `Retry` after the delay.
`applied` is how often the server has done it, `unheard` how often it has done so and the
client heard of a failure.

**LiveFeed.** `MessageArrives` adds a message to the hook's state, `RenderMessages` is the
render after one or several of them; `MockEvent` is the interval that makes events up;
`SetIsPaused` runs the effect again.

**EdgeManagement, LogViewer.** `FetchAgents` and `Fetching` are requests that nothing
cancels, with their answers and failures in any order. `FleetChanges` is the
coordinator's side, an input.

**Inventory.** Assets have the fields their score is computed from, with values that meet
each of its branches; counters are the service's where it has them, a zero counting
as none.

**AnalysisPanels.** The figures are left out; what stays is where each comes from, answer
by answer: the service, a placeholder, a default. `With`, `Then` and `Loaded` are the
setters of one answer.

**Shell.** `HandleTabChange` with what the tab unmounts; the settings panel is a modal that
covers the sidebar and cannot be closed, so only the palette leaves its tab, and the
timer of a save outlives it (`orphans`). Toasts are kept in the order they were added;
the id of one is the instant it was added at, and `Remaining` removes by id.

## 4. The runs

Each passing run checks invariants and temporal properties; each property has a
mutant of the code that breaks it. The bounds are constants whose names start
with `Max`, and the sizes of the sets.

| Run | Instance | Shows |
|---|---|---|
| `breaker_calls` | 3 callers, 2 that can be dropped, limit 2, timeout 1 (15 609 states) | `CircuitBreaker` implements `AtomicBreaker`; the cells agree whenever nobody is recording; the count stays below limit + callers; calls return; an open breaker with an instant recovers |
| `agent_safety` | 3 events, 2 priorities, room for 1 row, 1 restart, 2 seconds (2.1 M states up to symmetry) | no silent loss; backlog in order; duplicates have a cause |
| `agent_liveness` | 2 events, a buffer that evicts at the second row, 1 restart, batch sizes 1 and 2 (163 632 states) | `EdgeAgent` implements `EventDelivery`; the backlog drains |
| `correlator_crashes` | 3 alerts of one key, 2 instances, 1 failed call, 1 crash or rebalance, 1 window (1.8 M states up to symmetry) | `AlertCorrelator` implements `AlertGrouping`: published only when recorded, groups split only for a cause; counted once per delivery |
| `correlator_liveness` | 3 alerts of 2 keys, 2 instances, 1 failed call, 1 window (172 547 states) | no row mixes keys and every id in Redis is a row; after the failures every alert is recorded |
| `correlator_chain_rejected` | 1 instance, the query as it is written | no alert is correlated (section 6) |
| `rules_delivery` | 2 agents, 2 rules, 1 crash or rebalance, 1 posted list (275 504 states) | lists follow the topic; the topic follows the table; a rule published to an owned partition reaches an agent |
| `alerts_files` | 1 file, 2 starts after the first, 1 kill, 1 fault, the orchestrator with 2 actions and 1 crash (580 680 states) | `AlertResponse` implements `Mailbox`: every alert read is answered; repeats need a crash; a file that matches reaches the service |
| `scanner_new_files` | 2 files, nothing fails | a file written after the walk is not reported (section 6) |
| `ui_console` | 2 windows and 1 saved query; 2 logs, 1 filter, 2 fetches; 2 searches in flight; 2 kinds of rules, 2 loads; 2 incidents of 2 statuses; 1 request of 3 attempts; 5 chat messages (424 888 states) | saved queries are kept; rows, results, rules and the open incident are those of what is shown; a caller learns what happened; loading ends |
| `ui_monitor` | 2 messages and 3 events; 1 agent, 2 polls, 2 changes; 2 ranges, 2 logs, 2 reads; 4 assets; every panel; 2 toasts (535 000 states) | the feed is the stream; the table is the fleet; rows are of the range; counters are of the rows; panels have one source; toasts have their time |
| `investigation_no_pill` | 2 logs, a filter one types and one one chooses, 1 fetch | a filter without a pill hides all rows (section 6) |

*Why the bounds are enough.* The breaker's interesting cases need a caller in
`record_failure`, one in a reset and one that asks: three; a limit of 2
distinguishes "one below" from "at", a timeout of 1 "not yet" from "over". The
agent's order needs a sent row, an older one and one that arrives in between: three
events, two priorities and two seconds. A buffer with room for one or two rows is
already full when it must be; `EvictDivisor` stands for the 10 of `COUNT(*) / 10`
and is 2 or 1, since otherwise nothing is evicted below ten rows. A split group
needs two creators and a third alert that follows either. A rule is overtaken by
one other of its name. One crash suffices where a crash only returns to the initial
memory with the same store; a second one repeats the first from a state that is
already reached. The scanner's one file is absent, half written or whole when each
of three processes begins, and is the subject of several alerts; a second file
multiplies these states without a new one. In the browser two of a kind are what an
order needs: a fetch that answers after a later one, a message skipped by a render,
a window that writes between the two writes of another, a toast that shares the
instant of another. Three attempts make a lost answer that is repeated and a repeat
that fails too; the four assets' scores meet every branch of their computation, on
both sides of the badges' limits. The safety invariants of the five components
written in Rust and of the UI are proved without
the bounds (section 5).

Symmetry is used only in runs without fairness or liveness (a refinement without
fairness is a safety property), over sets whose members no
definition tells apart (`Events`, alerts of one key, `Instances`).

*Deadlock* is checked for the breaker, the agent and the pages of `ui_console`, which
never stop. The correlator and the rules stop when the finite supply of alerts, or of
calls, is used up, the scanner when its starts are, and a panel of `ui_monitor` when it
has loaded.

*Fairness*, and what in the code justifies it:

- Callers of the breaker keep calling (the forwarder task polls every five
  seconds, the Kafka loop never ends), an operation ends (each has a timeout), and
  tokio's `RwLock` grants its guard in the order of the requests. The guard is
  disabled again and again for one caller while others hold it, hence strong
  fairness of each caller's steps. Dropping a future is never fair.
- The agent's handlers run to their answer; the forwarder task wakes every five
  seconds (`TaskPop` is disabled whenever the agent goes offline: strong), its
  sends end within the producer's timeout; the DELETE, tried again and again,
  succeeds in the end (strong); the heartbeat fires; time passes for the breaker.
  Nothing is assumed of the network: `BacklogDrains` has its premise,
  `<>[](Reachable /\ registered)`, in the property.
- `recv` of rdkafka returns while there are messages, and every call of Redis,
  Postgres or Kafka returns, with an answer or an error. Failures, crashes,
  expiries and rebalances are never fair.
- Somebody gets a partition without an owner.
- The scanner's walk and loop go on (scans have a time limit, sends a timeout); the
  thread of a dropped watcher ends; the cluster starts the container again when it
  ended (`k8s/services/yara-scanner.yaml` is a Deployment; `docker-compose.yml` gives
  this service no restart policy and leaves it stopped). An action of a playbook need never
  return, since its HTTP client has no timeout: nothing is assumed of `Act`.
- In the UI, timers fire, and a fetch is answered or fails in the end: the client of
  `ui/src/services/api.ts` has a timeout of ten seconds, and elsewhere the browser ends a
  connection that is gone. `ConsoleFairness` says so with two conditions, `DebounceFires`
  and `AnswersArrive`, the second of the oldest request of the page the behaviour is of.
  A poll, a click or a message is never fair.

## 5. The proofs

Eight modules hold theorems, for any finite sets of callers, events, instances and
agents, any files, services, requests, windows, queries, filters, logs, rules and
assets, and any value of the bounds. The assumptions are the named `ASSUME` of each
module (`BreakerAssumption`, `AgentAssumption`, `CorrelatorAssumption`,
`DistributionAssumption`, `ScannerAssumption`, `ResponseAssumption`, and one of this
kind in each module of the UI that declares constants): that sets are finite where
cardinalities matter, that the marker values are not members, that limits are natural
numbers, that the values a page starts with are among those it may have. One says more: the
rule file is not blank when the page is first opened (`RuleLibraryAssumption`).

**CircuitBreakerProofs.** `TypeCorrect`. `GuardHeldByWriter`: `writer` is the one
caller that stands at a write (`GuardInv`), so two callers are never between the
two writes. `CellsAgree`: `CountAndInstantAgree` speaks of the moments when nobody
holds the guard, so it is not inductive; `CellsInv` adds what holds while somebody
does: a caller at `failure_stamp` accounts for one failure that has no instant yet.
`CountStaysBounded`: the count grows only through callers that saw it below the
limit and are on their way; `InFlightInv` bounds the count *plus* those callers,
and the bound moves from one term to the other. `ImplementsAtomicBreaker`: the flag is
`failure_count >= max_failures`, and each operation takes effect at one of its awaits:
the question at the read of the count, the reset and the success at the write of both
cells, the failure at its increment. A success that finds the count zero writes nothing
and yet leaves the breaker closed, which needs `CellsInv`: no count, no instant.
`Progress` maps the eleven awaits to the eight places a caller can be at; dropping a
future maps to `Leave` from any of them.

**EdgeAgentProofs.** `TypeCorrect`. `NothingLostSilently` and `DuplicatesExplained`
follow from `ProvenanceInv`, which also says where the rows of the forwarder's
batch and the ids it has sent are: every id to be deleted is in Kafka, whatever
handlers evict meanwhile. `BacklogKeepsOrder` follows from `OrderInv`: the rows of
a batch come before those left behind, the ones sent before the ones still to
send, and a row inserted meanwhile is not of an earlier second.
`ImplementsDelivery` is the refinement: the initial states map to the initial state
of `EventDelivery`, and each action maps to one of its steps or to a stutter
(`Insert` to `AcceptHeld`, `ForwardOk` to `AcceptDelivered`, sends and failures
that arrived to `Deliver`, `Evict` to `Drop`).

**AlertCorrelatorProofs.** `TypeCorrect`. `GroupsSound` and `PublishedRecorded`
follow from `IdsInv`: wherever a row id travels, in the memory of an instance or in
Redis, it is a row of the key it travels for, and from `update` or `create` on that
row holds the alert. Rows only grow, so what an instance remembers stays true
across the calls of the others, which is the point: the id is used long after it
was read. `CountedPerRead` follows from `CountInv`, which counts the rows that hold an
alert *and* the instances that are still to write it: together they never exceed its
reads, and a write moves one from the second to the first. `SplitsCaused` needs two
bounds in `SplitInv`: the rows of a key and the instances on their way to create one are
at most one more than its expiries and causes, and no more than these while Redis
names none and nobody is making one. The second is what a lookup that finds nothing
relies on. Both rest on lemmas about the cardinality of a set that gains or
loses one member. `ImplementsGrouping`: the reading is in hand until the statement that
writes it, and counted from then until the producer has it. `Update` maps to `Count`,
`Create` to `Begin`, every call that gives up before a write to `Lose` and after one to
`Publish`, each perhaps with a reason; the other calls stutter. That `Count` joins
a group of the alert's key is `IdsInv` again, and that `Begin` has a reason is `SplitInv`,
so that `PublishedAreRecorded` and `SplitsHaveACause` are both consequences of the one
refinement, which is what TLC checks.

**RuleDistributionProofs.** `TypeCorrect`, in particular that offsets stay within
the topic. `ListFollows` is inductive with the types: a message replaces the rule of
its name, and other agents' messages and rows are never rewritten.
`TopicFollows` needs `AnnouncedInv`: for a name none of whose calls overlapped or
failed, a message under way is of the newest row of the name, and each row whose
call has ended is announced, that is, the last message about its name is at least
as new. The first part is what makes a late message harmless.

**AlertResponseProofs.** `TypeCorrect`; the topic only grows (`Grows`), which keeps
positions and tasks of the services well typed while the scanner works.
`AlertsAnswered` needs `CommittedIsRead`: what a group has committed its service has
read. Without it a crash could take a service forward past alerts that have no task;
with it, it goes back to alerts that have one, or, without an offset, to the end of
the topic, which `passed_over` records. `RepeatsAfterCrashes` counts the tasks of a
service for a message (`RepeatInv`): at most one for each crash, and one more once the
position is past it; a crash takes the position back and pays for the next read.
`ImplementsMailbox`: `Receive` maps to `Take`, `Commit` to `Mark`, a publication of the
scanner to `Post`, and `Act` to `Finish` when it was the last action and to nothing
otherwise; a task that ended with an action untried would map to a state `Mailbox` does
not have. `Crash` maps to `GoBack`, which needs `CommittedIsRead`, or to `StartAtTheEnd`.
`EveryAlertIsAnswered` is what the refinement says step by step, so TLC checks the latter.

**AnswerLemmas.** What an answer leaves of the requests in flight: those sent later, as
they were, and those sent before, overtaken (`AnswerLeaves`). So the newest request
stays the newest until it is answered itself, and then all that are left are overtaken
(`NewestStays`); and a request is overtaken with every one sent before it
(`AnswerKeepsOrder`).

**ConsoleProofs.** The parts of `Console`, and `Console`.

- `QueriesKept` needs `OneCopy`: as long as no two windows shared the store and no mount
  was cut short, one window at most is open, and the list is in exactly one place, the
  store, the window's queue, or the window and the store alike. Its types need
  `SavedTyped`: a list holds each query once and none from the future, so a new id is new
  in every window, and what `filter` removes is in one place.
- `RequestsTyped`, and `DelayBounded` within it: a delay stays within its limits.
  `OutcomesTrue` follows from `RequestInv`, which relates what the server did, what was
  lost and the attempt, in each phase: while a request is under way all it did was lost,
  and one the server has rejected has failed.
- `RowsOfSearch`, `SearchAnswered`, `PageOfTab`: each invariant speaks of a page with
  nothing in flight, so it says nothing of the state before the last answer. What is
  inductive is that the newest request in flight, unless a later one has been answered, is
  of what the page is set to (`InvestigationInv`, `NewestAsked`, `TabInv`). Its answer
  makes the page right; an answer it has overtaken makes the page `late`, which the
  properties name. `NewestReads` is the same of the list of saved searches: what was
  acknowledged is in what the newest read will bring. `BlankInv` follows a blank content
  from the editor to the save, the file and the loads that read it.
- `DetailOfTheBoard`: the open incident and the card are changed by the same handlers, but
  not alike, so `BoardInv` relates the two timelines by what they share: the comments, by
  number, and the order of their lengths. A board that is loaded stays loaded, and its
  incidents keep their places.
- `ChatSays` is the type of the chat; whose turn it is follows from the guards alone.
- `ConsoleKeepsItsPromises`: the type invariant and the six invariants of the composition. A step of `Console` is a step of each part or leaves it as it
  is (`ConsoleSteps`), so what is proved of a part holds of the composition.

**MonitorProofs.** In the same way for the parts of `Monitor` and their composition
(`MonitorKeepsItsPromises`).

- `RowsInRange` and `FleetShown` use the newest fetch again: it is of the range that is
  set, and it reads nothing the coordinator had only before the last fetch.
- `FeedInOrder` needs that no event is of a later message than the last one processed
  (`FeedOrder`), so that a render, which processes a later one, adds the newest; the same
  one is processed again only where the feed was resumed at it.
- `CountersRight` needs what the service counted apart from what the page computed
  (`CountersOver`), and that the score of a row stays between 0 and 100 (`RiskScore`).
- `ToastsLast` needs that the id of a toast is the instant it was added at (`ToastInv`):
  only then does removal by id take no toast of another instant. Toasts are indexed by the
  order they were added in, so adding one disturbs none. The type of the desk needs that a
  save under way leaves room for its toast (`DeskInv`).
- `OneSourcePerPanel`: a panel that awaits an answer may hold pieces of two sources, so the
  invariant (`Panel`) says what each answer still to come finds in place: nothing yet, or
  the placeholders that were set just before.

## 6. Where the code and its documents disagree

Three runs end in a counterexample to something the repository says.

- `correlator_chain_rejected`: the SQL of `find_related_alerts` applies `->>` to a
  text; the error ends the treatment of each alert that needs a row. `docs/API.md:65`:
  "Get correlated alerts with deduplication".
- `scanner_new_files`: `start_watcher` drops the watcher it made when it returns, so
  `main` ends after the walk. `services/rust-yara-scanner/src/main.rs:61`: "Process
  new files". `FindingsReachServices` shows that restarts make up for it.
- `investigation_no_pill`: the X of a pill sets its filter to "all". For a filter
  that is chosen this is no filter; one that is typed is compared with every
  address, so no row is left, and neither is the pill: its X is gone with it.
  `ui/src/components/FilterBar.tsx:145`: "standardized to 'all' usually resets". In TLC's
  shortest trace the "all" comes with a saved query that was stored after such a click.

Seen while modelling, visible in the models, and without a run of their own: the
breaker has no half-open state, so all callers go through after a reset, and a
reset decided on an instant read earlier also clears failures recorded since;
eviction is by age and ignores the priority that forwarding obeys; a failed call of
Redis splits a group, and so do two instances that look a key up before either has
named its row (`SplitsHaveACause` counts both as causes); calls dropped between the
two writes of `record_failure` can open the breaker without an instant, so that no
time closes it (`CountAndInstantAgree` counts them); a deleted rule stays with the agents; a restarted agent has
only the default rules. The size `cleanup_if_full` compares is that of the file, so
after one backlog over the limit every push deletes a tenth of what is there
(`services/rust-edge-agent/src/buffer.rs:127`, while
`docs/EDGE_DEPLOYMENT_SCENARIOS.md:48` says "Zero data loss during internet outages").
`main` registers once: if the coordinator was away then, each heartbeat is answered 404
and keeps the agent offline, which is why `BacklogDrains` assumes a registration
(`main.rs:130`; `docs/EDGE_DEPLOYMENT.md:292`: "Events should automatically forward").
All agents are one consumer group, so a rule reaches one of them, and
`RuleReachesAnAgent` promises no more (`main.rs:565`;
`services/rust-edge-coordinator/README.md:8`: "Push configuration updates (sampling
rates, rules) to agents").

In the UI:

- Rules. Those loaded from the library are gone after any change of tab; switching a
  rule on or off never reaches the server; "Add Rule" and "Edit" have no handler. Save
  before a load has brought the file's content stores a blank one (`PageIsOfItsTab` names
  this as the one way to blank it, but for the user's).
- Incidents. A comment being typed is still there in the next incident; a change of
  status appears in the board's timeline and not in the open one's, although
  `docs/USER_GUIDE.md:94` says "View the history of the incident, including when it was
  created and status changes". `DetailIsTheIncident` allows for exactly that. "New
  Incident" has no handler.
- Requests. Every method is repeated, so a POST whose answer was lost is done again.
  Routes with an empty answer fail to parse it, and so are always sent three times.
- Event search. A saved search that is chosen shows one search and sends another.
- Edge management. The "Offline" card counts agents that are degraded; the end of a poll
  clears the flag of a manual refresh; the dialog is a snapshot that no poll renews.
- Log viewer. Clearing a filter does not fetch: what the server left out stays out.
- Panels. Those of files, TLS, DNS and threats call methods that always throw, so the
  branches of "Use real data from API" (`ui/src/components/SSLAnalysis.tsx:101`) are
  never taken; the operations centre shows placeholder charts beside figures of the
  service and takes zero open criticals for none given; top talkers are always
  placeholders; the header of the sensors' page is constant; zero statistics of assets
  are replaced by computed ones.
- Shell. A click writes `?tab=` to the address, which is never read: a reload takes the tab
  from the path. The palette offers
  tabs (overview, threats, assets, sensors), and the sidebar others (playbooks, settings), that
  `Dashboard` has no body for; an arrow key while nothing matches makes the palette's
  index `NaN`, and Enter does nothing until it is closed or a command is pointed at;
  the settings panel covers the sidebar, cannot be closed, and its Save saves nothing.

## 7. What is only model-checked, and what is not modelled

Only model-checked, because liveness and ENABLED are out of the prover's reach:
`CallsReturn`, `BreakerRecovers`, `BacklogDrains`, `AlertsGetRecorded`,
`RuleReachesAnAgent`, `FindingsReachServices`, `LoadingEnds`, and what the three runs of
section 6 refute. Every other property a run checks, invariant or refinement, is a theorem,
and so are three that follow from a refinement (`PublishedAreRecorded`,
`SplitsHaveACause`, `EveryAlertIsAnswered`). What is filtered (an incident board, a feed,
a list of queries) is modelled as a set of positions or by `RemoveAt` and not by `SelectSeq`, a recursive
definition about which nothing could be proved.

Left out of the modelled components: `with_retry` of the breaker's crate and
`forward_event` of the agent, which nothing calls; metrics and health handlers; the
contents of events, and so which rule grades an event (any priority may result);
`batch_size` 0, with which nothing is ever forwarded; the queue of the lock around
the forwarder (`update_config` is one step that waits until nobody reads); the
score stored with a row and `update_severity`; the order of a rule list; the limit of the scanner's channel, which only delays the
watcher's thread; the content of files and alerts, and so which rule or playbook
fits (any may: the number of actions is a constant).

Left out of the UI's modelled pages: layout, wording, figures, expanded rows, tooltips and
exports; the search text of menus and tables, where it is one more filter; the time
range of a search, which only the server reads. `AdvancedDetection`, `LogViewer`,
`RealTimeFeed` and `SensorManagement` are modelled although no route mounts them at this
commit: their code is complete, unlike that of the pages below.

Not modelled, of the UI: `pages/Alerts.tsx`, `pages/Playbooks.tsx` and
`components/AlertModal.tsx`, whose first render throws for a name that is not defined;
`App.tsx`, which imports names twice; `EventTicker`, which calls a method the client does
not have; `useColumnPreferences`, `ThreatHunting` and `Login`, which nothing mounts; the
maps and charts, which draw what they are given.

Not modelled, of the services: what section 2 lists without a module in section 3. Hazards of
code that is modelled or not, which no property covers and `PROJECT.json` does not list:

- `COUNT(*) / 10` is zero below ten rows, so a full buffer of large events evicts nothing
  (`rust-edge-agent/src/buffer.rs:139`); a `batch_size` of zero forwards nothing
  (`forwarder.rs:59`); the forwarder's read guard is held over a batch of sends
  (`main.rs:539`); received rules are lost at a restart while their offset is committed
  (`main.rs:604`); an updated rule moves to the end of a list whose first match wins
  (`detector.rs:52`).
- Nothing sets an agent offline, and a heartbeat reads the configuration before it updates
  the row (`rust-edge-coordinator/src/health_monitor.rs:29`, `:32`).
- The sensor drops the future of its send (`rust-sensor/src/main.rs:170`); a batch that
  fails half way is answered 500 after its first events were sent
  (`rust-ingestion-gateway/src/main.rs:144`); the domain's score is a `u8`, and its status
  transitions are methods nothing guards against concurrent use (`crates/ndr-core`).
- The hooks of `ui/src/utils/hooks.ts:80` poll without waiting for the last answer; the
  pages that are mounted have timers of their own.

Not to be modelled: the AI service, the shared crates, the test tools and the
deployment files, which have no behaviour of their own to check, and cryptography.

## 8. The plan

Done, in this order: `CircuitBreaker`, `EdgeAgent` with `EventDelivery`,
`AlertCorrelator`, `RuleDistribution`, `FileScanner` with `AlertResponse`; the UI's pages and
hooks in `Console` and `Monitor`; the abstract specifications of four components with their
refinements; the proofs of all invariants and refinements.

What is left, the most consequential first:

1. Proofs: a specification of `RuleDistribution` as agents that replay a log, refined; action
   properties of the pages (what an answer may never overwrite).
2. `AlertPipeline`: producers and consumers of `security-alerts` and
   `correlated-alerts` with the schema each writes and accepts, around
   `AlertResponse`: sensor, parser and normaliser, correlator (as the abstract step
   "record, then publish"), asset service. Properties: what is acted on was raised; a
   critical alert is acted on in the end, or the schema is to blame.
3. `EdgeFleet`: registration, heartbeats, status and configuration between the
   coordinator and agents that come and go. Property: the configuration that an
   agent is told was set for it, and is not older than one it was told before.
4. `FlowTracker`: the sensor's table of flows with expiry by packet time, the anomaly
   counters, rotation of capture files. Properties: each packet is counted in one
   flow; a file never exceeds its limit by more than one packet.
5. `SensorController` with the sensors' agents, `AuthService`, `AlertLifecycle` (status
   transitions, the score as a bounded integer, against a reference definition),
   `DashboardFanout`, which would meet `LiveFeed` at the socket, and `IngestionGateway`.

Abstract specifications: the four of section 3 are stated and refined. To come: `Mailbox`
around the rule updates of the agents, and between the producers and consumers that
`AlertPipeline` would add.
