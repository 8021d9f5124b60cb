----------------------------- MODULE EdgeManagement -----------------------------
(***************************************************************************)
(* The page of the edge agents, ui/src/components/EdgeManagement.jsx: it   *)
(* polls the coordinator's list every 30 s, and when Refresh is pressed,   *)
(* without waiting for one answer before it asks again, and shows a        *)
(* snapshot of one agent in a dialog.                                      *)
(***************************************************************************)
EXTENDS Naturals, FiniteSets, Sequences, SequencesExt

CONSTANTS
  EdgeAgents,
  MaxPolls,  \* bound: fetches in flight
  MaxChanges \* bound: changes of the coordinator's list

ASSUME EdgeManagementAssumption == {MaxPolls, MaxChanges} \subseteq Nat

VARIABLES
  fleet, \* the coordinator's list: the status of each agent that is registered
  edge   \* the state of the page

edgeVars == <<fleet, edge>>

AgentStatus == {"online", "offline", "degraded"}
Fleets == UNION {[registered -> AgentStatus] : registered \in SUBSET EdgeAgents}

Fetch(manual) == [manual |-> manual, reads |-> {fleet.agents}, overtaken |-> FALSE]

\* The mount fetches, and arms the interval.
EdgeManagementInit ==
  \E agents \in Fleets :
    /\ fleet = [agents |-> agents, changes |-> 0]
    /\ edge = [agents |-> <<>>, loading |-> TRUE, refreshing |-> FALSE, error |-> FALSE,
               selectedAgent |-> {}, pending |-> <<[manual |-> FALSE, reads |-> {agents},
                                                    overtaken |-> FALSE]>>,
               since |-> {agents}, late |-> FALSE, failed |-> FALSE, opened |-> "none"]

\* Agents register and change their status while answers are under way.
FleetChanges ==
  /\ fleet.changes < MaxChanges
  /\ \E agents \in Fleets \ {fleet.agents} :
       /\ fleet' = [agents |-> agents, changes |-> fleet.changes + 1]
       /\ edge' = [edge EXCEPT !.since = @ \union {agents},
            !.pending = [i \in DOMAIN edge.pending |->
                           [edge.pending[i] EXCEPT !.reads = @ \union {agents}]]]

FetchAgents(manual) ==
  /\ Len(edge.pending) < MaxPolls
  /\ edge' = [edge EXCEPT !.refreshing = @ \/ manual,
                !.pending = Append(@, Fetch(manual)), !.since = {fleet.agents}]
  /\ UNCHANGED fleet

\* The interval.
Poll == FetchAgents(FALSE)

Shown == ~edge.loading

\* The button, disabled while refreshing.
HandleRefresh == Shown /\ ~edge.refreshing /\ FetchAgents(TRUE)

\* An answer, good or bad, ends the spinner of whichever fetch it is not, too.
Settled(i) ==
  LET fetches == edge.pending IN
  [edge EXCEPT !.loading = FALSE, !.refreshing = FALSE,
     !.late = fetches[i].overtaken,
     !.pending = RemoveAt([j \in DOMAIN fetches |->
         IF j < i THEN [fetches[j] EXCEPT !.overtaken = TRUE] ELSE fetches[j]], i)]

AgentsArrive(i) ==
  /\ \E agents \in edge.pending[i].reads :
       edge' = [Settled(i) EXCEPT !.agents = agents, !.error = FALSE, !.failed = FALSE,
                  !.opened = IF @ = "none" THEN @ ELSE "before"]
  /\ UNCHANGED fleet

\* Mutant: only a good answer ends the spinner.
AgentsFailSpinning(i) ==
  /\ edge' = [Settled(i) EXCEPT !.refreshing = edge.refreshing, !.error = TRUE,
                !.failed = TRUE]
  /\ UNCHANGED fleet

\* The list that was shown stays, under an error.
AgentsFail(i) ==
  /\ edge' = [Settled(i) EXCEPT !.error = TRUE, !.failed = TRUE]
  /\ UNCHANGED fleet

DismissError ==
  /\ Shown /\ edge.error
  /\ edge' = [edge EXCEPT !.error = FALSE]
  /\ UNCHANGED fleet

\* The colour of a status, and with it the icon; one the code does not know is "default".
GetStatusColor(status) ==
  CASE status = "online" -> "success"
    [] status = "offline" -> "error"
    [] status = "degraded" -> "warning"
    [] OTHER -> "default"

\* The rows of the table; the chip of a row has the colour of its status.
AgentRows == IF Shown
  THEN {[agent |-> a, status |-> edge.agents[a], chip |-> GetStatusColor(edge.agents[a])] :
          a \in DOMAIN edge.agents}
  ELSE {}

\* A row, or its button, is clicked; the dialog covers the page.
HandleAgentClick(row) ==
  /\ edge.selectedAgent = {}
  /\ edge' = [edge EXCEPT !.selectedAgent = {row}, !.opened = "since"]
  /\ UNCHANGED fleet

HandleCloseDetails ==
  /\ edge.selectedAgent # {}
  /\ edge' = [edge EXCEPT !.selectedAgent = {}, !.opened = "none"]
  /\ UNCHANGED fleet

EdgeManagementNext ==
  \/ FleetChanges \/ Poll \/ HandleCloseDetails
  \/ \E i \in DOMAIN edge.pending : AgentsArrive(i) \/ AgentsFail(i)
  \/ \E row \in AgentRows : HandleAgentClick(row)
  \/ edge.selectedAgent = {} /\ (HandleRefresh \/ DismissError)

EdgeManagementSpec == EdgeManagementInit /\ [][EdgeManagementNext]_edgeVars

-----------------------------------------------------------------------------
(* Properties.                                                             *)

AgentRow == [agent : EdgeAgents, status : AgentStatus,
             chip : {"success", "error", "warning", "default"}]

EdgeManagementTypeOK ==
  /\ fleet \in [agents : Fleets, changes : 0 .. MaxChanges]
  /\ edge.agents \in Fleets
  /\ {edge.loading, edge.refreshing, edge.error, edge.late, edge.failed} \subseteq BOOLEAN
  /\ edge.selectedAgent \subseteq AgentRow
  /\ edge.pending \in Seq([manual : BOOLEAN, reads : SUBSET Fleets, overtaken : BOOLEAN])
  /\ edge.since \subseteq Fleets
  /\ edge.opened \in {"none", "since", "before"}

\* With no fetch in flight, the page shows what the coordinator had at some
\* moment since the last fetch was sent, unless the last answer was a failure,
\* or came after that of a later fetch.  The Refresh button turns only while
\* a fetch it has sent is in flight, and the dialog shows a row of the table
\* unless an answer has come since it was opened.
FleetIsShown ==
  /\ edge.pending = <<>> => edge.late \/ edge.failed \/ edge.agents \in edge.since
  /\ edge.refreshing => \E i \in DOMAIN edge.pending : edge.pending[i].manual
  /\ edge.opened = "since" => edge.selectedAgent \subseteq AgentRows
=============================================================================
