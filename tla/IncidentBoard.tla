----------------------------- MODULE IncidentBoard -----------------------------
(***************************************************************************)
(* The incident board, ui/src/components/IncidentBoard.tsx: a column per   *)
(* status, and the detail of one incident.  The detail is a second copy of *)
(* the incident, taken when its card is clicked; every handler changes     *)
(* both.  Nothing leaves the browser: a new mount has the built-in         *)
(* incidents again.                                                        *)
(***************************************************************************)
EXTENDS Naturals, Sequences, FiniteSets

CONSTANTS
  Incidents,
  Statuses,   \* "New", "Investigating", "Resolved", "False Positive"
  MaxTimeline \* bound: items of a timeline

ASSUME IncidentBoardAssumption ==
  /\ {"New", "Investigating"} \subseteq Statuses
  /\ "all" \notin Statuses
  /\ MaxTimeline \in Nat

VARIABLES
  incidents,        \* the incidents of the board, once they are loaded
  selectedIncident, \* the copy in the detail, if one is open
  newComment,       \* what is typed: "", a blank text or a note
  filterStatus

incidentBoardVars == <<incidents, selectedIncident, newComment, filterStatus>>

IncidentBoardInit ==
  /\ incidents = <<>>
  /\ selectedIncident = {}
  /\ newComment = ""
  /\ filterStatus = "all"

\* The built-in incidents; what their timelines begin with is left out.
LoadIncidents ==
  /\ incidents = <<>>
  /\ \E status \in [Incidents -> Statuses] :
       incidents' = [i \in Incidents |-> [id |-> i, status |-> status[i], timeline |-> <<>>]]
  /\ UNCHANGED <<selectedIncident, newComment, filterStatus>>

FilteredIncidents ==
  {i \in DOMAIN incidents : filterStatus \in {"all", incidents[i].status}}

BoardView == selectedIncident = {}

SetFilterStatus(status) ==
  /\ BoardView
  /\ filterStatus' = status
  /\ UNCHANGED <<incidents, selectedIncident, newComment>>

\* A card is clicked.
SelectIncident(i) ==
  /\ BoardView
  /\ i \in FilteredIncidents
  /\ selectedIncident' = {incidents[i]}
  /\ UNCHANGED <<incidents, newComment, filterStatus>>

\* What was typed stays, for the next incident that is opened.
BackToBoard ==
  /\ ~BoardView
  /\ selectedIncident' = {}
  /\ UNCHANGED <<incidents, newComment, filterStatus>>

Logged(incident, item) == [incident EXCEPT !.timeline = <<item>> \o @]

HasRoom(i) == Len(incidents[i].timeline) < MaxTimeline

\* Mutant: the open detail keeps its status.
HandleStatusChangeOnBoard(status) == \E open \in selectedIncident :
  /\ status # open.status /\ HasRoom(open.id)
  /\ incidents' = [incidents EXCEPT ![open.id] =
                     Logged([@ EXCEPT !.status = status], "status_change")]
  /\ UNCHANGED <<selectedIncident, newComment, filterStatus>>

\* The select of the detail; the open copy is given the status, not the item.
HandleStatusChange(status) == \E open \in selectedIncident :
  /\ status # open.status /\ HasRoom(open.id)
  /\ incidents' = [incidents EXCEPT ![open.id] =
                     Logged([@ EXCEPT !.status = status], "status_change")]
  /\ selectedIncident' = {[open EXCEPT !.status = status]}
  /\ UNCHANGED <<newComment, filterStatus>>

TypeComment(text) ==
  /\ ~BoardView
  /\ newComment' = text
  /\ UNCHANGED <<incidents, selectedIncident, filterStatus>>

\* Enter, or the button; neither does anything with a blank text.
HandleAddComment == \E open \in selectedIncident :
  /\ newComment = "note" /\ HasRoom(open.id)
  /\ incidents' = [incidents EXCEPT ![open.id] = Logged(@, "comment")]
  /\ selectedIncident' = {Logged(open, "comment")}
  /\ newComment' = ""
  /\ UNCHANGED filterStatus

IncidentBoardNext ==
  \/ LoadIncidents \/ BackToBoard \/ HandleAddComment
  \/ \E status \in {"all", "New", "Investigating"} : SetFilterStatus(status)
  \/ \E i \in Incidents : SelectIncident(i)
  \/ \E status \in Statuses : HandleStatusChange(status)
  \/ \E text \in {"", "blank", "note"} : TypeComment(text)

IncidentBoardSpec == IncidentBoardInit /\ [][IncidentBoardNext]_incidentBoardVars

-----------------------------------------------------------------------------
(* Properties.                                                             *)

Incident == [id : Incidents, status : Statuses,
             timeline : Seq({"status_change", "comment"})]

IncidentBoardTypeOK ==
  /\ incidents = <<>> \/ incidents \in [Incidents -> Incident]
  /\ selectedIncident \subseteq Incident
  /\ newComment \in {"", "blank", "note"}
  /\ filterStatus \in Statuses \union {"all"}

Comments(timeline) == {k \in DOMAIN timeline : timeline[k] = "comment"}

\* The open incident is that of the board, whatever was done since its card
\* was clicked: its status, its comments, and a timeline that lacks no item but
\* the changes of status made while it was open.
DetailIsTheIncident == \A open \in selectedIncident :
  LET onBoard == incidents[open.id] IN
  /\ open.status = onBoard.status
  /\ Cardinality(Comments(open.timeline)) = Cardinality(Comments(onBoard.timeline))
  /\ Len(open.timeline) <= Len(onBoard.timeline)
=============================================================================
