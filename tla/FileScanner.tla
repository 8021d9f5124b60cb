------------------------------ MODULE FileScanner ------------------------------
(***************************************************************************)
(* services/rust-yara-scanner: main starts a watcher on the directory of   *)
(* extracted files, scans the files that are there, and then the files     *)
(* whose paths the watcher sends; a file that a rule matches is reported   *)
(* on the topic security-alerts.                                           *)
(*                                                                         *)
(* Only files that some rule matches are modelled, and a rule matches the  *)
(* whole file only.  The channel of notify and the bounded one of tokio    *)
(* are one queue: a full channel delays the watcher's thread, which has    *)
(* nothing else to do, until main reads.  Two events for a path that is    *)
(* still queued are one.                                                   *)
(***************************************************************************)
EXTENDS Integers, Sequences, FiniteSets

CONSTANTS
  Files,
  MaxStarts, \* bound: starts of the process after the first
  MaxKills,  \* bound: times it is killed
  MaxFaults  \* bound: scans and sends that fail

ASSUME ScannerAssumption ==
  MaxStarts \in Nat /\ MaxKills \in Nat /\ MaxFaults \in Nat

VARIABLES
  content,   \* what the directory has of each file
  phase,     \* where main is
  unwalked,  \* the files WalkDir has still to come to
  watching,  \* the watch on the directory exists
  queue,     \* the paths sent by the watcher
  alerts,    \* security-alerts, as the files reported
  starts, kills, faults

process == <<phase, unwalked, watching, queue>>
scanner == <<content, process, alerts, starts, kills, faults>>

ScannerInit ==
  /\ content \in [Files -> {"absent", "whole"}]
  /\ phase = "walking"
  /\ unwalked = {f \in Files : content[f] # "absent"}
  /\ watching = TRUE
  /\ queue = {}
  /\ alerts = <<>>
  /\ starts = 0 /\ kills = 0 /\ faults = 0

\* Somebody writes a file.  The watcher hears of it if it is still there, and
\* WalkDir, which reads the directory as it goes, may or may not see it.
Write(f) ==
  /\ \/ content[f] = "absent" /\ content' = [content EXCEPT ![f] = "partial"]
     \/ content[f] = "partial" /\ content' = [content EXCEPT ![f] = "whole"]
  /\ queue' \in {queue} \union (IF watching THEN {queue \union {f}} ELSE {})
  /\ unwalked' \in {unwalked} \union
       (IF phase = "walking" /\ content[f] = "absent" THEN {unwalked \union {f}} ELSE {})
  /\ UNCHANGED <<phase, watching, alerts, starts, kills, faults>>

\* process_file.  An error of the scan is logged; one of the send is not even
\* looked at, and the alert may have arrived.
ProcessFile(f) ==
  IF content[f] = "whole"
    THEN \/ alerts' = Append(alerts, f) /\ UNCHANGED faults
         \/ /\ faults < MaxFaults /\ faults' = faults + 1
            /\ alerts' \in {alerts, Append(alerts, f)}
    ELSE UNCHANGED <<alerts, faults>>

WalkFile(f) ==
  /\ phase = "walking" /\ f \in unwalked
  /\ unwalked' = unwalked \ {f}
  /\ ProcessFile(f)
  /\ UNCHANGED <<content, phase, watching, queue, starts, kills>>

EndWalk ==
  /\ phase = "walking" /\ unwalked = {}
  /\ phase' = "receiving"
  /\ UNCHANGED <<content, unwalked, watching, queue, alerts, starts, kills, faults>>

\* rx.recv() returns a path.
ReceivePath(f) ==
  /\ phase = "receiving" /\ f \in queue
  /\ queue' = queue \ {f}
  /\ ProcessFile(f)
  /\ UNCHANGED <<content, phase, unwalked, watching, starts, kills>>

\* start_watcher returns, and its local variable watcher goes out of scope:
\* notify's thread removes the watch and hangs up.
DropWatcher ==
  /\ watching
  /\ watching' = FALSE
  /\ UNCHANGED <<content, phase, unwalked, queue, alerts, starts, kills, faults>>

\* The sender is gone with the watcher's task, so rx.recv() returns None, and
\* main returns.
Return ==
  /\ phase = "receiving" /\ ~watching /\ queue = {}
  /\ phase' = "stopped"
  /\ UNCHANGED <<content, unwalked, watching, queue, alerts, starts, kills, faults>>

Kill ==
  /\ phase # "stopped"
  /\ kills < MaxKills /\ kills' = kills + 1
  /\ phase' = "stopped" /\ unwalked' = {} /\ queue' = {} /\ watching' = FALSE
  /\ UNCHANGED <<content, alerts, starts, faults>>

\* Mutant: the walk is left out because the watcher is there.
StartWithoutWalk ==
  /\ phase = "stopped"
  /\ starts < MaxStarts /\ starts' = starts + 1
  /\ phase' = "walking" /\ unwalked' = {}
  /\ watching' = TRUE
  /\ UNCHANGED <<content, queue, alerts, kills, faults>>

\* Kubernetes starts the container again.
Start ==
  /\ phase = "stopped"
  /\ starts < MaxStarts /\ starts' = starts + 1
  /\ phase' = "walking" /\ unwalked' = {f \in Files : content[f] # "absent"}
  /\ watching' = TRUE
  /\ UNCHANGED <<content, queue, alerts, kills, faults>>

ScannerNext ==
  \/ \E f \in Files : Write(f) \/ WalkFile(f) \/ ReceivePath(f)
  \/ EndWalk \/ DropWatcher \/ Return \/ Kill \/ Start

\* main goes on, the dropped watcher's thread ends, and the pod is restarted.
ScannerFairness ==
  /\ WF_scanner(\E f \in Files : WalkFile(f) \/ ReceivePath(f))
  /\ WF_scanner(EndWalk) /\ WF_scanner(DropWatcher)
  /\ WF_scanner(Return) /\ WF_scanner(Start)

ScannerSpec == ScannerInit /\ [][ScannerNext]_scanner /\ ScannerFairness

-----------------------------------------------------------------------------
ScannerTypeOK ==
  /\ content \in [Files -> {"absent", "partial", "whole"}]
  /\ phase \in {"walking", "receiving", "stopped"}
  /\ unwalked \subseteq Files /\ queue \subseteq Files
  /\ watching \in BOOLEAN
  /\ alerts \in Seq(Files)
  /\ starts \in Nat /\ kills \in Nat /\ faults \in Nat

\* "Process new files" (main.rs): a file that is completed while the scanner runs,
\* which nobody kills, is reported.
NewFilesAreReported ==
  \A f \in Files :
    (content[f] = "whole" /\ phase # "stopped") ~> \E m \in 1 .. Len(alerts) : alerts[m] = f
=============================================================================
