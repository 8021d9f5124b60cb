----------------------------- MODULE SavedQueries -----------------------------
(***************************************************************************)
(* The saved queries of the investigation page: the hook                   *)
(* ui/src/hooks/useSavedQueries.ts, the menu SavedQueriesMenu and the save *)
(* dialog, in several browser windows over one localStorage.               *)
(*                                                                         *)
(* A mount renders with an empty list; its effects read the store, queue   *)
(* what they read as the next state, and then write the empty list.  The   *)
(* render of the queued state writes the list back.  An event handler and  *)
(* the effects of its render are one step: React flushes them before the   *)
(* next event.  Nobody clicks before the first list is rendered.           *)
(***************************************************************************)
EXTENDS Naturals, Sequences, SequencesExt

CONSTANTS
  Windows,
  MaxSaves \* bound: queries saved

ASSUME SavedQueriesAssumption == MaxSaves \in Nat

VARIABLES
  windows, \* each window's phase, the list it shows, the list it has queued, its panel
  store,   \* localStorage: whether it holds a list one can parse, and the list
  wanted,  \* history: the list as the user's operations make it
  saves,   \* ids given
  overlapped, \* history: two windows have shared the store
  cut         \* history: a window went away before it wrote the list back

savedQueriesVars == <<windows, store, wanted, saves, overlapped, cut>>

Ids == 1 .. MaxSaves
SavedQuery == [id : Ids, isFavorite : BOOLEAN]

Closed == [phase |-> "closed", queries |-> <<>>, queued |-> <<>>, panel |-> "none"]

SavedQueriesInit ==
  /\ windows = [w \in Windows |-> Closed]
  /\ \E readable \in BOOLEAN : store = [readable |-> readable, list |-> <<>>]
  /\ wanted = <<>>
  /\ saves = 0
  /\ overlapped = FALSE
  /\ cut = FALSE

Stored(list) == [readable |-> TRUE, list |-> list]

\* A window after its first render, the list it has read queued for the next.
Opened(list) == [phase |-> "loading", queries |-> <<>>, queued |-> list, panel |-> "none"]

\* Mutant: the effect that writes runs before the one that reads.
MountWritesFirst(w) ==
  /\ windows[w].phase = "closed"
  /\ windows' = [windows EXCEPT ![w] = Opened(<<>>)]
  /\ store' = Stored(<<>>)
  /\ overlapped' = (overlapped \/ \E v \in Windows \ {w} : windows[v].phase # "closed")
  /\ UNCHANGED <<wanted, saves, cut>>

\* The first render and its two effects.
Mount(w) ==
  /\ windows[w].phase = "closed"
  /\ windows' = [windows EXCEPT ![w] = Opened(IF store.readable THEN store.list ELSE <<>>)]
  /\ store' = Stored(<<>>)
  /\ overlapped' = (overlapped \/ \E v \in Windows \ {w} : windows[v].phase # "closed")
  /\ UNCHANGED <<wanted, saves, cut>>

\* The hook's state becomes list, and the effect writes it.
SetSavedQueries(w, list, phase, panel) ==
  /\ windows' = [windows EXCEPT ![w] = [phase |-> phase, queries |-> list,
                                        queued |-> <<>>, panel |-> panel]]
  /\ store' = Stored(list)

\* The render of the list the mount has read.
Loaded(w) ==
  /\ windows[w].phase = "loading"
  /\ SetSavedQueries(w, windows[w].queued, "ready", "none")
  /\ UNCHANGED <<wanted, saves, overlapped, cut>>

\* The page or its window goes away.
Unmount(w) ==
  /\ windows[w].phase # "closed"
  /\ windows' = [windows EXCEPT ![w] = Closed]
  /\ cut' = (cut \/ windows[w].phase = "loading")
  /\ UNCHANGED <<store, wanted, saves, overlapped>>

\* The menu and the dialog open and close; the backdrop of each covers the page.
ShowPanel(w, panel) ==
  /\ windows[w].phase = "ready"
  /\ (windows[w].panel = "none") # (panel = "none")
  /\ windows' = [windows EXCEPT ![w].panel = panel]
  /\ UNCHANGED <<store, wanted, saves, overlapped, cut>>

\* Save of the dialog, disabled without a name.
CanSave(w, name) == windows[w].panel = "dialog" /\ name # "blank"

Put(list) == <<[id |-> saves + 1, isFavorite |-> FALSE]>> \o list

HandleSaveQuery(w, name) ==
  /\ CanSave(w, name)
  /\ saves < MaxSaves
  /\ saves' = saves + 1
  /\ SetSavedQueries(w, Put(windows[w].queries), "ready", "none")
  /\ wanted' = Put(wanted)
  /\ UNCHANGED <<overlapped, cut>>

\* Where what the menu lists under its tab is.
FilteredQueries(w, tab) ==
  {i \in DOMAIN windows[w].queries : tab = "all" \/ windows[w].queries[i].isFavorite}

Listed(w, id) ==
  /\ windows[w].panel = "menu"
  /\ \E tab \in {"all", "favorites"} : \E i \in FilteredQueries(w, tab) :
       windows[w].queries[i].id = id

\* An id is a random UUID, of one query: what a filter leaves out is in one place.
Has(list, id) == \E i \in DOMAIN list : list[i].id = id
Without(list, id) ==
  IF Has(list, id) THEN RemoveAt(list, CHOOSE i \in DOMAIN list : list[i].id = id) ELSE list

DeleteQuery(w, id) ==
  /\ Listed(w, id)
  /\ SetSavedQueries(w, Without(windows[w].queries, id), "ready", "menu")
  /\ wanted' = Without(wanted, id)
  /\ UNCHANGED <<saves, overlapped, cut>>

Toggled(list, id) ==
  [i \in DOMAIN list |->
     IF list[i].id = id THEN [list[i] EXCEPT !.isFavorite = ~@] ELSE list[i]]

ToggleFavorite(w, id) ==
  /\ Listed(w, id)
  /\ SetSavedQueries(w, Toggled(windows[w].queries, id), "ready", "menu")
  /\ wanted' = Toggled(wanted, id)
  /\ UNCHANGED <<saves, overlapped, cut>>

\* A click on a query hands it to the page, and closes the menu.
LoadFromMenu(w, id) ==
  /\ Listed(w, id)
  /\ windows' = [windows EXCEPT ![w].panel = "none"]
  /\ UNCHANGED <<store, wanted, saves, overlapped, cut>>

SavedQueriesNext == \E w \in Windows :
  \/ Mount(w) \/ Loaded(w) \/ Unmount(w)
  \/ \E panel \in {"none", "menu", "dialog"} : ShowPanel(w, panel)
  \/ \E name \in {"blank", "named"} : HandleSaveQuery(w, name)
  \/ \E id \in Ids : DeleteQuery(w, id) \/ ToggleFavorite(w, id) \/ LoadFromMenu(w, id)

SavedQueriesSpec == SavedQueriesInit /\ [][SavedQueriesNext]_savedQueriesVars

-----------------------------------------------------------------------------
(* Properties.                                                             *)

Window == [phase : {"closed", "loading", "ready"}, queries : Seq(SavedQuery),
           queued : Seq(SavedQuery), panel : {"none", "menu", "dialog"}]

SavedQueriesTypeOK ==
  /\ windows \in [Windows -> Window]
  /\ store \in [readable : BOOLEAN, list : Seq(SavedQuery)]
  /\ wanted \in Seq(SavedQuery)
  /\ saves \in 0 .. MaxSaves
  /\ overlapped \in BOOLEAN
  /\ cut \in BOOLEAN

\* A query the user saved stays, with its place and its flag, until the user
\* deletes it: the store, or what a mount is about to write back, is the list
\* the user's operations make, and a window shows it.  Two things only may
\* break this, a second window over the same store and a window that goes away
\* between the two writes of its mount.
SavedQueriesAreKept ==
  \/ overlapped \/ cut
  \/ \A w \in Windows :
       /\ windows[w].phase = "loading" => windows[w].queued = wanted
       /\ windows[w].phase = "ready" => windows[w].queries = wanted /\ store.list = wanted
       /\ (\A v \in Windows : windows[v].phase = "closed") => store.list = wanted
=============================================================================
