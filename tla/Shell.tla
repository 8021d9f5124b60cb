---------------------------------- MODULE Shell ----------------------------------
(***************************************************************************)
(* What surrounds the pages of the web UI: ui/src/pages/Dashboard.tsx with *)
(* its sidebar, tiles and tabs, the command palette, the settings panel,   *)
(* and the toasts of ui/src/components/Toast.tsx that outlive them all.    *)
(*                                                                         *)
(* The id of a toast is the millisecond it was added in, and its timer     *)
(* removes what has its id.  The settings panel is a modal that the page   *)
(* gives nothing to close it with: it covers the sidebar and the tiles, so *)
(* that only the palette leaves its tab.                                   *)
(***************************************************************************)
EXTENDS Integers, Sequences

CONSTANTS
  SidebarTabs, \* the tabs of the sidebar
  CommandsFor, \* for each query of the palette, the commands its labels match
  Users,       \* the accounts of the panel
  ActiveKeys,  \* the API keys of the panel that are not revoked
  Duration,    \* how long a toast is shown
  MaxClock,    \* bound: of the time
  MaxToasts    \* bound: toasts added, or about to be by a save

ASSUME ShellAssumption ==
  /\ "" \in DOMAIN CommandsFor /\ Len(CommandsFor[""]) > 0
  /\ \A query \in DOMAIN CommandsFor :
       /\ CommandsFor[query] \in Seq({CommandsFor[""][i] : i \in DOMAIN CommandsFor[""]})
       /\ Len(CommandsFor[query]) <= Len(CommandsFor[""])
  /\ {Duration, MaxClock, MaxToasts} \subseteq Nat

VARIABLES
  dashboard, \* the tab, the tab of the address, and the figures of the tiles
  palette,   \* the command palette
  settings,  \* the settings panel, and the timers of earlier ones
  toasts     \* the time, the toasts in the order they were added, which are shown

shellVars == <<dashboard, palette, settings, toasts>>

NoQuery == ""
NaN == -1 \* no index

ClosedPalette == [isOpen |-> FALSE, query |-> NoQuery, selectedIndex |-> 0]
NewPanel(orphans) ==
  [activeTab |-> "general", loading |-> FALSE, users |-> Users, keys |-> ActiveKeys,
   edited |-> FALSE, orphans |-> orphans]

\* A tab the address names is shown; it is the only way to the settings panel.
ShellInit ==
  /\ \E tab \in {"dashboard", "config"} :
       dashboard = [activeTab |-> tab, address |-> tab, stats |-> "zeros", fetching |-> TRUE,
                    networkView |-> "topology"]
  /\ palette = ClosedPalette
  /\ settings = NewPanel(0)
  /\ toasts = [now |-> 0, added |-> <<>>, shown |-> {}, armed |-> {}, ended |-> {}]

SettingsShown == dashboard.activeTab = "config"

\* addToast
AddToast == LET n == Len(toasts.added) + 1 IN
  /\ n <= MaxToasts
  /\ toasts' = [toasts EXCEPT !.added = Append(@, [id |-> toasts.now, at |-> toasts.now]),
                              !.shown = @ \union {n}, !.armed = @ \union {n}]

\* Mutant: a toast removes the oldest of the list, as if they left in their order.
RemainingButOldest(n) == {m \in toasts.shown : \E older \in toasts.shown : older < m}

\* The list without the toasts that have the id of toast n.
Remaining(n) == {m \in toasts.shown : toasts.added[m].id # toasts.added[n].id}

TimePasses ==
  /\ toasts.now < MaxClock
  /\ toasts' = [toasts EXCEPT !.now = @ + 1]
  /\ UNCHANGED <<dashboard, palette, settings>>

\* A timer fires when its time has come or later, whatever has become of its toast.
ToastTimer(n) ==
  /\ n \in toasts.armed
  /\ toasts.now >= toasts.added[n].at + Duration
  /\ toasts' = [toasts EXCEPT !.shown = Remaining(n), !.armed = @ \ {n},
                              !.ended = @ \union {toasts.added[n].at}]
  /\ UNCHANGED <<dashboard, palette, settings>>

RemoveToast(n) ==
  /\ n \in toasts.shown
  /\ toasts' = [toasts EXCEPT !.shown = Remaining(n), !.ended = @ \union {toasts.added[n].at}]
  /\ UNCHANGED <<dashboard, palette, settings>>

\* A component that is mounted reports something.
PageReports == AddToast /\ UNCHANGED <<dashboard, palette, settings>>

\* The figures come, or the tiles keep their zeros.
StatsArrive ==
  /\ dashboard.fetching
  /\ \E stats \in {"zeros", "service"} :
       dashboard' = [dashboard EXCEPT !.fetching = FALSE, !.stats = stats]
  /\ UNCHANGED <<palette, settings, toasts>>

\* The tab changes; the address keeps its path.  A settings panel goes away with
\* what was changed in it, its timer stays.
HandleTabChange(tab) ==
  /\ dashboard' = [dashboard EXCEPT !.activeTab = tab]
  /\ settings' = IF tab = dashboard.activeTab THEN settings
                 ELSE NewPanel(IF settings.loading THEN settings.orphans + 1
                               ELSE settings.orphans)

\* The sidebar and the tiles are covered by the modal and by the palette.
Uncovered == ~SettingsShown /\ ~palette.isOpen

ClickSidebar(tab) == Uncovered /\ HandleTabChange(tab) /\ UNCHANGED <<palette, toasts>>

\* The tiles, and "View All" of the recent detections.
TileTabs == {"investigation", "alerts", "network"}
ClickTile(tab) == Uncovered /\ HandleTabChange(tab) /\ UNCHANGED <<palette, toasts>>

SetNetworkView(view) ==
  /\ dashboard.activeTab = "network" /\ ~palette.isOpen
  /\ dashboard' = [dashboard EXCEPT !.networkView = view]
  /\ UNCHANGED <<palette, settings, toasts>>

\* The page is loaded anew, by its address; toasts and timers are gone.
Reload ==
  /\ dashboard' = [dashboard EXCEPT !.activeTab = dashboard.address, !.stats = "zeros",
                     !.fetching = TRUE, !.networkView = "topology"]
  /\ palette' = ClosedPalette
  /\ settings' = NewPanel(0)
  /\ toasts' = [toasts EXCEPT !.shown = {}, !.armed = {}, !.ended = {}]

-----------------------------------------------------------------------------
(* The command palette.                                                    *)

FilteredCommands == CommandsFor[palette.query]

OpenPalette ==
  /\ palette' = [palette EXCEPT !.isOpen = TRUE]
  /\ UNCHANGED <<dashboard, settings, toasts>>

ClosePalette ==
  /\ palette.isOpen
  /\ palette' = ClosedPalette
  /\ UNCHANGED <<dashboard, settings, toasts>>

\* The index stays where it is, though the commands may be fewer.
SetQuery(query) ==
  /\ palette.isOpen
  /\ palette' = [palette EXCEPT !.query = query]
  /\ UNCHANGED <<dashboard, settings, toasts>>

\* A remainder by no commands is NaN, and so is all that is made of it.
Arrow(step) ==
  /\ palette.isOpen
  /\ LET n == Len(FilteredCommands)
         i == palette.selectedIndex IN
     palette' = [palette EXCEPT
       !.selectedIndex = IF n = 0 \/ i = NaN THEN NaN
                         ELSE IF step = "down" THEN (i + 1) % n
                         ELSE IF i = 0 THEN n - 1 ELSE (i - 1) % n]
  /\ UNCHANGED <<dashboard, settings, toasts>>

HoverCommand(i) ==
  /\ palette.isOpen /\ i < Len(FilteredCommands)
  /\ palette' = [palette EXCEPT !.selectedIndex = i]
  /\ UNCHANGED <<dashboard, settings, toasts>>

RunCommand(i) ==
  /\ i + 1 \in DOMAIN FilteredCommands
  /\ HandleTabChange(FilteredCommands[i + 1])
  /\ palette' = ClosedPalette
  /\ UNCHANGED toasts

PressEnter == palette.isOpen /\ RunCommand(palette.selectedIndex)
ClickCommand(i) == palette.isOpen /\ RunCommand(i)

-----------------------------------------------------------------------------
(* The settings panel.                                                     *)

InPanel(tab) == SettingsShown /\ ~palette.isOpen /\ settings.activeTab = tab

SetPanelTab(tab) ==
  /\ SettingsShown /\ ~palette.isOpen
  /\ settings' = [settings EXCEPT !.activeTab = tab]
  /\ UNCHANGED <<dashboard, palette, toasts>>

EditConfig ==
  /\ InPanel("general") \/ InPanel("notifications")
  /\ settings' = [settings EXCEPT !.edited = TRUE]
  /\ UNCHANGED <<dashboard, palette, toasts>>

HandleDeleteUser(u) ==
  /\ InPanel("users") /\ u \in settings.users
  /\ settings' = [settings EXCEPT !.users = @ \ {u}]
  /\ AddToast
  /\ UNCHANGED <<dashboard, palette>>

HandleRevokeKey(k) ==
  /\ InPanel("apikeys") /\ k \in settings.keys
  /\ settings' = [settings EXCEPT !.keys = @ \ {k}]
  /\ AddToast
  /\ UNCHANGED <<dashboard, palette>>

\* "Add User" and "Generate New Key" only say what would happen.
AddUserOrKey ==
  /\ InPanel("users") \/ InPanel("apikeys")
  /\ AddToast
  /\ UNCHANGED <<dashboard, palette, settings>>

\* Nothing is saved: a timer says so.
HandleSave ==
  /\ SettingsShown /\ ~palette.isOpen /\ ~settings.loading
  /\ Len(toasts.added) + settings.orphans < MaxToasts
  /\ settings' = [settings EXCEPT !.loading = TRUE]
  /\ UNCHANGED <<dashboard, palette, toasts>>

SaveTimer ==
  /\ \/ settings.loading /\ settings' = [settings EXCEPT !.loading = FALSE]
     \/ settings.orphans > 0 /\ settings' = [settings EXCEPT !.orphans = @ - 1]
  /\ AddToast
  /\ UNCHANGED <<dashboard, palette>>

PanelTabs == {"general", "users", "apikeys", "security", "notifications", "debug"}
Indices == 0 .. Len(CommandsFor[NoQuery]) - 1

ShellNext ==
  \/ TimePasses \/ PageReports \/ StatsArrive \/ Reload
  \/ \E n \in DOMAIN toasts.added : ToastTimer(n) \/ RemoveToast(n)
  \/ (\E tab \in SidebarTabs : ClickSidebar(tab)) \/ (\E tab \in TileTabs : ClickTile(tab))
  \/ \E view \in {"topology", "map"} : SetNetworkView(view)
  \/ OpenPalette \/ ClosePalette \/ PressEnter
  \/ \E query \in DOMAIN CommandsFor : SetQuery(query)
  \/ \E step \in {"up", "down"} : Arrow(step)
  \/ \E i \in Indices : HoverCommand(i) \/ ClickCommand(i)
  \/ \E tab \in PanelTabs : SetPanelTab(tab)
  \/ (\E u \in Users : HandleDeleteUser(u)) \/ (\E k \in ActiveKeys : HandleRevokeKey(k))
  \/ EditConfig \/ AddUserOrKey \/ HandleSave \/ SaveTimer

ShellSpec == ShellInit /\ [][ShellNext]_shellVars

-----------------------------------------------------------------------------
(* Properties.                                                             *)

ShellTypeOK ==
  /\ dashboard.activeTab \in SidebarTabs \union TileTabs \union {"dashboard", "config"}
       \union {CommandsFor[NoQuery][i] : i \in DOMAIN CommandsFor[NoQuery]}
  /\ dashboard.stats \in {"zeros", "service"} /\ dashboard.fetching \in BOOLEAN
  /\ dashboard.networkView \in {"topology", "map"}
  /\ palette.query \in DOMAIN CommandsFor
  /\ palette.selectedIndex \in Indices \union {NaN}
  /\ settings.activeTab \in PanelTabs /\ settings.loading \in BOOLEAN
  /\ settings.users \subseteq Users /\ settings.keys \subseteq ActiveKeys
  /\ settings.orphans \in 0 .. MaxToasts
  /\ toasts.shown \union toasts.armed \subseteq DOMAIN toasts.added

\* A toast has its time: while it is shown its timer will take it, and until then
\* nothing does but a click on it, or what ends another toast of its millisecond.
ToastsHaveTheirTime ==
  /\ toasts.shown \subseteq toasts.armed
  /\ \A n \in toasts.armed : n \in toasts.shown \/ toasts.added[n].at \in toasts.ended
=============================================================================
