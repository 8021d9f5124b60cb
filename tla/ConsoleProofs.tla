---------------------------- MODULE ConsoleProofs ----------------------------
(*****************************************************************************)
(* The pages an analyst works in: what their invariants rest on, for any     *)
(* queries, filters, rules and requests and any number of them in flight.    *)
(*****************************************************************************)
EXTENDS Console, AnswerLemmas, FiniteSetTheorems, FunctionTheorems

-----------------------------------------------------------------------------
(* The saved queries (SavedQueries).                                         *)

SavedFields(r) == r = [phase |-> r.phase, queries |-> r.queries, queued |-> r.queued,
                  panel |-> r.panel]
IsOpen(w) == windows[w].phase # "closed"

\* While no two windows share the store, one at most is open, and it holds the
\* only copy of the list between the two writes of its mount.
OneCopy ==
  /\ \A v, w \in Windows : IsOpen(v) /\ IsOpen(w) => v = w
  /\ \A w \in Windows :
       /\ windows[w].phase = "loading" => windows[w].queued = wanted
       /\ windows[w].phase = "ready" => windows[w].queries = wanted /\ store.list = wanted
  /\ (\A v \in Windows : windows[v].phase = "closed") => store.list = wanted

SavedInv ==
  /\ windows = [w \in Windows |-> windows[w]]
  /\ \A w \in Windows :
       /\ SavedFields(windows[w]) /\ windows[w].phase \in {"closed", "loading", "ready"}
       /\ windows[w].panel # "none" => windows[w].phase = "ready"
  /\ store.readable \/ store.list = <<>>
  /\ overlapped \in BOOLEAN /\ cut \in BOOLEAN
  /\ ~overlapped /\ ~cut => OneCopy

LEMMA SavedInit == SavedQueriesInit => SavedInv
<1> SUFFICES ASSUME SavedQueriesInit PROVE SavedInv
  OBVIOUS
<1>1. /\ windows = [w \in Windows |-> Closed] /\ store.list = <<>> /\ wanted = <<>>
      /\ overlapped = FALSE /\ cut = FALSE
  BY DEF SavedQueriesInit
<1>2. Closed.phase = "closed" /\ Closed.panel = "none" /\ SavedFields(Closed)
  BY DEF Closed, SavedFields
<1>3. \A w \in Windows : windows[w] = Closed
  BY <1>1
<1>4. OneCopy
  BY <1>1, <1>2, <1>3 DEF OneCopy, IsOpen
<1> QED
  BY <1>1, <1>2, <1>3, <1>4 DEF SavedInv

\* A step of one window, seen from the rest.
LEMMA WindowStep ==
  ASSUME SavedInv, NEW w \in Windows, NEW r, SavedFields(r),
         r.phase \in {"closed", "loading", "ready"}, r.panel # "none" => r.phase = "ready",
         windows' = [windows EXCEPT ![w] = r],
         store'.readable \/ store'.list = <<>>,
         overlapped' \in BOOLEAN, cut' \in BOOLEAN,
         ~overlapped' /\ ~cut' =>
           /\ ~overlapped /\ ~cut
           /\ r.phase # "closed" => \A v \in Windows \ {w} : ~IsOpen(v)
           /\ r.phase = "loading" => r.queued = wanted'
           /\ r.phase = "ready" => r.queries = wanted' /\ store'.list = wanted'
           /\ r.phase = "closed" =>
                /\ \A v \in Windows \ {w} : ~IsOpen(v)
                /\ store'.list = wanted'
  PROVE  SavedInv'
<1>1. windows'[w] = r /\ \A v \in Windows \ {w} : windows'[v] = windows[v]
  BY DEF SavedInv
<1>2. windows' = [v \in Windows |-> windows'[v]]
  BY DEF SavedInv
<1>3. ASSUME NEW v \in Windows
      PROVE  /\ SavedFields(windows'[v]) /\ windows'[v].phase \in {"closed", "loading", "ready"}
             /\ windows'[v].panel # "none" => windows'[v].phase = "ready"
  BY <1>1 DEF SavedInv
<1>4. ASSUME ~overlapped', ~cut' PROVE OneCopy'
  <2>1. \A v \in Windows \ {w} : windows'[v].phase = "closed"
    BY <1>1, <1>4 DEF IsOpen
  <2> QED BY <1>1, <1>4, <2>1 DEF OneCopy, IsOpen
<1> QED
  BY <1>2, <1>3, <1>4 DEF SavedInv, SavedFields

\* While there is one copy of the list, an open window is the only one.
LEMMA OthersClosed ==
  ASSUME SavedInv, ~overlapped, ~cut, NEW w \in Windows, IsOpen(w)
  PROVE  \A v \in Windows \ {w} : ~IsOpen(v)
BY DEF SavedInv, OneCopy

LEMMA SavedMountStep == ASSUME SavedInv, NEW w \in Windows, Mount(w) PROVE SavedInv'
<1>0. PICK list : list = IF store.readable THEN store.list ELSE <<>>
  OBVIOUS
<1> DEFINE r == Opened(list)
<1>1. /\ windows[w].phase = "closed" /\ windows' = [windows EXCEPT ![w] = r]
      /\ store' = [readable |-> TRUE, list |-> <<>>]
      /\ overlapped' = (overlapped \/ \E v \in Windows \ {w} : windows[v].phase # "closed")
      /\ UNCHANGED <<wanted, cut>>
  BY <1>0 DEF Mount, Stored
<1>2. r = [phase |-> "loading", queries |-> <<>>, queued |-> list, panel |-> "none"]
  BY DEF Opened
<1>3. r.phase = "loading" /\ r.panel = "none" /\ SavedFields(r) /\ r.queued = list
  BY <1>2 DEF SavedFields
<1>4. ASSUME ~overlapped', ~cut'
      PROVE  ~overlapped /\ ~cut /\ (\A v \in Windows \ {w} : ~IsOpen(v)) /\ r.queued = wanted
  <2>1. ~overlapped /\ ~cut /\ \A v \in Windows \ {w} : ~IsOpen(v)
    BY <1>1, <1>4 DEF IsOpen
  <2>2. store.list = wanted
    BY <1>1, <2>1 DEF SavedInv, OneCopy, IsOpen
  <2> QED BY <1>0, <1>3, <2>1, <2>2 DEF SavedInv
<1>5. overlapped' \in BOOLEAN /\ cut' \in BOOLEAN /\ store'.list = <<>>
  BY <1>1 DEF SavedInv
<1> HIDE DEF r
<1> QED
  BY <1>1, <1>3, <1>4, <1>5, WindowStep

\* The list of a window that is ready becomes the one that is wanted.
LEMMA SavedListStep ==
  ASSUME SavedInv, NEW w \in Windows, NEW list, NEW panel,
         windows[w].phase # "closed", SetSavedQueries(w, list, "ready", panel),
         ~overlapped /\ ~cut => list = wanted',
         UNCHANGED <<overlapped, cut>>
  PROVE  SavedInv'
<1> DEFINE r == [phase |-> "ready", queries |-> list, queued |-> <<>>, panel |-> panel]
<1>1. /\ windows' = [windows EXCEPT ![w] = r]
      /\ store'.readable = TRUE /\ store'.list = list
  BY DEF SetSavedQueries, Stored
<1>2. SavedFields(r) /\ r.phase = "ready" /\ r.queries = list
  BY DEF SavedFields
<1>3. ~overlapped /\ ~cut => \A v \in Windows \ {w} : ~IsOpen(v)
  BY OthersClosed DEF IsOpen
<1>4. overlapped' \in BOOLEAN /\ cut' \in BOOLEAN
  BY DEF SavedInv
<1> HIDE DEF r
<1> QED
  BY <1>1, <1>2, <1>3, <1>4, WindowStep

\* What a window shows, and what a mount has read, is the list that is wanted.
LEMMA WindowHas ==
  ASSUME SavedInv, ~overlapped, ~cut, NEW w \in Windows
  PROVE  /\ windows[w].phase = "loading" => windows[w].queued = wanted
         /\ windows[w].panel # "none" => windows[w].queries = wanted
BY DEF SavedInv, OneCopy

LEMMA LoadedStep == ASSUME SavedInv, NEW w \in Windows, Loaded(w) PROVE SavedInv'
<1>1. /\ windows[w].phase = "loading" /\ UNCHANGED <<wanted, overlapped, cut>>
      /\ SetSavedQueries(w, windows[w].queued, "ready", "none")
  BY DEF Loaded
<1> QED
  BY <1>1, SavedListStep, WindowHas

LEMMA OperationStep ==
  ASSUME SavedInv, NEW w \in Windows, NEW name, NEW id,
         HandleSaveQuery(w, name) \/ DeleteQuery(w, id) \/ ToggleFavorite(w, id)
  PROVE  SavedInv'
<1>1. windows[w].panel # "none" => windows[w].phase # "closed"
  BY DEF SavedInv
<1>2. CASE HandleSaveQuery(w, name)
  <2>1. /\ windows[w].panel # "none" /\ UNCHANGED <<overlapped, cut>>
        /\ SetSavedQueries(w, Put(windows[w].queries), "ready", "none")
        /\ wanted' = Put(wanted)
    BY <1>2 DEF HandleSaveQuery, CanSave
  <2> QED BY <1>1, <2>1, SavedListStep, WindowHas
<1>3. CASE DeleteQuery(w, id)
  <2>1. /\ windows[w].panel # "none" /\ UNCHANGED <<overlapped, cut>>
        /\ SetSavedQueries(w, Without(windows[w].queries, id), "ready", "menu")
        /\ wanted' = Without(wanted, id)
    BY <1>3 DEF DeleteQuery, Listed
  <2> QED BY <1>1, <2>1, SavedListStep, WindowHas
<1>4. CASE ToggleFavorite(w, id)
  <2>1. /\ windows[w].panel # "none" /\ UNCHANGED <<overlapped, cut>>
        /\ SetSavedQueries(w, Toggled(windows[w].queries, id), "ready", "menu")
        /\ wanted' = Toggled(wanted, id)
    BY <1>4 DEF ToggleFavorite, Listed
  <2> QED BY <1>1, <2>1, SavedListStep, WindowHas
<1> QED
  BY <1>2, <1>3, <1>4

\* A window that goes away while it has the only copy cuts the list.
LEMMA UnmountStep == ASSUME SavedInv, NEW w \in Windows, Unmount(w) PROVE SavedInv'
<1>1. /\ windows[w].phase # "closed" /\ windows' = [windows EXCEPT ![w] = Closed]
      /\ cut' = (cut \/ windows[w].phase = "loading")
      /\ UNCHANGED <<store, wanted, overlapped>>
  BY DEF Unmount
<1>2. SavedFields(Closed) /\ Closed.phase = "closed" /\ Closed.panel = "none"
  BY DEF Closed, SavedFields
<1>3. ASSUME ~overlapped', ~cut'
      PROVE  /\ ~overlapped /\ ~cut /\ store'.list = wanted'
             /\ \A v \in Windows \ {w} : ~IsOpen(v)
  <2>1. ~overlapped /\ ~cut /\ windows[w].phase = "ready"
    BY <1>1, <1>3 DEF SavedInv
  <2> QED BY <1>1, <2>1, OthersClosed DEF SavedInv, OneCopy, IsOpen
<1>4. /\ overlapped' \in BOOLEAN /\ cut' \in BOOLEAN
      /\ store'.readable \/ store'.list = <<>>
  BY <1>1 DEF SavedInv
<1> QED
  BY <1>1, <1>2, <1>3, <1>4, WindowStep

LEMMA PanelStep ==
  ASSUME SavedInv, NEW w \in Windows, NEW panel, windows[w].phase = "ready",
         windows' = [windows EXCEPT ![w].panel = panel],
         UNCHANGED <<store, wanted, overlapped, cut>>
  PROVE  SavedInv'
<1> DEFINE r == [windows[w] EXCEPT !.panel = panel]
<1>1. windows' = [windows EXCEPT ![w] = r] /\ SavedFields(windows[w])
  BY DEF SavedInv
<1>2. SavedFields(r) /\ r.phase = "ready" /\ r.queries = windows[w].queries
  BY <1>1 DEF SavedFields
<1>3. ~overlapped /\ ~cut => \A v \in Windows \ {w} : ~IsOpen(v)
  BY OthersClosed DEF IsOpen
<1>4. ~overlapped /\ ~cut => windows[w].queries = wanted /\ store.list = wanted
  BY DEF SavedInv, OneCopy
<1>5. /\ overlapped' \in BOOLEAN /\ cut' \in BOOLEAN
      /\ store'.readable \/ store'.list = <<>>
  BY DEF SavedInv
<1> HIDE DEF r
<1> QED
  BY <1>1, <1>2, <1>3, <1>4, <1>5, WindowStep

LEMMA SavedNext == SavedInv /\ [SavedQueriesNext]_savedQueriesVars => SavedInv'
<1> SUFFICES ASSUME SavedInv, [SavedQueriesNext]_savedQueriesVars PROVE SavedInv'
  OBVIOUS
<1>1. ASSUME NEW w \in Windows, Mount(w) \/ Loaded(w) \/ Unmount(w) PROVE SavedInv'
  BY <1>1, SavedMountStep, LoadedStep, UnmountStep
<1>2. ASSUME NEW w \in Windows, NEW panel, ShowPanel(w, panel) PROVE SavedInv'
  BY <1>2, PanelStep DEF ShowPanel
<1>3. ASSUME NEW w \in Windows, NEW id, LoadFromMenu(w, id) PROVE SavedInv'
  <2>1. windows[w].phase = "ready"
    BY <1>3 DEF LoadFromMenu, Listed, SavedInv
  <2> QED BY <1>3, <2>1, PanelStep DEF LoadFromMenu
<1>4. ASSUME NEW w \in Windows, NEW name, NEW id,
             HandleSaveQuery(w, name) \/ DeleteQuery(w, id) \/ ToggleFavorite(w, id)
      PROVE  SavedInv'
  BY <1>4, OperationStep
<1>5. CASE UNCHANGED savedQueriesVars
  BY <1>5 DEF savedQueriesVars, SavedInv, OneCopy, IsOpen
<1> QED
  BY <1>1, <1>2, <1>3, <1>4, <1>5 DEF SavedQueriesNext

\* A list of queries of the first n that were saved, each of them once.
Proper(list, n) ==
  /\ list \in Seq(SavedQuery)
  /\ \A i \in 1 .. Len(list) : list[i].id <= n
  /\ \A i, j \in 1 .. Len(list) : list[i].id = list[j].id => i = j

SavedTyped ==
  /\ saves \in 0 .. MaxSaves /\ overlapped \in BOOLEAN /\ cut \in BOOLEAN
  /\ windows \in [Windows -> Window]
  /\ \A w \in Windows : Proper(windows[w].queries, saves) /\ Proper(windows[w].queued, saves)
  /\ store \in [readable : BOOLEAN, list : Seq(SavedQuery)] /\ Proper(store.list, saves)
  /\ Proper(wanted, saves)

LEMMA QueryIds == ASSUME NEW q \in SavedQuery PROVE q.id \in Nat /\ q.id >= 1 /\ q.id <= MaxSaves
BY SavedQueriesAssumption DEF SavedQuery, Ids

LEMMA EmptyProper == ASSUME NEW n PROVE Proper(<<>>, n)
<1>1. <<>> \in Seq(SavedQuery) /\ Len(<<>>) = 0
  BY EmptySeq
<1> QED BY <1>1 DEF Proper

LEMMA PutProper ==
  ASSUME SavedTyped, saves < MaxSaves, NEW list, Proper(list, saves), NEW s, s = Put(list)
  PROVE  Proper(s, saves + 1)
<1>1. PICK q : q = [id |-> saves + 1, isFavorite |-> FALSE]
  OBVIOUS
<1>2. saves \in Nat /\ saves + 1 \in 1 .. MaxSaves
  BY SavedQueriesAssumption DEF SavedTyped
<1>3. q \in SavedQuery /\ q.id = saves + 1
  BY <1>1, <1>2 DEF SavedQuery, Ids
<1>4. list \in Seq(SavedQuery) /\ s = <<q>> \o list
  BY <1>1 DEF Proper, Put
<1>5. /\ s \in Seq(SavedQuery) /\ Len(s) = Len(list) + 1 /\ Len(list) \in Nat /\ s[1] = q
      /\ \A k \in 2 .. Len(s) : k - 1 \in 1 .. Len(list) /\ s[k] = list[k - 1]
  BY <1>3, <1>4
<1>6. \A k \in 2 .. Len(s) : s[k].id \in Nat /\ s[k].id <= saves
  <2> TAKE k \in 2 .. Len(s)
  <2>1. k - 1 \in 1 .. Len(list) /\ s[k] = list[k - 1]
    BY <1>5
  <2>2. list[k - 1] \in SavedQuery
    BY <1>4, <2>1, ElementOfSeq
  <2>3. list[k - 1].id <= saves
    BY <2>1 DEF Proper
  <2> QED BY <2>1, <2>2, <2>3, QueryIds
<1>7. \A i \in 1 .. Len(s) : i = 1 \/ i \in 2 .. Len(s)
  BY <1>5
<1>8. \A i \in 1 .. Len(s) : s[i].id <= saves + 1
  BY <1>2, <1>3, <1>5, <1>6, <1>7
<1>9. ASSUME NEW i \in 1 .. Len(s), NEW j \in 1 .. Len(s), s[i].id = s[j].id PROVE i = j
  <2>1. CASE i = 1 \/ j = 1
    BY <1>2, <1>3, <1>5, <1>6, <1>7, <1>9, <2>1
  <2>2. CASE i # 1 /\ j # 1
    <3>1. i \in 2 .. Len(s) /\ j \in 2 .. Len(s)
      BY <1>7, <2>2
    <3>2. list[i - 1].id = list[j - 1].id /\ i - 1 \in 1 .. Len(list) /\ j - 1 \in 1 .. Len(list)
      BY <1>5, <1>9, <3>1
    <3>3. i - 1 = j - 1
      BY <3>2 DEF Proper
    <3> QED BY <3>1, <3>3
  <2> QED BY <2>1, <2>2
<1> QED BY <1>5, <1>8, <1>9 DEF Proper

LEMMA WithoutProper ==
  ASSUME NEW n, NEW list, Proper(list, n), NEW id PROVE Proper(Without(list, id), n)
<1>1. CASE ~Has(list, id)
  BY <1>1 DEF Without
<1>2. CASE Has(list, id)
  <2>1. PICK i : i = CHOOSE k \in DOMAIN list : list[k].id = id
    OBVIOUS
  <2>2. list \in Seq(SavedQuery) /\ DOMAIN list = 1 .. Len(list) /\ Len(list) \in Nat
    BY DEF Proper
  <2>3. i \in 1 .. Len(list)
    BY <1>2, <2>1, <2>2 DEF Has
  <2>4. PICK s : s = RemoveAt(list, i)
    OBVIOUS
  <2>5. s = Without(list, id)
    BY <1>2, <2>1, <2>4 DEF Without
  <2>6. s \in Seq(SavedQuery) /\ Len(s) = Len(list) - 1
    BY <2>2, <2>3, <2>4, Removal
  <2>7. \A j \in 1 .. Len(list) - 1 : s[j] = IF j < i THEN list[j] ELSE list[j + 1]
    BY <2>2, <2>3, <2>4, Removal
  <2>8. \A j \in 1 .. Len(s) : \E k \in 1 .. Len(list) :
          s[j] = list[k] /\ k = IF j < i THEN j ELSE j + 1
    <3> TAKE j \in 1 .. Len(s)
    <3>1. j \in 1 .. Len(list) - 1 /\ j \in 1 .. Len(list) /\ j + 1 \in 1 .. Len(list)
      BY <2>2, <2>6
    <3> QED BY <2>7, <3>1
  <2>9. \A j \in 1 .. Len(s) : s[j].id <= n
    BY <2>8 DEF Proper
  <2>10. ASSUME NEW j \in 1 .. Len(s), NEW l \in 1 .. Len(s), s[j].id = s[l].id PROVE j = l
    <3>1. PICK k \in 1 .. Len(list) : s[j] = list[k] /\ k = IF j < i THEN j ELSE j + 1
      BY <2>8
    <3>2. PICK m \in 1 .. Len(list) : s[l] = list[m] /\ m = IF l < i THEN l ELSE l + 1
      BY <2>8
    <3>3. k = m
      BY <2>10, <3>1, <3>2 DEF Proper
    <3> QED BY <2>2, <2>3, <2>6, <3>1, <3>2, <3>3
  <2> QED BY <2>5, <2>6, <2>9, <2>10 DEF Proper
<1> QED BY <1>1, <1>2

LEMMA ToggledProper ==
  ASSUME NEW n, NEW list, Proper(list, n), NEW id PROVE Proper(Toggled(list, id), n)
<1>1. list \in Seq(SavedQuery) /\ DOMAIN list = 1 .. Len(list) /\ Len(list) \in Nat
  BY DEF Proper
<1>2. PICK s : s = Toggled(list, id)
  OBVIOUS
<1>3. \A i \in 1 .. Len(list) : list[i] \in SavedQuery
  BY <1>1, ElementOfSeq
<1>4. DOMAIN s = 1 .. Len(list) /\ \A i \in 1 .. Len(list) :
        s[i] = IF list[i].id = id THEN [list[i] EXCEPT !.isFavorite = ~list[i].isFavorite] ELSE list[i]
  BY <1>1, <1>2 DEF Toggled
<1>5. \A i \in 1 .. Len(list) : s[i] \in SavedQuery /\ s[i].id = list[i].id
  <2> TAKE i \in 1 .. Len(list)
  <2>1. list[i] \in SavedQuery
    BY <1>3
  <2>2. [list[i] EXCEPT !.isFavorite = ~list[i].isFavorite] \in SavedQuery
        /\ [list[i] EXCEPT !.isFavorite = ~list[i].isFavorite].id = list[i].id
    BY <2>1 DEF SavedQuery
  <2> QED BY <1>4, <2>1, <2>2
<1>6. s = [i \in 1 .. Len(list) |-> s[i]]
  BY <1>1, <1>2 DEF Toggled
<1>7. s \in Seq(SavedQuery) /\ Len(s) = Len(list)
  <2>1. s \in [1 .. Len(list) -> SavedQuery]
    BY <1>5, <1>6
  <2> QED BY <1>1, <2>1
<1> QED BY <1>2, <1>5, <1>7 DEF Proper

LEMMA MoreSaved ==
  ASSUME NEW n \in Nat, NEW m \in Nat, n <= m, NEW list, Proper(list, n) PROVE Proper(list, m)
<1>1. ASSUME NEW i \in 1 .. Len(list) PROVE list[i].id <= m
  <2>1. list[i] \in SavedQuery /\ list[i].id <= n
    BY ElementOfSeq DEF Proper
  <2> QED BY <2>1, QueryIds
<1> QED BY <1>1 DEF Proper

\* What one window does to its lists, to the store and to the list that is wanted.
LEMMA ListsStep ==
  ASSUME SavedTyped, NEW w \in Windows, NEW r \in Window,
         windows' = [windows EXCEPT ![w] = r],
         saves' \in 0 .. MaxSaves, saves <= saves', overlapped' \in BOOLEAN, cut' \in BOOLEAN,
         Proper(r.queries, saves'), Proper(r.queued, saves'),
         store' \in [readable : BOOLEAN, list : Seq(SavedQuery)],
         Proper(store'.list, saves'), Proper(wanted', saves')
  PROVE  SavedTyped'
<1>1. windows' \in [Windows -> Window] /\ windows'[w] = r
      /\ \A v \in Windows \ {w} : windows'[v] = windows[v]
  BY DEF SavedTyped
<1>2. saves \in Nat /\ saves' \in Nat
  BY SavedQueriesAssumption DEF SavedTyped
<1>3. ASSUME NEW v \in Windows
      PROVE  Proper(windows'[v].queries, saves') /\ Proper(windows'[v].queued, saves')
  <2>1. CASE v = w
    BY <1>1, <2>1
  <2>2. CASE v # w
    BY <1>1, <1>2, <2>2, MoreSaved DEF SavedTyped
  <2> QED BY <2>1, <2>2
<1> QED BY <1>1, <1>3 DEF SavedTyped

LEMMA WindowTyped ==
  ASSUME SavedTyped, NEW w \in Windows
  PROVE  /\ windows[w] \in Window /\ Proper(windows[w].queries, saves)
         /\ Proper(windows[w].queued, saves)
         /\ windows[w].queries \in Seq(SavedQuery) /\ windows[w].queued \in Seq(SavedQuery)
BY DEF SavedTyped, Proper

LEMMA ListsMount == ASSUME SavedTyped, NEW w \in Windows, Mount(w) PROVE SavedTyped'
<1>1. PICK list : list = IF store.readable THEN store.list ELSE <<>>
  OBVIOUS
<1>2. Proper(list, saves) /\ list \in Seq(SavedQuery)
  BY <1>1, EmptyProper DEF SavedTyped, Proper
<1>3. PICK r : r = Opened(list)
  OBVIOUS
<1>4. r \in Window /\ r.queries = <<>> /\ r.queued = list
  BY <1>2, <1>3, EmptySeq DEF Opened, Window
<1>5. /\ windows' = [windows EXCEPT ![w] = r] /\ store' = Stored(<<>>)
      /\ UNCHANGED <<wanted, saves, cut>>
  BY <1>1, <1>3 DEF Mount
<1>6. store' \in [readable : BOOLEAN, list : Seq(SavedQuery)] /\ store'.list = <<>>
  BY <1>5, EmptySeq DEF Stored
<1>7. overlapped' \in BOOLEAN /\ cut' \in BOOLEAN
  BY <1>5 DEF Mount, SavedTyped
<1>8. Proper(store'.list, saves) /\ Proper(r.queries, saves) /\ Proper(r.queued, saves)
      /\ Proper(wanted, saves)
  BY <1>2, <1>4, <1>6, EmptyProper DEF SavedTyped
<1>9. saves \in 0 .. MaxSaves /\ saves <= saves
  BY SavedQueriesAssumption DEF SavedTyped
<1>10. saves' = saves /\ wanted' = wanted
  BY <1>5
<1> QED BY <1>4, <1>5, <1>6, <1>7, <1>8, <1>9, <1>10, ListsStep

\* The list of a window, and with it the store, becomes another.
LEMMA ListsSet ==
  ASSUME SavedTyped, NEW w \in Windows, NEW list, NEW panel \in {"none", "menu", "dialog"},
         SetSavedQueries(w, list, "ready", panel), Proper(list, saves'),
         saves' \in 0 .. MaxSaves, saves <= saves', Proper(wanted', saves'),
         UNCHANGED <<overlapped, cut>>
  PROVE  SavedTyped'
<1>1. PICK r : r = [phase |-> "ready", queries |-> list, queued |-> <<>>, panel |-> panel]
  OBVIOUS
<1>2. list \in Seq(SavedQuery)
  BY DEF Proper
<1>3. r \in Window /\ r.queries = list /\ r.queued = <<>>
  BY <1>1, <1>2, EmptySeq DEF Window
<1>4. windows' = [windows EXCEPT ![w] = r] /\ store' = Stored(list)
  BY <1>1 DEF SetSavedQueries
<1>5. store' \in [readable : BOOLEAN, list : Seq(SavedQuery)] /\ store'.list = list
  BY <1>2, <1>4 DEF Stored
<1>6. Proper(r.queries, saves') /\ Proper(r.queued, saves') /\ Proper(store'.list, saves')
  BY <1>3, <1>5, EmptyProper
<1>7. overlapped' \in BOOLEAN /\ cut' \in BOOLEAN
  BY DEF SavedTyped
<1> QED BY <1>3, <1>4, <1>5, <1>6, <1>7, ListsStep

LEMMA ListsOperation ==
  ASSUME SavedTyped, NEW w \in Windows,
         \/ Loaded(w)
         \/ \E name \in {"blank", "named"} : HandleSaveQuery(w, name)
         \/ \E id \in Ids : DeleteQuery(w, id) \/ ToggleFavorite(w, id)
  PROVE  SavedTyped'
<1>1. saves \in 0 .. MaxSaves /\ saves <= saves /\ MaxSaves \in Nat
      /\ Proper(wanted, saves)
  BY SavedQueriesAssumption DEF SavedTyped
<1>2. CASE Loaded(w)
  <2>1. SetSavedQueries(w, windows[w].queued, "ready", "none") /\ UNCHANGED <<overlapped, cut>>
    BY <1>2 DEF Loaded
  <2>2. saves' = saves /\ wanted' = wanted
    BY <1>2 DEF Loaded
  <2> QED BY <1>1, <2>1, <2>2, WindowTyped, ListsSet
<1>3. ASSUME NEW name, HandleSaveQuery(w, name) PROVE SavedTyped'
  <2>1. PICK list : list = Put(windows[w].queries)
    OBVIOUS
  <2>2. SetSavedQueries(w, list, "ready", "none") /\ UNCHANGED <<overlapped, cut>>
    BY <1>3, <2>1 DEF HandleSaveQuery
  <2>3. saves < MaxSaves /\ saves' = saves + 1 /\ wanted' = Put(wanted)
    BY <1>3 DEF HandleSaveQuery
  <2>4. Proper(list, saves + 1) /\ Proper(wanted', saves + 1)
    BY <1>1, <2>1, <2>3, WindowTyped, PutProper
  <2>5. saves + 1 \in 0 .. MaxSaves /\ saves <= saves + 1
    BY <1>1, <2>3
  <2> QED BY <2>2, <2>3, <2>4, <2>5, ListsSet
<1>4. ASSUME NEW id, DeleteQuery(w, id) PROVE SavedTyped'
  <2>1. PICK list : list = Without(windows[w].queries, id)
    OBVIOUS
  <2>2. SetSavedQueries(w, list, "ready", "menu") /\ UNCHANGED <<overlapped, cut>>
    BY <1>4, <2>1 DEF DeleteQuery
  <2>3. saves' = saves /\ wanted' = Without(wanted, id)
    BY <1>4 DEF DeleteQuery
  <2>4. Proper(list, saves) /\ Proper(wanted', saves)
    BY <1>1, <2>1, <2>3, WindowTyped, WithoutProper
  <2> QED BY <1>1, <2>2, <2>3, <2>4, ListsSet
<1>5. ASSUME NEW id, ToggleFavorite(w, id) PROVE SavedTyped'
  <2>1. PICK list : list = Toggled(windows[w].queries, id)
    OBVIOUS
  <2>2. SetSavedQueries(w, list, "ready", "menu") /\ UNCHANGED <<overlapped, cut>>
    BY <1>5, <2>1 DEF ToggleFavorite
  <2>3. saves' = saves /\ wanted' = Toggled(wanted, id)
    BY <1>5 DEF ToggleFavorite
  <2>4. Proper(list, saves) /\ Proper(wanted', saves)
    BY <1>1, <2>1, <2>3, WindowTyped, ToggledProper
  <2> QED BY <1>1, <2>2, <2>3, <2>4, ListsSet
<1> QED BY <1>2, <1>3, <1>4, <1>5

\* A window goes away, or opens and closes a panel: its lists are another's or as
\* they were.
LEMMA ListsPanel ==
  ASSUME SavedTyped, NEW w \in Windows,
         \/ Unmount(w)
         \/ \E panel \in {"none", "menu", "dialog"} : ShowPanel(w, panel)
         \/ \E id \in Ids : LoadFromMenu(w, id)
  PROVE  SavedTyped'
<1>1. /\ saves \in 0 .. MaxSaves /\ saves <= saves /\ saves' = saves
      /\ store' = store /\ wanted' = wanted /\ overlapped' = overlapped
  BY SavedQueriesAssumption DEF Unmount, ShowPanel, LoadFromMenu, SavedTyped
<1>2. cut' \in BOOLEAN
  BY DEF Unmount, ShowPanel, LoadFromMenu, SavedTyped
<1>3. PICK r \in Window : /\ windows' = [windows EXCEPT ![w] = r]
                          /\ Proper(r.queries, saves) /\ Proper(r.queued, saves)
  <2>1. CASE Unmount(w)
    <3>1. Closed \in Window /\ Closed.queries = <<>> /\ Closed.queued = <<>>
      BY EmptySeq DEF Closed, Window
    <3> QED BY <2>1, <3>1, EmptyProper DEF Unmount
  <2>2. ASSUME NEW panel \in {"none", "menu", "dialog"},
               windows' = [windows EXCEPT ![w].panel = panel]
        PROVE  \E r \in Window : /\ windows' = [windows EXCEPT ![w] = r]
                                 /\ Proper(r.queries, saves) /\ Proper(r.queued, saves)
    <3>1. PICK r : r = [windows[w] EXCEPT !.panel = panel]
      OBVIOUS
    <3>2. r \in Window /\ r.queries = windows[w].queries /\ r.queued = windows[w].queued
      BY <3>1, WindowTyped DEF Window
    <3>3. windows' = [windows EXCEPT ![w] = r]
      BY <2>2, <3>1
    <3> QED BY <3>2, <3>3, WindowTyped
  <2> QED BY <2>1, <2>2 DEF ShowPanel, LoadFromMenu
<1>4. Proper(store.list, saves) /\ Proper(wanted, saves) /\ overlapped \in BOOLEAN
      /\ store \in [readable : BOOLEAN, list : Seq(SavedQuery)]
  BY DEF SavedTyped
<1> QED BY <1>1, <1>2, <1>3, <1>4, ListsStep

LEMMA ListsInit == SavedQueriesInit => SavedTyped
<1> SUFFICES ASSUME SavedQueriesInit PROVE SavedTyped
  OBVIOUS
<1>1. Closed \in Window /\ Closed.queries = <<>> /\ Closed.queued = <<>>
  BY EmptySeq DEF Closed, Window
<1>2. windows = [w \in Windows |-> Closed] /\ wanted = <<>> /\ saves = 0
      /\ overlapped = FALSE /\ cut = FALSE
  BY DEF SavedQueriesInit
<1>3. store \in [readable : BOOLEAN, list : Seq(SavedQuery)] /\ store.list = <<>>
  BY EmptySeq DEF SavedQueriesInit
<1>4. 0 \in 0 .. MaxSaves
  BY SavedQueriesAssumption
<1> QED BY <1>1, <1>2, <1>3, <1>4, EmptyProper DEF SavedTyped

LEMMA ListsNext == SavedTyped /\ [SavedQueriesNext]_savedQueriesVars => SavedTyped'
<1> SUFFICES ASSUME SavedTyped, [SavedQueriesNext]_savedQueriesVars PROVE SavedTyped'
  OBVIOUS
<1>1. CASE UNCHANGED savedQueriesVars
  BY <1>1 DEF savedQueriesVars, SavedTyped
<1> QED BY <1>1, ListsMount, ListsOperation, ListsPanel DEF SavedQueriesNext

LEMMA ListsTyped == SavedTyped => SavedQueriesTypeOK
BY DEF SavedTyped, Proper, SavedQueriesTypeOK

\* A saved query of ui/src/hooks/useSavedQueries.ts is lost in two ways only: to
\* another window over the same store, or by leaving the page in mid-mount.
THEOREM QueriesKept == SavedQueriesSpec => [](SavedQueriesTypeOK /\ SavedQueriesAreKept)
<1>1. SavedInv => SavedQueriesAreKept
  BY DEF SavedInv, OneCopy, SavedQueriesAreKept
<1> QED
  BY SavedInit, SavedNext, ListsInit, ListsNext, ListsTyped, <1>1, PTL DEF SavedQueriesSpec

-----------------------------------------------------------------------------
(* The HTTP client (ApiClient).                                              *)

RequestRecord == [phase : {"new", "sent", "waiting", "done", "failed"},
           attempt : 0 .. MaxAttempts, delay : InitialDelay .. MaxDelay,
           applied : 0 .. MaxAttempts, unheard : 0 .. MaxAttempts, rejected : BOOLEAN]

\* What the server has done and the browser was not told of is all it has done,
\* until a response is read; an attempt does at most one thing; and none waits
\* that was the last, or was rejected.
Sound(q) ==
  /\ q.applied = IF q.phase = "done" THEN 1 + q.unheard ELSE q.unheard
  /\ q.phase = "sent" => q.applied < q.attempt
  /\ q.phase = "waiting" => q.applied <= q.attempt /\ q.attempt < MaxAttempts
  /\ q.rejected => q.phase = "failed"

RequestInv ==
  /\ request \in [Requests -> RequestRecord]
  /\ \A r \in Requests : Sound(request[r])

LEMMA RetryLimits ==
  /\ MaxAttempts \in Nat /\ MaxAttempts >= 1
  /\ InitialDelay \in Nat /\ MaxDelay \in Nat /\ InitialDelay <= MaxDelay
  /\ BackoffFactor \in Nat /\ BackoffFactor >= 1
BY ApiClientAssumption

\* The next delay of retry.ts:62 stays within its limits.
LEMMA DelayBounded ==
  ASSUME NEW d \in InitialDelay .. MaxDelay
  PROVE  Min({d * BackoffFactor, MaxDelay}) \in InitialDelay .. MaxDelay
<1> DEFINE S == {d * BackoffFactor, MaxDelay}
<1>1. /\ InitialDelay \in Nat /\ MaxDelay \in Nat /\ d \in Nat
      /\ BackoffFactor \in Nat /\ BackoffFactor >= 1 /\ d >= InitialDelay
      /\ InitialDelay <= MaxDelay
  BY ApiClientAssumption
<1>2. d * BackoffFactor \in Nat /\ d * BackoffFactor >= InitialDelay
  <2> DEFINE p == d * BackoffFactor
  <2>1. d * BackoffFactor >= d
    BY <1>1
  <2> QED BY <1>1, <2>1
<1>3. \E x \in S : \A y \in S : x <= y
  BY <1>1, <1>2
<1>4. Min(S) \in S /\ \A y \in S : Min(S) <= y
  BY <1>3 DEF Min
<1> QED
  BY <1>1, <1>2, <1>4

LEMMA RequestInit == ApiClientInit => RequestInv
BY RetryLimits DEF ApiClientInit, RequestInv, NewRequest, RequestRecord, Sound

\* A step that leaves one request sound leaves them all sound.
LEMMA OneChanges ==
  ASSUME RequestInv, NEW r \in Requests, NEW next \in RequestRecord, Sound(next),
         request' = [request EXCEPT ![r] = next]
  PROVE  RequestInv'
<1>1. request' \in [Requests -> RequestRecord]
  BY DEF RequestInv
<1>2. ASSUME NEW s \in Requests PROVE Sound(request'[s])
  <2>1. CASE s = r
    BY <2>1 DEF RequestInv
  <2>2. CASE s # r
    <3>1. request'[s] = request[s]
      BY <2>2 DEF RequestInv
    <3> QED BY <3>1 DEF RequestInv
  <2> QED BY <2>1, <2>2
<1> QED
  BY <1>1, <1>2 DEF RequestInv

LEMMA RequestFields ==
  ASSUME NEW q \in RequestRecord
  PROVE  /\ q.attempt \in Nat /\ q.attempt <= MaxAttempts
         /\ q.delay \in InitialDelay .. MaxDelay
         /\ q.applied \in Nat /\ q.applied <= MaxAttempts
         /\ q.unheard \in Nat /\ q.unheard <= MaxAttempts
         /\ q.rejected \in BOOLEAN
BY RetryLimits DEF RequestRecord

LEMMA CallStep ==
  ASSUME RequestInv, NEW r \in Requests, Call(r)
  PROVE  RequestInv'
<1>1. NewRequest("sent", 1) \in RequestRecord
  BY RetryLimits DEF NewRequest, RequestRecord
<1>2. Sound(NewRequest("sent", 1))
  BY DEF NewRequest, Sound
<1> QED
  BY <1>1, <1>2, OneChanges DEF Call

LEMMA ResolvesStep ==
  ASSUME RequestInv, NEW r \in Requests, Resolves(r)
  PROVE  RequestInv'
<1> DEFINE q == request[r]
           next == [q EXCEPT !.phase = "done", !.applied = q.applied + 1]
<1>1. q \in RequestRecord /\ Sound(q) /\ q.phase = "sent"
  BY DEF RequestInv, Resolves
<1>2. request' = [request EXCEPT ![r] = next]
  BY DEF Resolves
<1>3. q.applied = q.unheard /\ q.applied < q.attempt /\ ~q.rejected
  BY <1>1 DEF Sound
<1>4. q.applied + 1 \in 0 .. MaxAttempts
  BY <1>1, <1>3, RequestFields, RetryLimits
<1>5. next \in RequestRecord
  BY <1>1, <1>4 DEF RequestRecord
<1>6. /\ next.phase = "done" /\ next.applied = q.applied + 1
      /\ next.unheard = q.unheard /\ next.rejected = q.rejected
  BY <1>1 DEF RequestRecord
<1>7. Sound(next)
  <2> HIDE DEF next
  <2> QED BY <1>1, <1>3, <1>6, RequestFields DEF Sound
<1> HIDE DEF next
<1> QED
  BY <1>2, <1>5, <1>7, OneChanges

\* A failure counts what the server has done as unheard, and ends the request
\* if it was the last attempt or the client's own fault.
LEMMA FailsStep ==
  ASSUME RequestInv, NEW r \in Requests, NEW error \in Errors, Fails(r, error)
  PROVE  RequestInv'
<1> DEFINE q == request[r]
           again == q.attempt # MaxAttempts /\ ShouldRetry(error)
           next(n) == [q EXCEPT !.phase = IF again THEN "waiting" ELSE "failed",
                         !.applied = q.applied + n, !.unheard = q.unheard + n,
                         !.rejected = IF error = "client" THEN TRUE ELSE q.rejected]
<1>1. q \in RequestRecord /\ Sound(q) /\ q.phase = "sent"
  BY DEF RequestInv, Fails
<1>2. PICK n \in MayApply(error) :
        request' = [request EXCEPT ![r].phase = IF again THEN "waiting" ELSE "failed",
                      ![r].applied = @ + n, ![r].unheard = @ + n,
                      ![r].rejected = IF error = "client" THEN TRUE ELSE @]
  BY Zenon DEF Fails
<1>3. request' = [request EXCEPT ![r] = next(n)]
  <2> HIDE DEF again
  <2> QED BY <1>2
<1>4. n \in {0, 1}
  <2>1. MayApply(error) \subseteq {0, 1}
    BY DEF MayApply, Errors
  <2> QED BY <1>2, <2>1
<1>5. q.applied = q.unheard /\ q.applied < q.attempt /\ ~q.rejected
  BY <1>1 DEF Sound
<1>6. q.applied + n \in 0 .. MaxAttempts /\ q.unheard + n \in 0 .. MaxAttempts
  BY <1>1, <1>4, <1>5, RequestFields, RetryLimits
<1>7. next(n) \in RequestRecord
  <2>1. (IF error = "client" THEN TRUE ELSE q.rejected) \in BOOLEAN
    BY <1>1, RequestFields
  <2>2. (IF again THEN "waiting" ELSE "failed") \in {"waiting", "failed"}
    OBVIOUS
  <2> QED BY <1>1, <1>6, <2>1, <2>2 DEF RequestRecord
<1>8. /\ next(n).phase = IF again THEN "waiting" ELSE "failed"
      /\ next(n).attempt = q.attempt
      /\ next(n).applied = q.applied + n /\ next(n).unheard = q.unheard + n
      /\ next(n).rejected = IF error = "client" THEN TRUE ELSE q.rejected
  BY <1>1 DEF RequestRecord
<1>9. Sound(next(n))
  <2>1. error = "client" => ~again
    BY DEF ShouldRetry
  <2>2. again => q.applied + n <= q.attempt /\ q.attempt < MaxAttempts
    BY <1>1, <1>4, <1>5, RequestFields, RetryLimits
  <2>3. next(n).applied = next(n).unheard
    BY <1>5, <1>8
  <2> HIDE DEF next
  <2>4. next(n).rejected => ~again
    BY <1>5, <1>8, <2>1
  <2> HIDE DEF again
  <2> QED BY <1>8, <2>2, <2>3, <2>4 DEF Sound
<1> HIDE DEF next
<1> QED
  BY <1>3, <1>7, <1>9, OneChanges

LEMMA RetryStep ==
  ASSUME RequestInv, NEW r \in Requests, Retry(r)
  PROVE  RequestInv'
<1> DEFINE q == request[r]
           delay == Min({q.delay * BackoffFactor, MaxDelay})
           next == [q EXCEPT !.phase = "sent", !.attempt = q.attempt + 1, !.delay = delay]
<1>1. q \in RequestRecord /\ Sound(q) /\ q.phase = "waiting"
  BY DEF RequestInv, Retry
<1>2. request' = [request EXCEPT ![r] = next]
  BY DEF Retry
<1>3. delay \in InitialDelay .. MaxDelay
  BY <1>1, DelayBounded, RequestFields
<1> HIDE DEF delay
<1>4. q.applied = q.unheard /\ q.applied <= q.attempt /\ q.attempt < MaxAttempts /\ ~q.rejected
  BY <1>1 DEF Sound
<1>5. q.attempt + 1 \in 0 .. MaxAttempts
  BY <1>1, <1>4, RequestFields, RetryLimits
<1>6. next \in RequestRecord
  BY <1>1, <1>3, <1>5 DEF RequestRecord
<1>7. /\ next.phase = "sent" /\ next.attempt = q.attempt + 1
      /\ next.applied = q.applied /\ next.unheard = q.unheard
      /\ next.rejected = q.rejected
  BY <1>1 DEF RequestRecord
<1>8. Sound(next)
  <2> HIDE DEF next
  <2> QED BY <1>1, <1>4, <1>7, RequestFields DEF Sound
<1> HIDE DEF next
<1> QED
  BY <1>2, <1>6, <1>8, OneChanges

LEMMA RequestNext == RequestInv /\ [ApiClientNext]_apiClientVars => RequestInv'
<1> SUFFICES ASSUME RequestInv, [ApiClientNext]_apiClientVars PROVE RequestInv'
  OBVIOUS
<1>1. CASE UNCHANGED apiClientVars
  BY <1>1 DEF apiClientVars, RequestInv
<1>2. ASSUME NEW r \in Requests,
             Call(r) \/ Resolves(r) \/ Retry(r) \/ \E error \in Errors : Fails(r, error)
      PROVE  RequestInv'
  BY <1>2, CallStep, ResolvesStep, RetryStep, FailsStep
<1> QED
  BY <1>1, <1>2 DEF ApiClientNext

\* The types of ui/src/utils/retry.ts hold for every request: no attempt beyond
\* the last, and no delay beyond the longest.
THEOREM RequestsTyped == ApiClientSpec => []ApiClientTypeOK
<1>1. RequestInv => ApiClientTypeOK
  BY DEF RequestInv, ApiClientTypeOK, RequestRecord
<1> QED
  BY RequestInit, RequestNext, <1>1, PTL DEF ApiClientSpec

\* After success the server has done what was asked, more than once only where
\* an answer was lost, and what it has rejected is never sent again
\* (ui/src/utils/retry.ts).
THEOREM OutcomesTrue == ApiClientSpec => []OutcomeIsTrue
<1>1. RequestInv => OutcomeIsTrue
  BY DEF RequestInv, OutcomeIsTrue, Sound
<1> QED
  BY RequestInit, RequestNext, <1>1, PTL DEF ApiClientSpec

-----------------------------------------------------------------------------
(* The investigation page (Investigation).                                   *)

Asked == [search : Search, overtaken : BOOLEAN]

\* The newest fetch in flight, unless a later one has been answered, is of the
\* search on the page when no timer is armed to send another.
InvestigationInv ==
  /\ investigation \in Page /\ url \in Search
  /\ ~investigation.debounce /\ investigation.pending # <<>>
       /\ ~investigation.pending[Len(investigation.pending)].overtaken
       => investigation.pending[Len(investigation.pending)].search = Current
  /\ RowsOfTheSearch

LEMMA SearchType ==
  /\ NoSearch \in Search
  /\ \A s \in Search : s = [query |-> s.query, filters |-> s.filters]
                         /\ s.query \in Queries /\ s.filters \in Filters
  /\ investigation \in Page => Current \in Search
<1>1. NoFilters \in Filters
  BY DEF NoFilters, Filters, Values
<1> QED
  BY <1>1, InvestigationAssumption DEF NoSearch, Search, Current, Page

LEMMA FilteredLogsType ==
  /\ \A logs \in SUBSET Logs : \A f : Filtered(logs, f) \in SUBSET Logs
  /\ \A f : Filtered({}, f) = {}
BY DEF Filtered

\* A page that is mounted has asked for nothing, and is about to.
LEMMA SearchMountStep ==
  ASSUME NEW s \in Search
  PROVE  /\ Mounted(s) \in Page /\ Mounted(s).query = s.query /\ Mounted(s).filters = s.filters
         /\ Mounted(s).debounce /\ Mounted(s).logs = {} /\ Mounted(s).filteredLogs = {}
<1>1. s.query \in Queries /\ s.filters \in Filters
  BY SearchType
<1>2. <<>> \in Seq(Asked)
  OBVIOUS
<1> DEFINE p == <<>>
<1>3. Mounted(s) = [query |-> s.query, filters |-> s.filters, logs |-> {}, filteredLogs |-> {},
                    loading |-> FALSE, selectedLogs |-> {}, debounce |-> TRUE, pending |-> p,
                    shown |-> {}, late |-> FALSE]
  BY DEF Mounted
<1>4. p \in Seq(Asked)
  BY <1>2
<1> HIDE DEF p
<1> QED
  BY <1>1, <1>3, <1>4 DEF Page, Asked

LEMMA InvestigationStarts == InvestigationInit => InvestigationInv
<1> SUFFICES ASSUME InvestigationInit PROVE InvestigationInv
  OBVIOUS
<1>1. /\ investigation = Mounted(NoSearch) /\ url = NoSearch
      /\ NoSearch = [query |-> NoSearch.query, filters |-> NoSearch.filters]
  BY SearchType DEF InvestigationInit
<1>2. Current = NoSearch
  BY <1>1, SearchType, SearchMountStep DEF Current
<1> QED
  BY <1>1, <1>2, SearchType, SearchMountStep, FilteredLogsType DEF InvestigationInv, RowsOfTheSearch

LEMMA ReloadStep == ASSUME InvestigationInv, Reload PROVE InvestigationInv'
<1>1. /\ investigation' = Mounted(url) /\ url' = url /\ url \in Search
      /\ url = [query |-> url.query, filters |-> url.filters]
  BY SearchType DEF Reload, InvestigationInv
<1>2. Current' = url
  BY <1>1, SearchMountStep DEF Current
<1> QED
  BY <1>1, <1>2, SearchMountStep, FilteredLogsType DEF InvestigationInv, RowsOfTheSearch

LEMMA SetSearchStep ==
  ASSUME InvestigationInv, NEW s \in Search, SetSearch(s) PROVE InvestigationInv'
<1> DEFINE rows == Filtered(investigation.logs, s.filters)
<1>1. investigation \in Page /\ rows \in SUBSET Logs
  BY FilteredLogsType DEF InvestigationInv, Page
<1>2. s = [query |-> s.query, filters |-> s.filters] /\ s.query \in Queries /\ s.filters \in Filters
  BY SearchType
<1>3. url' = s /\ investigation' = [investigation EXCEPT !.query = s.query,
                    !.filters = s.filters, !.filteredLogs = rows, !.debounce = TRUE]
  BY DEF SetSearch
<1> HIDE DEF rows
<1>4. /\ investigation' \in Page /\ investigation'.query = s.query
      /\ investigation'.filters = s.filters /\ investigation'.filteredLogs = rows
      /\ investigation'.debounce /\ investigation'.logs = investigation.logs
  BY <1>1, <1>2, <1>3 DEF Page
<1>5. Current' = s
  BY <1>2, <1>4 DEF Current
<1> QED
  BY <1>3, <1>4, <1>5 DEF InvestigationInv, RowsOfTheSearch, rows

LEMMA FetchStep ==
  ASSUME InvestigationInv, NEW debounce \in BOOLEAN, FetchLogs(debounce) PROVE InvestigationInv'
<1> DEFINE r == [search |-> Current, overtaken |-> FALSE]
           pending == Append(investigation.pending, r)
<1>1. /\ investigation \in Page /\ investigation.pending \in Seq(Asked) /\ UNCHANGED url
      /\ r \in Asked /\ r.search = Current
  BY SearchType DEF InvestigationInv, FetchLogs, Page, Asked
<1>2. investigation' = [investigation EXCEPT !.loading = TRUE, !.debounce = debounce,
                          !.pending = pending]
  BY DEF FetchLogs
<1> HIDE DEF r
<1>3. pending \in Seq(Asked) /\ pending # <<>> /\ pending[Len(pending)] = r
  BY <1>1, AppendProperties
<1> HIDE DEF pending
<1>4. /\ investigation' \in Page /\ investigation'.pending = pending
      /\ investigation'.query = investigation.query
      /\ investigation'.filters = investigation.filters
      /\ investigation'.logs = investigation.logs
      /\ investigation'.filteredLogs = investigation.filteredLogs
  BY <1>1, <1>2, <1>3 DEF Page, Asked
<1>5. Current' = Current
  BY <1>4 DEF Current
<1> QED
  BY <1>1, <1>3, <1>4, <1>5 DEF InvestigationInv, RowsOfTheSearch

LEMMA ArriveStep ==
  ASSUME InvestigationInv, NEW i \in DOMAIN investigation.pending, LogsArrive(i)
  PROVE  InvestigationInv'
<1> DEFINE q == investigation.pending
           left == AfterAnswer(q, i)
<1>1. PICK logs \in SUBSET Logs : Show(i, logs, FALSE)
  BY DEF LogsArrive
<1> DEFINE rows == Filtered(logs, investigation.filters)
<1>2. /\ investigation \in Page /\ q \in Seq(Asked) /\ i \in 1 .. Len(q)
      /\ q[i].overtaken \in BOOLEAN /\ q[i].search \in Search
  <2>1. investigation \in Page /\ q \in Seq(Asked) /\ i \in 1 .. Len(q)
    BY DEF InvestigationInv, Page, Asked
  <2>2. q[i] \in Asked
    BY <2>1, ElementOfSeq
  <2> QED BY <2>1, <2>2 DEF Asked
<1>3. \A r \in Asked : [r EXCEPT !.overtaken = TRUE] \in Asked
                         /\ [r EXCEPT !.overtaken = TRUE].overtaken = TRUE
  BY DEF Asked
<1>4. /\ left \in Seq(Asked)
      /\ left = <<>> => i = Len(q)
      /\ left # <<>> /\ ~left[Len(left)].overtaken
           => q # <<>> /\ left[Len(left)] = q[Len(q)] /\ ~q[Len(q)].overtaken
  BY <1>2, <1>3, NewestStays
<1>5. rows \in SUBSET Logs
  BY FilteredLogsType
<1>6. left = Overtake(q, i)
  BY DEF Overtake, AfterAnswer
<1>7. investigation' = [investigation EXCEPT !.logs = logs, !.filteredLogs = rows,
        !.loading = FALSE, !.pending = Overtake(q, i), !.shown = {q[i].search},
        !.late = q[i].overtaken]
  BY <1>1 DEF Show
<1> HIDE DEF left, rows
<1>8. /\ investigation' \in Page /\ investigation'.pending = left
      /\ investigation'.debounce = investigation.debounce
      /\ investigation'.query = investigation.query
      /\ investigation'.filters = investigation.filters
      /\ investigation'.logs = logs /\ investigation'.filteredLogs = rows
      /\ investigation'.shown = {q[i].search} /\ investigation'.late = q[i].overtaken
  BY <1>2, <1>4, <1>5, <1>6, <1>7 DEF Page, Asked
<1>9. Current' = Current /\ UNCHANGED url
  BY <1>1, <1>8 DEF Current, Show
<1>10. ASSUME ~investigation.debounce, left # <<>>, ~left[Len(left)].overtaken
       PROVE  left[Len(left)].search = Current
  BY <1>4, <1>10 DEF InvestigationInv
<1>11. ASSUME ~investigation.debounce, left = <<>>, ~q[i].overtaken
       PROVE  q[i].search = Current
  <2>1. q # <<>> /\ i = Len(q)
    BY <1>2, <1>4, <1>11
  <2> QED BY <2>1, <1>11 DEF InvestigationInv
<1> QED
  BY <1>8, <1>9, <1>10, <1>11 DEF InvestigationInv, RowsOfTheSearch, rows

\* The selection, which concerns no fetch.
LEMMA SelectStep ==
  ASSUME InvestigationInv, UNCHANGED url, NEW chosen \in SUBSET Logs,
         investigation' = [investigation EXCEPT !.selectedLogs = chosen]
  PROVE  InvestigationInv'
<1>1. investigation \in Page
  BY DEF InvestigationInv
<1>2. /\ investigation' \in Page /\ investigation'.pending = investigation.pending
      /\ investigation'.debounce = investigation.debounce
      /\ investigation'.query = investigation.query
      /\ investigation'.filters = investigation.filters
      /\ investigation'.logs = investigation.logs
      /\ investigation'.filteredLogs = investigation.filteredLogs
      /\ investigation'.shown = investigation.shown
      /\ investigation'.late = investigation.late
  BY <1>1 DEF Page
<1>3. Current' = Current
  BY <1>2 DEF Current
<1> QED
  BY <1>2, <1>3 DEF InvestigationInv, RowsOfTheSearch

LEMMA FilterStep ==
  ASSUME InvestigationInv, NEW k \in Keys, NEW v \in Values(k), HandleFilterChange(k, v)
  PROVE  InvestigationInv'
<1> DEFINE f == [Current.filters EXCEPT ![k] = v]
           s == [Current EXCEPT !.filters = f]
<1>1. Current \in Search /\ Current.filters \in Filters
  BY SearchType DEF InvestigationInv
<1>2. Current.filters \in [Keys -> {"", "all", "value"}]
        /\ \A j \in Keys : Current.filters[j] \in Values(j)
  BY <1>1 DEF Filters
<1>3. v \in {"", "all", "value"}
  BY DEF Values
<1>4. f \in [Keys -> {"", "all", "value"}] /\ \A j \in Keys : f[j] \in Values(j)
  BY <1>2, <1>3
<1>5. f \in Filters
  BY <1>4 DEF Filters
<1>6. [Current EXCEPT !.filters[k] = v] = s
  OBVIOUS
<1> HIDE DEF f
<1>7. s \in Search
  BY <1>1, <1>5 DEF Search
<1> HIDE DEF s
<1> QED
  BY <1>6, <1>7, SetSearchStep DEF HandleFilterChange

LEMMA InvestigationStep ==
  InvestigationInv /\ [InvestigationNext]_investigationVars => InvestigationInv'
<1> SUFFICES ASSUME InvestigationInv, [InvestigationNext]_investigationVars
             PROVE  InvestigationInv'
  OBVIOUS
<1>1. /\ investigation \in Page /\ Current \in Search /\ NoSearch \in Search
      /\ investigation.debounce \in BOOLEAN
      /\ investigation.filteredLogs \in SUBSET Logs /\ investigation.selectedLogs \in SUBSET Logs
  BY SearchType DEF InvestigationInv, Page
<1>2. ASSUME NEW q \in Queries, TypeQuery(q) PROVE InvestigationInv'
  <2>1. [Current EXCEPT !.query = q] \in Search
    BY <1>1 DEF Search
  <2> QED BY <1>2, <2>1, SetSearchStep DEF TypeQuery
<1>3. ASSUME NEW k \in Keys, RemoveFilter(k) PROVE InvestigationInv'
  <2>1. "all" \in Values(k)
    BY DEF Values
  <2> QED BY <1>3, <2>1, FilterStep DEF RemoveFilter
<1>4. ASSUME NEW k \in Keys, NEW v \in {"", "value"}, AddFilter(k, v) PROVE InvestigationInv'
  BY <1>4, FilterStep DEF AddFilter
<1>5. ASSUME NEW s \in Search, HandleLoadQuery(s) PROVE InvestigationInv'
  BY <1>5, SetSearchStep DEF HandleLoadQuery
<1>6. CASE ClearFilters
  BY <1>1, <1>6, SetSearchStep DEF ClearFilters
<1>7. CASE DebounceFires \/ Refresh \/ PressSearch
  BY <1>1, <1>7, FetchStep DEF DebounceFires, Refresh, PressSearch
<1>8. ASSUME NEW i \in DOMAIN investigation.pending, LogsArrive(i) PROVE InvestigationInv'
  BY <1>8, ArriveStep
<1>9. CASE ToggleSelectAll
  BY <1>1, <1>9, SelectStep DEF ToggleSelectAll
<1>10. ASSUME NEW l \in Logs, ToggleSelectLog(l) PROVE InvestigationInv'
  <2>1. PICK chosen \in SUBSET Logs : investigation' = [investigation EXCEPT !.selectedLogs = chosen]
    BY <1>1, <1>10 DEF ToggleSelectLog
  <2> QED BY <1>10, <2>1, SelectStep DEF ToggleSelectLog
<1>11. CASE ClearSelection
  BY <1>11, SelectStep DEF ClearSelection
<1>12. CASE Reload
  BY <1>12, ReloadStep
<1>13. CASE UNCHANGED investigationVars
  BY <1>13 DEF investigationVars, InvestigationInv, RowsOfTheSearch, Current
<1> QED
  BY <1>2, <1>3, <1>4, <1>5, <1>6, <1>7, <1>8, <1>9, <1>10, <1>11, <1>12, <1>13
  DEF InvestigationNext

\* The rows of ui/src/pages/Investigation.tsx are those of the search it shows, for
\* any queries, filters and logs and any number of fetches in flight.
THEOREM RowsOfSearch == InvestigationSpec => [](InvestigationTypeOK /\ RowsOfTheSearch)
<1>1. InvestigationInv => InvestigationTypeOK /\ RowsOfTheSearch
  BY DEF InvestigationInv, InvestigationTypeOK
<1> QED
  BY InvestigationStarts, InvestigationStep, <1>1, PTL DEF InvestigationSpec

-----------------------------------------------------------------------------
(* The event search (EventSearch).                                           *)

Searching == [search : SearchBody, by_timer : BOOLEAN, overtaken : BOOLEAN]
Listing == [sent : SUBSET SearchBody, overtaken : BOOLEAN]
EventPage == [mode : {"builder", "raw"}, query : RawQueries, clauses : ClauseLists,
              loading : BOOLEAN, pending : Seq(Searching), timers : Seq(SearchBody),
              shown : SUBSET SearchBody, asked : SUBSET SearchBody, late : BOOLEAN,
              by_timer : BOOLEAN, showSaveModal : BOOLEAN, saving : Seq(SearchBody),
              savedSearches : SUBSET SearchBody, listing : Seq(Listing), missed : BOOLEAN,
              acknowledged : SUBSET SearchBody]

\* The newest search in flight, unless a later one has been answered, is the one the
\* user asked for last, or a timer's, when no timer is armed.
NewestAsked(pending, timers, asked) ==
  timers = <<>> /\ pending # <<>> /\ ~pending[Len(pending)].overtaken
    => pending[Len(pending)].by_timer \/ asked = {pending[Len(pending)].search}

\* The newest read of the list will bring what was acknowledged.
NewestReads(listing, acknowledged) ==
  listing # <<>> /\ ~listing[Len(listing)].overtaken
    => acknowledged \subseteq listing[Len(listing)].sent

EventSearchInv ==
  /\ eventSearch \in EventPage /\ searches \in SUBSET SearchBody
  /\ eventSearch.acknowledged \subseteq searches
  /\ NewestAsked(eventSearch.pending, eventSearch.timers, eventSearch.asked)
  /\ NewestReads(eventSearch.listing, eventSearch.acknowledged)
  /\ EventSearchAnswers

LEMMA OnScreenType == eventSearch \in EventPage => OnScreen \in SearchBody
<1>1. ASSUME NEW mode \in {"builder", "raw"}, NEW query \in RawQueries, NEW clauses \in ClauseLists
      PROVE  SearchParams(mode, query, clauses) \in SearchBody
  BY DEF SearchParams, SearchBody
<1> QED
  BY <1>1 DEF OnScreen, EventPage

LEMMA SearchOvertakes ==
  /\ \A r \in Searching : [r EXCEPT !.overtaken = TRUE] \in Searching
                            /\ [r EXCEPT !.overtaken = TRUE].overtaken = TRUE
  /\ \A r \in Listing : [r EXCEPT !.overtaken = TRUE] \in Listing
                          /\ [r EXCEPT !.overtaken = TRUE].overtaken = TRUE
BY DEF Searching, Listing

\* A step that neither sends, answers nor lists anything.
LEMMA QuietStep ==
  ASSUME EventSearchInv, UNCHANGED searches, NEW mode \in {"builder", "raw"},
         NEW query \in RawQueries, NEW clauses \in ClauseLists, NEW show \in BOOLEAN,
         NEW saving \in Seq(SearchBody),
         eventSearch' = [eventSearch EXCEPT !.mode = mode, !.query = query, !.clauses = clauses,
                           !.showSaveModal = show, !.saving = saving]
  PROVE  EventSearchInv'
<1>1. eventSearch \in EventPage
  BY DEF EventSearchInv
<1>2. /\ eventSearch' \in EventPage /\ eventSearch'.pending = eventSearch.pending
      /\ eventSearch'.timers = eventSearch.timers /\ eventSearch'.asked = eventSearch.asked
      /\ eventSearch'.listing = eventSearch.listing
      /\ eventSearch'.acknowledged = eventSearch.acknowledged
      /\ eventSearch'.late = eventSearch.late /\ eventSearch'.by_timer = eventSearch.by_timer
      /\ eventSearch'.shown = eventSearch.shown /\ eventSearch'.missed = eventSearch.missed
      /\ eventSearch'.savedSearches = eventSearch.savedSearches
  BY <1>1 DEF EventPage
<1> QED
  BY <1>2 DEF EventSearchInv, EventSearchAnswers

LEMMA SearchStarts == EventSearchInit => EventSearchInv
<1> SUFFICES ASSUME EventSearchInit PROVE EventSearchInv
  OBVIOUS
<1> DEFINE none == <<>>
           read == [sent |-> {}, overtaken |-> FALSE]
           listing == <<read>>
           first == CHOOSE c \in ClauseLists : TRUE
<1>1. none \in Seq(Searching) /\ none \in Seq(SearchBody) /\ none = <<>>
  OBVIOUS
<1>2. read \in Listing /\ read.sent = {}
  BY DEF Listing
<1>3. listing \in Seq(Listing) /\ listing # <<>>
  BY <1>2
<1>4. first \in ClauseLists /\ "" \in RawQueries
  BY EventSearchAssumption
<1>5. searches = {} /\ eventSearch = [mode |-> "builder", query |-> "", clauses |-> first,
        loading |-> FALSE, pending |-> none, timers |-> none, shown |-> {}, asked |-> {},
        late |-> FALSE, by_timer |-> FALSE, showSaveModal |-> FALSE, saving |-> none,
        savedSearches |-> {}, listing |-> listing, missed |-> FALSE, acknowledged |-> {}]
  BY DEF EventSearchInit, EventSearchMounted
<1> HIDE DEF none, read, listing, first
<1>6. /\ eventSearch \in EventPage /\ eventSearch.pending = none /\ eventSearch.shown = {}
      /\ eventSearch.asked = {} /\ eventSearch.acknowledged = {} /\ eventSearch.listing = listing
  BY <1>1, <1>3, <1>4, <1>5 DEF EventPage
<1> QED
  BY <1>1, <1>3, <1>5, <1>6 DEF EventSearchInv, EventSearchAnswers, NewestAsked, NewestReads

\* A request is sent: by the user, who asks for it, or by a timer.
LEMMA SendStep ==
  ASSUME EventSearchInv, UNCHANGED searches, NEW search \in SearchBody, NEW by_timer \in BOOLEAN,
         NEW timers \in Seq(SearchBody), NEW asked \in SUBSET SearchBody, by_timer \/ asked = {search},
         eventSearch' = [eventSearch EXCEPT !.loading = TRUE, !.pending = Sent(search, by_timer),
                           !.timers = timers, !.asked = asked]
  PROVE  EventSearchInv'
<1> DEFINE r == [search |-> search, by_timer |-> by_timer, overtaken |-> FALSE]
           pending == Append(eventSearch.pending, r)
<1>1. /\ eventSearch \in EventPage /\ eventSearch.pending \in Seq(Searching)
      /\ r \in Searching /\ r.search = search /\ r.by_timer = by_timer
  BY DEF EventSearchInv, EventPage, Searching
<1>2. Sent(search, by_timer) = pending
  BY DEF Sent
<1> HIDE DEF r
<1>3. pending \in Seq(Searching) /\ pending # <<>> /\ pending[Len(pending)] = r
  BY <1>1, AppendProperties
<1> HIDE DEF pending
<1>4. /\ eventSearch' \in EventPage /\ eventSearch'.pending = pending
      /\ eventSearch'.timers = timers /\ eventSearch'.asked = asked
      /\ eventSearch'.listing = eventSearch.listing
      /\ eventSearch'.acknowledged = eventSearch.acknowledged
      /\ eventSearch'.missed = eventSearch.missed
      /\ eventSearch'.savedSearches = eventSearch.savedSearches
  BY <1>1, <1>2, <1>3 DEF EventPage
<1>5. NewestAsked(pending, timers, asked)
  BY <1>1, <1>3 DEF NewestAsked
<1> QED
  BY <1>3, <1>4, <1>5 DEF EventSearchInv, EventSearchAnswers

LEMMA LoadSearchStep ==
  ASSUME EventSearchInv, NEW s \in eventSearch.savedSearches, LoadSearch(s)
  PROVE  EventSearchInv'
<1> DEFINE timers == Append(eventSearch.timers, OnScreen)
<1>1. /\ eventSearch \in EventPage /\ eventSearch.timers \in Seq(SearchBody) /\ s \in SearchBody
      /\ OnScreen \in SearchBody /\ UNCHANGED searches
  BY OnScreenType DEF EventSearchInv, EventPage, LoadSearch
<1>2. timers \in Seq(SearchBody) /\ timers # <<>>
  BY <1>1, AppendProperties
<1>3. /\ Restored(s) \in EventPage /\ Restored(s).pending = eventSearch.pending
      /\ Restored(s).timers = eventSearch.timers
      /\ Restored(s).listing = eventSearch.listing
      /\ Restored(s).acknowledged = eventSearch.acknowledged
      /\ Restored(s).missed = eventSearch.missed
      /\ Restored(s).savedSearches = eventSearch.savedSearches
  <2>1. CASE s.mode = "raw" /\ s.is # ""
    <3>1. s.is \in RawQueries /\ Restored(s) = [eventSearch EXCEPT !.mode = "raw", !.query = s.is]
      BY <1>1, <2>1 DEF SearchBody, Restored
    <3> QED BY <1>1, <3>1 DEF EventPage
  <2>2. CASE s.mode = "builder"
    <3>1. s.is \in ClauseLists
            /\ Restored(s) = [eventSearch EXCEPT !.mode = "builder", !.clauses = s.is]
      BY <1>1, <2>2 DEF SearchBody, Restored
    <3> QED BY <1>1, <3>1 DEF EventPage
  <2>3. CASE ~(s.mode = "raw" /\ s.is # "") /\ s.mode # "builder"
    BY <1>1, <2>3 DEF Restored
  <2> QED BY <2>1, <2>2, <2>3
<1>4. eventSearch' = [Restored(s) EXCEPT !.timers = timers, !.asked = {s}]
  BY <1>1, <1>3 DEF LoadSearch, EventPage
<1> HIDE DEF timers
<1>5. /\ eventSearch' \in EventPage /\ eventSearch'.timers = timers
      /\ eventSearch'.listing = eventSearch.listing
      /\ eventSearch'.acknowledged = eventSearch.acknowledged
      /\ eventSearch'.missed = eventSearch.missed
      /\ eventSearch'.savedSearches = eventSearch.savedSearches
  BY <1>1, <1>2, <1>3, <1>4 DEF EventPage
<1> QED
  BY <1>1, <1>2, <1>5 DEF EventSearchInv, EventSearchAnswers, NewestAsked

LEMMA ResultsStep ==
  ASSUME EventSearchInv, NEW i \in DOMAIN eventSearch.pending, ResultsArrive(i)
  PROVE  EventSearchInv'
<1> DEFINE q == eventSearch.pending
           left == AfterAnswer(q, i)
<1>1. /\ eventSearch \in EventPage /\ q \in Seq(Searching) /\ i \in 1 .. Len(q)
      /\ q[i].search \in SearchBody /\ q[i].by_timer \in BOOLEAN /\ q[i].overtaken \in BOOLEAN
  <2>1. eventSearch \in EventPage /\ q \in Seq(Searching) /\ i \in 1 .. Len(q)
    BY DEF EventSearchInv, EventPage
  <2>2. q[i] \in Searching
    BY <2>1, ElementOfSeq
  <2> QED BY <2>1, <2>2 DEF Searching
<1>2. /\ left \in Seq(Searching)
      /\ left = <<>> => i = Len(q)
      /\ left # <<>> /\ ~left[Len(left)].overtaken
           => q # <<>> /\ left[Len(left)] = q[Len(q)] /\ ~q[Len(q)].overtaken
  BY <1>1, SearchOvertakes, NewestStays
<1>3. left = Overtaken(q, i)
  BY DEF Overtaken, AfterAnswer
<1> HIDE DEF left
<1>4. eventSearch' = [eventSearch EXCEPT !.loading = FALSE, !.shown = {q[i].search},
        !.late = q[i].overtaken, !.by_timer = q[i].by_timer, !.pending = left]
  BY <1>1, <1>3 DEF ResultsArrive, EventPage
<1>5. /\ eventSearch' \in EventPage /\ eventSearch'.pending = left
      /\ eventSearch'.timers = eventSearch.timers /\ eventSearch'.asked = eventSearch.asked
      /\ eventSearch'.listing = eventSearch.listing
      /\ eventSearch'.acknowledged = eventSearch.acknowledged
      /\ eventSearch'.missed = eventSearch.missed
      /\ eventSearch'.savedSearches = eventSearch.savedSearches
      /\ eventSearch'.late = q[i].overtaken /\ eventSearch'.by_timer = q[i].by_timer
      /\ eventSearch'.shown = {q[i].search}
  BY <1>1, <1>2, <1>4 DEF EventPage
<1>6. NewestAsked(left, eventSearch.timers, eventSearch.asked)
  BY <1>2 DEF EventSearchInv, NewestAsked
<1>7. ASSUME left = <<>>, eventSearch.timers = <<>>, ~q[i].overtaken
      PROVE  q[i].by_timer \/ eventSearch.asked = {q[i].search}
  <2>1. q # <<>> /\ i = Len(q)
    BY <1>1, <1>2, <1>7
  <2> QED BY <1>7, <2>1 DEF EventSearchInv, NewestAsked
<1>8. UNCHANGED searches
  BY DEF ResultsArrive
<1> QED
  BY <1>5, <1>6, <1>7, <1>8 DEF EventSearchInv, EventSearchAnswers

LEMMA SaveSearchStep ==
  ASSUME EventSearchInv, NEW i \in DOMAIN eventSearch.saving, NEW ok \in BOOLEAN,
         NEW stored \in BOOLEAN, SaveReturns(i, ok, stored)
  PROVE  EventSearchInv'
<1> DEFINE q == eventSearch.saving
           left == RemoveAt(q, i)
           show == eventSearch.showSaveModal /\ ~ok
           read == [sent |-> searches', overtaken |-> FALSE]
           reads == Append(eventSearch.listing, read)
           listing == IF ok THEN reads ELSE eventSearch.listing
           acknowledged == IF ok THEN eventSearch.acknowledged \union {q[i]}
                                 ELSE eventSearch.acknowledged
<1>1. /\ eventSearch \in EventPage /\ q \in Seq(SearchBody) /\ q[i] \in SearchBody
      /\ i \in 1 .. Len(q) /\ searches \in SUBSET SearchBody
      /\ eventSearch.listing \in Seq(Listing) /\ eventSearch.acknowledged \in SUBSET SearchBody
  BY ElementOfSeq DEF EventSearchInv, EventPage
<1>2. /\ searches' = IF stored THEN searches \union {q[i]} ELSE searches
      /\ ok => stored
      /\ eventSearch' = [eventSearch EXCEPT !.saving = left, !.showSaveModal = show,
           !.listing = listing, !.acknowledged = acknowledged]
  BY <1>1 DEF SaveReturns, Reading, EventPage
<1>3. left \in Seq(SearchBody) /\ show \in BOOLEAN
  BY <1>1, Removal
<1>4. searches' \in SUBSET SearchBody /\ read \in Listing /\ read.sent = searches'
  BY <1>1, <1>2 DEF Listing
<1> HIDE DEF left, show, read
<1>5. reads \in Seq(Listing) /\ reads # <<>> /\ reads[Len(reads)] = read
  BY <1>1, <1>4, AppendProperties
<1> HIDE DEF reads
<1>6. acknowledged \in SUBSET SearchBody /\ acknowledged \subseteq searches' /\ listing \in Seq(Listing)
  BY <1>1, <1>2, <1>5 DEF EventSearchInv
<1>7. NewestReads(listing, acknowledged)
  <2>1. CASE ok
    BY <1>4, <1>5, <1>6, <2>1 DEF NewestReads
  <2>2. CASE ~ok
    BY <2>2 DEF EventSearchInv
  <2> QED BY <2>1, <2>2
<1>8. listing = <<>> => acknowledged = eventSearch.acknowledged /\ eventSearch.listing = <<>>
  BY <1>5
<1> HIDE DEF listing, acknowledged
<1>9. /\ eventSearch' \in EventPage /\ eventSearch'.pending = eventSearch.pending
      /\ eventSearch'.timers = eventSearch.timers /\ eventSearch'.asked = eventSearch.asked
      /\ eventSearch'.listing = listing /\ eventSearch'.acknowledged = acknowledged
      /\ eventSearch'.late = eventSearch.late /\ eventSearch'.by_timer = eventSearch.by_timer
      /\ eventSearch'.shown = eventSearch.shown /\ eventSearch'.missed = eventSearch.missed
      /\ eventSearch'.savedSearches = eventSearch.savedSearches
  BY <1>1, <1>2, <1>3, <1>6 DEF EventPage
<1> QED
  BY <1>4, <1>6, <1>7, <1>8, <1>9 DEF EventSearchInv, EventSearchAnswers

LEMMA ListStep ==
  ASSUME EventSearchInv, NEW i \in DOMAIN eventSearch.listing, ListReturns(i)
  PROVE  EventSearchInv'
<1> DEFINE q == eventSearch.listing
           left == AfterAnswer(q, i)
<1>1. /\ eventSearch \in EventPage /\ q \in Seq(Listing) /\ i \in 1 .. Len(q)
      /\ q[i].overtaken \in BOOLEAN
  <2>1. eventSearch \in EventPage /\ q \in Seq(Listing) /\ i \in 1 .. Len(q)
    BY DEF EventSearchInv, EventPage
  <2>2. q[i] \in Listing
    BY <2>1, ElementOfSeq
  <2> QED BY <2>1, <2>2 DEF Listing
<1>2. /\ left \in Seq(Listing)
      /\ left = <<>> => i = Len(q)
      /\ left # <<>> /\ ~left[Len(left)].overtaken
           => q # <<>> /\ left[Len(left)] = q[Len(q)] /\ ~q[Len(q)].overtaken
  BY <1>1, SearchOvertakes, NewestStays
<1>3. left = Overtaken(q, i)
  BY DEF Overtaken, AfterAnswer
<1> HIDE DEF left
<1>4. \E had \in SUBSET SearchBody, missed \in BOOLEAN :
        /\ missed \/ (q[i].sent \subseteq had /\ ~q[i].overtaken)
        /\ eventSearch' = [eventSearch EXCEPT !.savedSearches = had, !.listing = left,
                             !.missed = missed]
  <2>1. ASSUME NEW had \in SUBSET searches, q[i].sent \subseteq had,
               eventSearch' = [eventSearch EXCEPT !.savedSearches = had,
                 !.listing = Overtaken(q, i), !.missed = q[i].overtaken]
        PROVE  <1>4
    <3>1. had \in SUBSET SearchBody
      BY DEF EventSearchInv
    <3> QED BY <1>1, <1>3, <2>1, <3>1
  <2>2. ASSUME eventSearch' = [eventSearch EXCEPT !.listing = Overtaken(q, i), !.missed = TRUE]
        PROVE  <1>4
    <3>1. eventSearch.savedSearches \in SUBSET SearchBody
      BY <1>1 DEF EventPage
    <3>2. eventSearch' = [eventSearch EXCEPT !.savedSearches = eventSearch.savedSearches,
                            !.listing = left, !.missed = TRUE]
      BY <1>1, <1>3, <2>2 DEF EventPage
    <3> QED BY <3>1, <3>2
  <2> QED BY <2>1, <2>2 DEF ListReturns
<1>5. PICK had \in SUBSET SearchBody, missed \in BOOLEAN :
        /\ missed \/ (q[i].sent \subseteq had /\ ~q[i].overtaken)
        /\ eventSearch' = [eventSearch EXCEPT !.savedSearches = had, !.listing = left,
                             !.missed = missed]
  BY <1>4
<1>6. /\ eventSearch' \in EventPage /\ eventSearch'.pending = eventSearch.pending
      /\ eventSearch'.timers = eventSearch.timers /\ eventSearch'.asked = eventSearch.asked
      /\ eventSearch'.listing = left
      /\ eventSearch'.acknowledged = eventSearch.acknowledged
      /\ eventSearch'.late = eventSearch.late /\ eventSearch'.by_timer = eventSearch.by_timer
      /\ eventSearch'.shown = eventSearch.shown /\ eventSearch'.missed = missed
      /\ eventSearch'.savedSearches = had
  BY <1>1, <1>2, <1>5 DEF EventPage
<1>7. NewestReads(left, eventSearch.acknowledged)
  BY <1>2 DEF EventSearchInv, NewestReads
<1>8. left = <<>> => missed \/ eventSearch.acknowledged \subseteq had
  <2>1. left = <<>> => q # <<>> /\ i = Len(q)
    BY <1>1, <1>2
  <2> QED BY <1>5, <2>1 DEF EventSearchInv, NewestReads
<1>9. UNCHANGED searches
  BY DEF ListReturns
<1> QED
  BY <1>6, <1>7, <1>8, <1>9 DEF EventSearchInv, EventSearchAnswers

LEMMA EventSearchStep ==
  EventSearchInv /\ [EventSearchNext]_eventSearchVars => EventSearchInv'
<1> SUFFICES ASSUME EventSearchInv, [EventSearchNext]_eventSearchVars PROVE EventSearchInv'
  OBVIOUS
<1>1. /\ eventSearch \in EventPage /\ eventSearch.mode \in {"builder", "raw"}
      /\ eventSearch.query \in RawQueries /\ eventSearch.clauses \in ClauseLists
      /\ eventSearch.showSaveModal \in BOOLEAN /\ eventSearch.saving \in Seq(SearchBody)
      /\ eventSearch.timers \in Seq(SearchBody) /\ eventSearch.asked \in SUBSET SearchBody
      /\ OnScreen \in SearchBody
  BY OnScreenType DEF EventSearchInv, EventPage
<1>2. ASSUME NEW mode \in {"builder", "raw"}, SetMode(mode) PROVE EventSearchInv'
  <2>1. eventSearch' = [eventSearch EXCEPT !.mode = mode, !.query = eventSearch.query,
          !.clauses = eventSearch.clauses, !.showSaveModal = eventSearch.showSaveModal,
          !.saving = eventSearch.saving]
    BY <1>1, <1>2 DEF SetMode, EventPage
  <2>2. UNCHANGED searches
    BY <1>2 DEF SetMode
  <2> QED BY <1>1, <2>1, <2>2, QuietStep
<1>3. ASSUME NEW query \in RawQueries, TypeRaw(query) PROVE EventSearchInv'
  <2>1. eventSearch' = [eventSearch EXCEPT !.mode = eventSearch.mode, !.query = query,
          !.clauses = eventSearch.clauses, !.showSaveModal = eventSearch.showSaveModal,
          !.saving = eventSearch.saving]
    BY <1>1, <1>3 DEF TypeRaw, EventPage
  <2>2. UNCHANGED searches
    BY <1>3 DEF TypeRaw
  <2> QED BY <1>1, <2>1, <2>2, QuietStep
<1>4. ASSUME NEW clauses \in ClauseLists, EditClauses(clauses) PROVE EventSearchInv'
  <2>1. eventSearch' = [eventSearch EXCEPT !.mode = eventSearch.mode,
          !.query = eventSearch.query, !.clauses = clauses,
          !.showSaveModal = eventSearch.showSaveModal, !.saving = eventSearch.saving]
    BY <1>1, <1>4 DEF EditClauses, EventPage
  <2>2. UNCHANGED searches
    BY <1>4 DEF EditClauses
  <2> QED BY <1>1, <2>1, <2>2, QuietStep
<1>5. ASSUME NEW show \in BOOLEAN, ShowSaveModal(show) PROVE EventSearchInv'
  <2>1. eventSearch' = [eventSearch EXCEPT !.mode = eventSearch.mode,
          !.query = eventSearch.query, !.clauses = eventSearch.clauses,
          !.showSaveModal = show, !.saving = eventSearch.saving]
    BY <1>1, <1>5 DEF ShowSaveModal, EventPage
  <2>2. UNCHANGED searches
    BY <1>5 DEF ShowSaveModal
  <2> QED BY <1>1, <2>1, <2>2, QuietStep
<1>6. CASE HandleSaveSearch
  <2> DEFINE saving == Append(eventSearch.saving, OnScreen)
  <2>1. saving \in Seq(SearchBody)
    BY <1>1, AppendProperties
  <2>2. eventSearch' = [eventSearch EXCEPT !.mode = eventSearch.mode,
          !.query = eventSearch.query, !.clauses = eventSearch.clauses,
          !.showSaveModal = eventSearch.showSaveModal, !.saving = saving]
    BY <1>1, <1>6 DEF HandleSaveSearch, EventPage
  <2>3. UNCHANGED searches
    BY <1>6 DEF HandleSaveSearch
  <2> HIDE DEF saving
  <2> QED BY <1>1, <2>1, <2>2, <2>3, QuietStep
<1>7. CASE HandleSearch
  <2>1. eventSearch' = [eventSearch EXCEPT !.loading = TRUE, !.pending = Sent(OnScreen, FALSE),
          !.timers = eventSearch.timers, !.asked = {OnScreen}]
    BY <1>1, <1>7 DEF HandleSearch, EventPage
  <2>2. {OnScreen} \in SUBSET SearchBody /\ UNCHANGED searches
    BY <1>1, <1>7 DEF HandleSearch
  <2> QED BY <1>1, <2>1, <2>2, SendStep
<1>8. ASSUME NEW i \in DOMAIN eventSearch.timers, TimerFires(i) PROVE EventSearchInv'
  <2> DEFINE timers == RemoveAt(eventSearch.timers, i)
             search == eventSearch.timers[i]
  <2>1. i \in 1 .. Len(eventSearch.timers) /\ search \in SearchBody
    BY <1>1, ElementOfSeq
  <2>2. timers \in Seq(SearchBody)
    BY <1>1, <2>1, Removal
  <2>3. eventSearch' = [eventSearch EXCEPT !.loading = TRUE, !.pending = Sent(search, TRUE),
          !.timers = timers, !.asked = eventSearch.asked]
    BY <1>1, <1>8 DEF TimerFires, EventPage
  <2>4. UNCHANGED searches
    BY <1>8 DEF TimerFires
  <2> HIDE DEF timers, search
  <2> QED BY <1>1, <2>1, <2>2, <2>3, <2>4, SendStep
<1>9. ASSUME NEW i \in DOMAIN eventSearch.pending, ResultsArrive(i) PROVE EventSearchInv'
  BY <1>9, ResultsStep
<1>10. ASSUME NEW i \in DOMAIN eventSearch.saving, NEW ok \in BOOLEAN, NEW stored \in BOOLEAN,
              SaveReturns(i, ok, stored)
       PROVE  EventSearchInv'
  BY <1>10, SaveSearchStep
<1>11. ASSUME NEW i \in DOMAIN eventSearch.listing, ListReturns(i) PROVE EventSearchInv'
  BY <1>11, ListStep
<1>12. ASSUME NEW s \in eventSearch.savedSearches, LoadSearch(s) PROVE EventSearchInv'
  BY <1>12, LoadSearchStep
<1>13. CASE UNCHANGED eventSearchVars
  BY <1>13 DEF eventSearchVars, EventSearchInv, EventSearchAnswers
<1> QED
  BY <1>2, <1>3, <1>4, <1>5, <1>6, <1>7, <1>8, <1>9, <1>10, <1>11, <1>12, <1>13
  DEF EventSearchNext

\* The results of ui/src/components/EventSearch.tsx are those of the search asked
\* for, and its list has what was saved, for any searches and any number in flight.
THEOREM SearchAnswered == EventSearchSpec => [](EventSearchTypeOK /\ EventSearchAnswers)
<1>1. EventSearchInv => EventSearchTypeOK /\ EventSearchAnswers
  BY DEF EventSearchInv, EventSearchTypeOK, EventPage, Searching, Listing
<1> QED
  BY SearchStarts, EventSearchStep, <1>1, PTL DEF EventSearchSpec

-----------------------------------------------------------------------------
(* The rule library (RuleLibrary).                                           *)

Loads == [tab : Tabs, reads : SUBSET Contents, overtaken : BOOLEAN]
LibraryPage ==
  [activeTab : Tabs, rules : SUBSET Rules, enabled : SUBSET Rules, loading : BOOLEAN,
   pending : Seq(Loads), late : BOOLEAN, selected : SUBSET Rules, filters : {"all", "critical"},
   libraryLoaded : BOOLEAN, ruleContent : Contents, saving : SUBSET Contents,
   loaded : BOOLEAN, typed : BOOLEAN, missed : BOOLEAN, blank : BOOLEAN]

\* The newest load in flight, if no later one has been answered.
Newest(q) == IF q = <<>> \/ q[Len(q)].overtaken = TRUE THEN {} ELSE {q[Len(q)]}

\* The newest load is of the tab; once a load as new as it is answered, the page is of
\* its tab, whatever answers are still to come, for they are all late.
TabInv(l, file) ==
  /\ \A load \in Newest(l.pending) : load.tab = l.activeTab
  /\ Newest(l.pending) = {} =>
       /\ l.activeTab \in RuleTabs => l.late \/ l.rules \subseteq RulesOf[l.activeTab]
       /\ l.activeTab = "editor" => l.typed \/ l.missed \/ l.ruleContent = file

\* What may become the rule file is blank only if the user made it so.
BlankInv(l, file) ==
  /\ file = "" => l.blank
  /\ "" \in l.saving => l.blank
  /\ \A i \in 1 .. Len(l.pending) : "" \in l.pending[i].reads => l.blank
  /\ l.loaded /\ ~l.typed /\ l.ruleContent = "" => l.blank

LibraryInv ==
  /\ ruleLibrary \in LibraryPage /\ ruleFile \in Contents
  /\ ruleLibrary.enabled \subseteq ruleLibrary.rules
  /\ Ordered(ruleLibrary.pending)
  /\ TabInv(ruleLibrary, ruleFile)
  /\ BlankInv(ruleLibrary, ruleFile)

LEMMA RulesType ==
  /\ \A t \in RuleTabs : RulesOf[t] \in SUBSET Rules
  /\ \A t \in Tabs : RulesFor(t) \in SUBSET Rules
  /\ "editor" \notin RuleTabs /\ "suricata" \in RuleTabs /\ RuleTabs \subseteq Tabs
BY RuleLibraryAssumption DEF Rules, RulesFor, Tabs

LEMMA LoadOvertaken ==
  \A r \in Loads : [r EXCEPT !.overtaken = TRUE] \in Loads
                     /\ [r EXCEPT !.overtaken = TRUE].overtaken = TRUE
BY DEF Loads

\* A load that is sent is the newest.
LEMMA LoadSent ==
  ASSUME NEW q \in Seq(Loads), Ordered(q), NEW r \in Loads, r.overtaken = FALSE
  PROVE  /\ Append(q, r) \in Seq(Loads) /\ Ordered(Append(q, r))
         /\ Newest(Append(q, r)) = {r}
         /\ Len(Append(q, r)) = Len(q) + 1 /\ Append(q, r)[Len(q) + 1] = r
         /\ \A i \in 1 .. Len(q) : Append(q, r)[i] = q[i]
<1> DEFINE p == Append(q, r)
<1>1. /\ p \in Seq(Loads) /\ p # <<>> /\ Len(p) = Len(q) + 1 /\ p[Len(q) + 1] = r
      /\ \A i \in 1 .. Len(q) : p[i] = q[i]
  BY AppendProperties
<1>2. Len(q) \in Nat
  OBVIOUS
<1> HIDE DEF p
<1>3. Newest(p) = {r}
  BY <1>1 DEF Newest
<1>4. ASSUME NEW j \in 1 .. Len(p), NEW k \in 1 .. Len(p), j < k, p[k].overtaken = TRUE
      PROVE  p[j].overtaken = TRUE
  <2>1. k # Len(q) + 1
    BY <1>1, <1>4
  <2>2. j \in 1 .. Len(q) /\ k \in 1 .. Len(q)
    BY <1>1, <1>2, <1>4, <2>1
  <2> QED BY <1>1, <1>4, <2>2 DEF Ordered
<1> QED
  BY <1>1, <1>3, <1>4 DEF p, Ordered

LEMMA LibraryStarts == RuleLibraryInit => LibraryInv
<1> SUFFICES ASSUME RuleLibraryInit PROVE LibraryInv
  OBVIOUS
<1> DEFINE r == Load("suricata", FirstContent)
           q == <<r>>
<1>1. r \in Loads /\ r.overtaken = FALSE /\ r.tab = "suricata" /\ r.reads = {FirstContent}
  BY RulesType, RuleLibraryAssumption DEF Load, Loads
<1> HIDE DEF r
<1>2. q \in Seq(Loads) /\ q # <<>> /\ Len(q) = 1 /\ q[1] = r
  BY <1>1
<1>3. Newest(q) = {r} /\ Ordered(q)
  BY <1>1, <1>2 DEF Newest, Ordered
<1>4. ruleFile = FirstContent /\ ruleLibrary =
        [activeTab |-> "suricata", rules |-> {}, enabled |-> {}, loading |-> TRUE,
         pending |-> q, late |-> FALSE, selected |-> {},
         filters |-> "all", libraryLoaded |-> FALSE, ruleContent |-> "", saving |-> {},
         loaded |-> FALSE, typed |-> FALSE, missed |-> FALSE, blank |-> FALSE]
  BY DEF RuleLibraryInit, RuleLibraryMounted, r
<1> HIDE DEF q
<1>5. "suricata" \in Tabs /\ "" \in Contents /\ FirstContent \in Contents /\ FirstContent # ""
  BY RulesType, RuleLibraryAssumption
<1>6. /\ ruleLibrary \in LibraryPage /\ ruleLibrary.pending = q /\ ruleLibrary.enabled = {}
      /\ ruleLibrary.activeTab = "suricata" /\ ruleLibrary.saving = {} /\ ~ruleLibrary.loaded
  BY <1>2, <1>4, <1>5 DEF LibraryPage
<1>7. TabInv(ruleLibrary, ruleFile)
  BY <1>1, <1>3, <1>6 DEF TabInv
<1>8. BlankInv(ruleLibrary, ruleFile)
  <2>1. ruleFile # ""
    BY <1>4, <1>5
  <2>2. ASSUME NEW i \in 1 .. Len(q) PROVE "" \notin q[i].reads
    <3>1. q[i].reads = {FirstContent}
      BY <1>1, <1>2
    <3> QED BY <1>5, <3>1
  <2> QED BY <1>6, <2>1, <2>2 DEF BlankInv
<1> QED
  BY <1>3, <1>4, <1>5, <1>6, <1>7, <1>8 DEF LibraryInv

LEMMA OpenTabStep ==
  ASSUME LibraryInv, NEW t \in Tabs, NEW filters \in {"all", "critical"}, SetActiveTab(t, filters)
  PROVE  LibraryInv'
<1> DEFINE r == Load(t, ruleFile)
           q == ruleLibrary.pending
           pending == Append(q, r)
<1>1. /\ ruleLibrary \in LibraryPage /\ q \in Seq(Loads) /\ ruleFile \in Contents
      /\ Ordered(q) /\ UNCHANGED ruleFile /\ Len(q) \in Nat
  BY DEF LibraryInv, LibraryPage, SetActiveTab
<1>2. r \in Loads /\ r.overtaken = FALSE /\ r.tab = t /\ r.reads = {ruleFile}
  BY <1>1 DEF Load, Loads
<1>3. ruleLibrary' = [ruleLibrary EXCEPT !.activeTab = t, !.filters = filters,
        !.loading = TRUE, !.missed = FALSE, !.pending = pending]
  BY DEF SetActiveTab
<1> HIDE DEF r
<1>4. /\ pending \in Seq(Loads) /\ Ordered(pending) /\ Newest(pending) = {r}
      /\ Len(pending) = Len(q) + 1 /\ pending[Len(q) + 1] = r
      /\ \A i \in 1 .. Len(q) : pending[i] = q[i]
  BY <1>1, <1>2, LoadSent
<1> HIDE DEF pending
<1>5. /\ ruleLibrary' \in LibraryPage /\ ruleLibrary'.activeTab = t
      /\ ruleLibrary'.pending = pending
      /\ ruleLibrary'.rules = ruleLibrary.rules /\ ruleLibrary'.enabled = ruleLibrary.enabled
      /\ ruleLibrary'.saving = ruleLibrary.saving /\ ruleLibrary'.blank = ruleLibrary.blank
      /\ ruleLibrary'.loaded = ruleLibrary.loaded /\ ruleLibrary'.typed = ruleLibrary.typed
      /\ ruleLibrary'.ruleContent = ruleLibrary.ruleContent
  BY <1>1, <1>3, <1>4 DEF LibraryPage
<1>6. TabInv(ruleLibrary', ruleFile')
  BY <1>2, <1>4, <1>5 DEF TabInv
<1>7. ASSUME NEW i \in 1 .. Len(pending), "" \in pending[i].reads PROVE ruleLibrary.blank
  <2>1. CASE i \in 1 .. Len(q)
    BY <1>4, <1>7, <2>1 DEF LibraryInv, BlankInv
  <2>2. CASE i = Len(q) + 1
    BY <1>2, <1>4, <1>7, <2>2 DEF LibraryInv, BlankInv
  <2>3. i \in 1 .. Len(q) \/ i = Len(q) + 1
    BY <1>1, <1>4
  <2> QED BY <2>1, <2>2, <2>3
<1>8. BlankInv(ruleLibrary', ruleFile')
  BY <1>1, <1>5, <1>7 DEF LibraryInv, BlankInv
<1> QED
  BY <1>1, <1>4, <1>5, <1>6, <1>8 DEF LibraryInv

\* What every answer has in common.
LEMMA AnswerFacts ==
  ASSUME LibraryInv, NEW i \in DOMAIN ruleLibrary.pending
  PROVE  LET q == ruleLibrary.pending
             left == AfterAnswer(q, i) IN
         /\ AnswerLoad(i) = [ruleLibrary EXCEPT !.loading = FALSE, !.pending = left]
         /\ i \in 1 .. Len(q) /\ q[i] \in Loads
         /\ left \in Seq(Loads) /\ Ordered(left) /\ Newest(left) \subseteq Newest(q)
         /\ Newest(left) = {} => Newest(q) = {q[i]} \/ (Newest(q) = {} /\ q[i].overtaken = TRUE)
         /\ \A j \in 1 .. Len(left) : \E k \in 1 .. Len(q) : left[j].reads = q[k].reads
<1> DEFINE q == ruleLibrary.pending
           left == AfterAnswer(q, i)
<1>1. q \in Seq(Loads) /\ Ordered(q) /\ Len(q) \in Nat /\ i \in 1 .. Len(q) /\ q # <<>>
  BY DEF LibraryInv, LibraryPage
<1>2. \A j \in 1 .. Len(q) : q[j] \in Loads /\ q[j].overtaken \in BOOLEAN
  <2>1. \A j \in 1 .. Len(q) : q[j] \in Loads
    BY <1>1, ElementOfSeq
  <2> QED BY <2>1 DEF Loads
<1>3. /\ left \in Seq(Loads)
      /\ left = <<>> => i = Len(q)
      /\ left # <<>> /\ ~left[Len(left)].overtaken
           => q # <<>> /\ left[Len(left)] = q[Len(q)] /\ ~q[Len(q)].overtaken
  BY <1>1, LoadOvertaken, NewestStays
<1>4. /\ Len(left) = Len(q) - 1
      /\ \A j \in 1 .. Len(q) - 1 :
           left[j] = IF j < i THEN [q[j] EXCEPT !.overtaken = TRUE] ELSE q[j + 1]
  BY <1>1, LoadOvertaken, AnswerLeaves
<1>5. Ordered(left)
  BY <1>1, LoadOvertaken, AnswerKeepsOrder
<1>6. AnswerLoad(i) = [ruleLibrary EXCEPT !.loading = FALSE, !.pending = left]
  BY DEF AnswerLoad, AfterAnswer
<1> HIDE DEF left
<1>7. left # <<>> => Len(left) \in 1 .. Len(q) - 1 /\ left[Len(left)] \in Loads
  <2>1. left # <<>> => Len(left) \in 1 .. Len(left)
    BY <1>3, EmptySeq
  <2> QED BY <1>3, <1>4, <2>1, ElementOfSeq
<1>8. Newest(left) \subseteq Newest(q)
  BY <1>1, <1>2, <1>3, <1>7 DEF Newest, Loads
<1>9. ASSUME Newest(left) = {}, Newest(q) # {} PROVE Newest(q) = {q[i]}
  <2>1. Newest(q) = {q[Len(q)]} /\ q[Len(q)].overtaken # TRUE
    BY <1>9 DEF Newest
  <2>2. CASE left = <<>>
    BY <1>3, <2>1, <2>2
  <2>3. CASE left # <<>>
    <3>1. left[Len(left)].overtaken = TRUE
      BY <1>9, <2>3 DEF Newest
    <3>2. CASE i = Len(q)
      BY <2>1, <3>2
    <3>3. CASE i # Len(q)
      <4>1. Len(left) = Len(q) - 1 /\ Len(left) \in 1 .. Len(q) - 1 /\ ~(Len(left) < i)
        BY <1>1, <1>4, <1>7, <2>3, <3>3
      <4>2. left[Len(left)] = q[Len(left) + 1]
        BY <1>4, <4>1
      <4>3. Len(left) + 1 = Len(q)
        BY <1>1, <4>1
      <4> QED BY <2>1, <3>1, <4>2, <4>3
    <3> QED BY <3>2, <3>3
  <2> QED BY <2>2, <2>3
<1>10. ASSUME Newest(q) = {} PROVE q[i].overtaken = TRUE
  <2>1. \A n \in Nat : \A k \in 1 .. n : n \in 1 .. n /\ (k = n \/ k < n)
    OBVIOUS
  <2>2. Len(q) \in 1 .. Len(q) /\ (i = Len(q) \/ i < Len(q))
    BY <1>1, <2>1
  <2>3. q # <<>>
    BY <1>1
  <2>4. q[Len(q)].overtaken = TRUE
    BY <1>10, <2>3 DEF Newest
  <2> QED BY <1>1, <2>2, <2>4 DEF Ordered
<1>11. ASSUME NEW j \in 1 .. Len(left)
       PROVE  \E k \in 1 .. Len(q) : left[j].reads = q[k].reads
  <2>1. j \in 1 .. Len(q) - 1 /\ j \in 1 .. Len(q) /\ j + 1 \in 1 .. Len(q)
    BY <1>1, <1>4
  <2>2. [q[j] EXCEPT !.overtaken = TRUE].reads = q[j].reads
    BY <1>2, <2>1 DEF Loads
  <2> QED BY <1>4, <2>1, <2>2
<1>12. Newest(left) = {} => Newest(q) = {q[i]} \/ (Newest(q) = {} /\ q[i].overtaken = TRUE)
  BY <1>9, <1>10
<1>13. q[i] \in Loads
  BY <1>1, <1>2
<1> HIDE DEF q
<1> QED
  BY <1>1, <1>3, <1>5, <1>6, <1>8, <1>11, <1>12, <1>13 DEF left, q

\* Rules come, from a load of rules or as what is shown for a load that failed.
LEMMA RulesStep ==
  ASSUME LibraryInv, NEW i \in DOMAIN ruleLibrary.pending, UNCHANGED ruleFile,
         NEW rules \in SUBSET Rules, NEW enabled \in SUBSET rules, NEW missed \in BOOLEAN,
         ruleLibrary' = [AnswerLoad(i) EXCEPT !.rules = rules, !.enabled = enabled,
                           !.late = ruleLibrary.pending[i].overtaken, !.missed = missed],
         \/ /\ ruleLibrary.pending[i].tab # "editor" /\ missed = ruleLibrary.missed
            /\ rules \subseteq RulesFor(ruleLibrary.pending[i].tab)
         \/ ruleLibrary.pending[i].tab = "editor" /\ missed
  PROVE  LibraryInv'
<1> DEFINE q == ruleLibrary.pending
           left == AfterAnswer(q, i)
<1>1. /\ AnswerLoad(i) = [ruleLibrary EXCEPT !.loading = FALSE, !.pending = left]
      /\ i \in 1 .. Len(q) /\ q[i] \in Loads
      /\ left \in Seq(Loads) /\ Ordered(left) /\ Newest(left) \subseteq Newest(q)
      /\ Newest(left) = {} => Newest(q) = {q[i]} \/ (Newest(q) = {} /\ q[i].overtaken = TRUE)
      /\ \A j \in 1 .. Len(left) : \E k \in 1 .. Len(q) : left[j].reads = q[k].reads
  BY AnswerFacts
<1> HIDE DEF left
<1>2. /\ ruleLibrary \in LibraryPage /\ q[i].overtaken \in BOOLEAN /\ q[i].tab \in Tabs
      /\ enabled \in SUBSET Rules
  BY <1>1 DEF LibraryInv, Loads
<1>3. ruleLibrary' = [ruleLibrary EXCEPT !.loading = FALSE, !.pending = left, !.rules = rules,
        !.enabled = enabled, !.late = q[i].overtaken, !.missed = missed]
  BY <1>1, <1>2 DEF LibraryPage
<1>4. /\ ruleLibrary' \in LibraryPage /\ ruleLibrary'.activeTab = ruleLibrary.activeTab
      /\ ruleLibrary'.pending = left /\ ruleLibrary'.late = q[i].overtaken
      /\ ruleLibrary'.rules = rules /\ ruleLibrary'.enabled = enabled
      /\ ruleLibrary'.missed = missed
      /\ ruleLibrary'.saving = ruleLibrary.saving /\ ruleLibrary'.blank = ruleLibrary.blank
      /\ ruleLibrary'.loaded = ruleLibrary.loaded /\ ruleLibrary'.typed = ruleLibrary.typed
      /\ ruleLibrary'.ruleContent = ruleLibrary.ruleContent
  BY <1>1, <1>2, <1>3 DEF LibraryPage
<1>5. \A load \in Newest(left) : load.tab = ruleLibrary.activeTab
  BY <1>1 DEF LibraryInv, TabInv
<1>6. ASSUME Newest(left) = {}, Newest(q) = {q[i]}
      PROVE  /\ ruleLibrary.activeTab \in RuleTabs
                  => rules \subseteq RulesOf[ruleLibrary.activeTab]
             /\ ruleLibrary.activeTab = "editor" => missed
  <2>1. q[i].tab = ruleLibrary.activeTab
    BY <1>6 DEF LibraryInv, TabInv
  <2> QED BY <2>1, RulesType DEF RulesFor
<1>7. ASSUME Newest(left) = {}, Newest(q) = {}, ruleLibrary.activeTab = "editor"
      PROVE  ruleLibrary.typed \/ missed \/ ruleLibrary.ruleContent = ruleFile
  BY <1>7 DEF LibraryInv, TabInv
<1>8. TabInv(ruleLibrary', ruleFile')
  BY <1>1, <1>4, <1>5, <1>6, <1>7 DEF TabInv
<1>9. BlankInv(ruleLibrary', ruleFile')
  BY <1>1, <1>4 DEF LibraryInv, BlankInv
<1> QED
  BY <1>1, <1>4, <1>8, <1>9 DEF LibraryInv

LEMMA ContentStep ==
  ASSUME LibraryInv, NEW i \in DOMAIN ruleLibrary.pending, ContentArrives(i)
  PROVE  LibraryInv'
<1> DEFINE q == ruleLibrary.pending
           left == AfterAnswer(q, i)
<1>1. /\ AnswerLoad(i) = [ruleLibrary EXCEPT !.loading = FALSE, !.pending = left]
      /\ i \in 1 .. Len(q) /\ q[i] \in Loads
      /\ left \in Seq(Loads) /\ Ordered(left) /\ Newest(left) \subseteq Newest(q)
      /\ Newest(left) = {} => Newest(q) = {q[i]} \/ (Newest(q) = {} /\ q[i].overtaken = TRUE)
      /\ \A j \in 1 .. Len(left) : \E k \in 1 .. Len(q) : left[j].reads = q[k].reads
  BY AnswerFacts
<1> HIDE DEF left
<1>2. PICK content \in q[i].reads :
        ruleLibrary' = [AnswerLoad(i) EXCEPT !.ruleContent = content, !.loaded = TRUE,
                          !.typed = FALSE, !.missed = content # ruleFile]
  BY DEF ContentArrives
<1> DEFINE missed == content # ruleFile
<1>3. /\ ruleLibrary \in LibraryPage /\ content \in Contents /\ missed \in BOOLEAN
      /\ q[i].tab = "editor" /\ UNCHANGED ruleFile
  BY <1>1, <1>2 DEF LibraryInv, Loads, ContentArrives
<1>4. ruleLibrary' = [ruleLibrary EXCEPT !.loading = FALSE, !.pending = left,
        !.ruleContent = content, !.loaded = TRUE, !.typed = FALSE, !.missed = missed]
  BY <1>1, <1>2, <1>3 DEF LibraryPage
<1>5. missed \/ content = ruleFile
  OBVIOUS
<1> HIDE DEF missed
<1>6. /\ ruleLibrary' \in LibraryPage /\ ruleLibrary'.activeTab = ruleLibrary.activeTab
      /\ ruleLibrary'.pending = left /\ ruleLibrary'.late = ruleLibrary.late
      /\ ruleLibrary'.rules = ruleLibrary.rules /\ ruleLibrary'.enabled = ruleLibrary.enabled
      /\ ruleLibrary'.missed = missed
      /\ ruleLibrary'.saving = ruleLibrary.saving /\ ruleLibrary'.blank = ruleLibrary.blank
      /\ ruleLibrary'.loaded /\ ~ruleLibrary'.typed /\ ruleLibrary'.ruleContent = content
  BY <1>1, <1>3, <1>4 DEF LibraryPage
<1>7. \A load \in Newest(left) : load.tab = ruleLibrary.activeTab
  BY <1>1 DEF LibraryInv, TabInv
<1>8. ASSUME Newest(left) = {}, ruleLibrary.activeTab \in RuleTabs
      PROVE  ruleLibrary.late \/ ruleLibrary.rules \subseteq RulesOf[ruleLibrary.activeTab]
  <2>1. Newest(q) # {q[i]}
    BY <1>3, <1>8, RulesType DEF LibraryInv, TabInv
  <2> QED BY <1>1, <1>8, <2>1 DEF LibraryInv, TabInv
<1>9. TabInv(ruleLibrary', ruleFile')
  BY <1>3, <1>5, <1>6, <1>7, <1>8 DEF TabInv
<1>10. content = "" => ruleLibrary.blank
  BY <1>1, <1>2 DEF LibraryInv, BlankInv
<1>11. BlankInv(ruleLibrary', ruleFile')
  BY <1>1, <1>3, <1>6, <1>10 DEF LibraryInv, BlankInv
<1> QED
  BY <1>1, <1>3, <1>6, <1>9, <1>11 DEF LibraryInv

\* The table, the library and the filter, which leave the loads and the file as they are.
LEMMA RowsStep ==
  ASSUME LibraryInv, UNCHANGED ruleFile, ruleLibrary' \in LibraryPage,
         ruleLibrary'.enabled \subseteq ruleLibrary'.rules,
         \/ ruleLibrary'.rules = ruleLibrary.rules /\ ruleLibrary'.late = ruleLibrary.late
         \/ /\ ruleLibrary.activeTab \in RuleTabs
            /\ ruleLibrary'.rules \subseteq RulesOf[ruleLibrary.activeTab],
         ruleLibrary'.activeTab = ruleLibrary.activeTab,
         ruleLibrary'.pending = ruleLibrary.pending,
         ruleLibrary'.missed = ruleLibrary.missed, ruleLibrary'.blank = ruleLibrary.blank,
         ruleLibrary'.saving = ruleLibrary.saving, ruleLibrary'.typed = ruleLibrary.typed,
         ruleLibrary'.loaded = ruleLibrary.loaded,
         ruleLibrary'.ruleContent = ruleLibrary.ruleContent
  PROVE  LibraryInv'
<1>1. TabInv(ruleLibrary', ruleFile')
  BY RulesType DEF LibraryInv, TabInv
<1>2. BlankInv(ruleLibrary', ruleFile')
  BY DEF LibraryInv, BlankInv
<1> QED
  BY <1>1, <1>2 DEF LibraryInv

LEMMA EditStep ==
  ASSUME LibraryInv, NEW content \in Contents, EditContent(content) PROVE LibraryInv'
<1>1. ruleLibrary \in LibraryPage /\ UNCHANGED ruleFile
  BY DEF LibraryInv, EditContent
<1>2. ruleLibrary' = [ruleLibrary EXCEPT !.ruleContent = content, !.typed = TRUE, !.loaded = TRUE]
  BY DEF EditContent
<1>3. /\ ruleLibrary' \in LibraryPage /\ ruleLibrary'.activeTab = ruleLibrary.activeTab
      /\ ruleLibrary'.pending = ruleLibrary.pending /\ ruleLibrary'.late = ruleLibrary.late
      /\ ruleLibrary'.rules = ruleLibrary.rules /\ ruleLibrary'.enabled = ruleLibrary.enabled
      /\ ruleLibrary'.saving = ruleLibrary.saving /\ ruleLibrary'.blank = ruleLibrary.blank
      /\ ruleLibrary'.typed
  BY <1>1, <1>2 DEF LibraryPage
<1> QED
  BY <1>1, <1>3 DEF LibraryInv, TabInv, BlankInv

LEMMA SaveRulesStep == ASSUME LibraryInv, SaveRules PROVE LibraryInv'
<1> DEFINE blank == \/ ruleLibrary.blank \/ ~ruleLibrary.loaded
                    \/ ruleLibrary.typed /\ ruleLibrary.ruleContent = ""
<1>1. ruleLibrary \in LibraryPage /\ UNCHANGED ruleFile /\ blank \in BOOLEAN
  BY DEF LibraryInv, SaveRules, LibraryPage
<1>2. ruleLibrary' = [ruleLibrary EXCEPT !.saving = {ruleLibrary.ruleContent}, !.blank = blank]
  BY DEF SaveRules
<1>3. (ruleLibrary.blank => blank) /\ (ruleLibrary.ruleContent = "" => blank)
  BY DEF LibraryInv, BlankInv
<1> HIDE DEF blank
<1>4. /\ ruleLibrary' \in LibraryPage /\ ruleLibrary'.activeTab = ruleLibrary.activeTab
      /\ ruleLibrary'.pending = ruleLibrary.pending /\ ruleLibrary'.late = ruleLibrary.late
      /\ ruleLibrary'.rules = ruleLibrary.rules /\ ruleLibrary'.enabled = ruleLibrary.enabled
      /\ ruleLibrary'.missed = ruleLibrary.missed
      /\ ruleLibrary'.saving = {ruleLibrary.ruleContent} /\ ruleLibrary'.blank = blank
      /\ ruleLibrary'.loaded = ruleLibrary.loaded /\ ruleLibrary'.typed = ruleLibrary.typed
      /\ ruleLibrary'.ruleContent = ruleLibrary.ruleContent
  BY <1>1, <1>2 DEF LibraryPage
<1>5. TabInv(ruleLibrary', ruleFile')
  BY <1>1, <1>4 DEF LibraryInv, TabInv
<1>6. BlankInv(ruleLibrary', ruleFile')
  BY <1>1, <1>3, <1>4 DEF LibraryInv, BlankInv
<1> QED
  BY <1>1, <1>4, <1>5, <1>6 DEF LibraryInv

\* A save that ends changes what loads in flight may read, and nothing else of them.
LEMMA SaveEndStep ==
  ASSUME LibraryInv, NEW stored \in BOOLEAN, SaveEnds(stored) PROVE LibraryInv'
<1>1. PICK content \in ruleLibrary.saving :
        /\ ruleFile' = IF stored THEN content ELSE ruleFile
        /\ ruleLibrary' = [ruleLibrary EXCEPT !.saving = {},
             !.typed = IF stored THEN @ /\ ruleLibrary.ruleContent # ruleFile' ELSE @,
             !.missed = IF stored THEN ~ruleLibrary.typed /\ ruleLibrary.ruleContent # ruleFile'
                                  ELSE @,
             !.pending = [i \in DOMAIN ruleLibrary.pending |->
                [ruleLibrary.pending[i] EXCEPT !.reads = @ \union {ruleFile'}]]]
  BY DEF SaveEnds
<1> DEFINE q == ruleLibrary.pending
           file == ruleFile'
           f == [i \in DOMAIN q |-> [q[i] EXCEPT !.reads = @ \union {file}]]
           typed == IF stored THEN ruleLibrary.typed /\ ruleLibrary.ruleContent # file
                              ELSE ruleLibrary.typed
           missed == IF stored THEN ~ruleLibrary.typed /\ ruleLibrary.ruleContent # file
                               ELSE ruleLibrary.missed
<1>2. /\ ruleLibrary \in LibraryPage /\ q \in Seq(Loads) /\ file \in Contents
      /\ Ordered(q) /\ DOMAIN q = 1 .. Len(q) /\ Len(q) \in Nat
      /\ typed \in BOOLEAN /\ missed \in BOOLEAN
  <2>1. /\ ruleLibrary \in LibraryPage /\ q \in Seq(Loads) /\ file \in Contents /\ Ordered(q)
        /\ ruleLibrary.typed \in BOOLEAN /\ ruleLibrary.missed \in BOOLEAN
    BY <1>1 DEF LibraryInv, LibraryPage
  <2>2. DOMAIN q = 1 .. Len(q) /\ Len(q) \in Nat
    BY <2>1
  <2>3. typed \in BOOLEAN
    BY <2>1
  <2>4. missed \in BOOLEAN
    BY <2>1
  <2> QED BY <2>1, <2>2, <2>3, <2>4
<1>3. ruleLibrary' = [ruleLibrary EXCEPT !.saving = {}, !.typed = typed, !.missed = missed,
                        !.pending = f]
  BY <1>1, <1>2 DEF LibraryPage
<1>4. /\ file = "" => ruleLibrary.blank
      /\ file = ruleFile \/ stored
      /\ typed => ruleLibrary.typed
      /\ stored => typed \/ missed \/ ruleLibrary.ruleContent = file
      /\ ~stored => typed = ruleLibrary.typed /\ missed = ruleLibrary.missed
      /\ ruleLibrary.typed /\ ~typed /\ ruleLibrary.ruleContent = "" => file = ""
  BY <1>1 DEF LibraryInv, BlankInv
<1> HIDE DEF file, typed, missed
<1>5. \A i \in 1 .. Len(q) :
        /\ f[i] \in Loads /\ f[i].reads = q[i].reads \union {file}
        /\ f[i].tab = q[i].tab /\ f[i].overtaken = q[i].overtaken
  <2>1. ASSUME NEW i \in 1 .. Len(q)
        PROVE /\ f[i] \in Loads /\ f[i].reads = q[i].reads \union {file}
              /\ f[i].tab = q[i].tab /\ f[i].overtaken = q[i].overtaken
    <3>1. q[i] \in Loads /\ f[i] = [q[i] EXCEPT !.reads = @ \union {file}]
      BY <1>2, ElementOfSeq
    <3> QED BY <1>2, <3>1 DEF Loads
  <2> QED BY <2>1
<1>6. f \in Seq(Loads) /\ Len(f) = Len(q)
  <2>1. f \in [1 .. Len(q) -> Loads]
    BY <1>2, <1>5
  <2> HIDE DEF f
  <2> QED BY <1>2, <2>1, IsASeq, LenProperties
<1> HIDE DEF f
<1>7. f = <<>> <=> q = <<>>
  BY <1>2, <1>6, EmptySeq
<1>8. Ordered(f)
  BY <1>2, <1>5, <1>6 DEF Ordered
<1>9. /\ \A load \in Newest(f) : \E newest \in Newest(q) : load.tab = newest.tab
      /\ Newest(f) = {} => Newest(q) = {}
  <2>1. CASE q = <<>>
    BY <1>7, <2>1 DEF Newest
  <2>2. CASE q # <<>>
    <3>1. Len(q) \in 1 .. Len(q)
      BY <1>2, <2>2, EmptySeq
    <3> QED BY <1>5, <1>6, <1>7, <2>2, <3>1 DEF Newest
  <2> QED BY <2>1, <2>2
<1>10. /\ ruleLibrary' \in LibraryPage /\ ruleLibrary'.activeTab = ruleLibrary.activeTab
      /\ ruleLibrary'.pending = f /\ ruleLibrary'.late = ruleLibrary.late
      /\ ruleLibrary'.rules = ruleLibrary.rules /\ ruleLibrary'.enabled = ruleLibrary.enabled
      /\ ruleLibrary'.missed = missed
      /\ ruleLibrary'.saving = {} /\ ruleLibrary'.blank = ruleLibrary.blank
      /\ ruleLibrary'.loaded = ruleLibrary.loaded /\ ruleLibrary'.typed = typed
      /\ ruleLibrary'.ruleContent = ruleLibrary.ruleContent
  BY <1>2, <1>3, <1>6 DEF LibraryPage
<1>11. TabInv(ruleLibrary', file)
  <2>1. \A load \in Newest(f) : load.tab = ruleLibrary.activeTab
    BY <1>9 DEF LibraryInv, TabInv
  <2>2. ASSUME Newest(f) = {}, ruleLibrary.activeTab = "editor"
        PROVE  typed \/ missed \/ ruleLibrary.ruleContent = file
    BY <1>4, <1>9, <2>2 DEF LibraryInv, TabInv
  <2> QED BY <1>9, <1>10, <2>1, <2>2 DEF LibraryInv, TabInv
<1>12. BlankInv(ruleLibrary', file)
  <2>1. ASSUME NEW i \in 1 .. Len(f), "" \in f[i].reads PROVE ruleLibrary.blank
    BY <1>4, <1>5, <1>6, <2>1 DEF LibraryInv, BlankInv
  <2>2. ASSUME ruleLibrary.loaded, ~typed, ruleLibrary.ruleContent = ""
        PROVE  ruleLibrary.blank
    BY <1>4, <2>2 DEF LibraryInv, BlankInv
  <2> QED BY <1>4, <1>10, <2>1, <2>2 DEF BlankInv
<1> QED
  BY <1>2, <1>8, <1>10, <1>11, <1>12 DEF LibraryInv, file

LEMMA LibraryStep == LibraryInv /\ [RuleLibraryNext]_ruleLibraryVars => LibraryInv'
<1> SUFFICES ASSUME LibraryInv, [RuleLibraryNext]_ruleLibraryVars PROVE LibraryInv'
  OBVIOUS
<1>1. /\ ruleLibrary \in LibraryPage /\ ruleLibrary.filters \in {"all", "critical"}
      /\ ruleLibrary.rules \in SUBSET Rules /\ ruleLibrary.enabled \in SUBSET ruleLibrary.rules
      /\ ruleLibrary.selected \in SUBSET Rules /\ ruleLibrary.loading \in BOOLEAN
      /\ ruleLibrary.late \in BOOLEAN /\ ruleLibrary.libraryLoaded \in BOOLEAN
      /\ ruleLibrary.missed \in BOOLEAN
      /\ FilteredRules \in SUBSET ruleLibrary.rules
  BY DEF LibraryInv, LibraryPage, FilteredRules
<1>2. ASSUME NEW t \in Tabs, OpenTab(t) PROVE LibraryInv'
  BY <1>1, <1>2, OpenTabStep DEF OpenTab
<1>3. CASE ClickTactic \/ ClickCategory
  BY <1>1, <1>3, RulesType, OpenTabStep DEF ClickTactic, ClickCategory
<1>4. ASSUME NEW i \in DOMAIN ruleLibrary.pending, RulesArrive(i) PROVE LibraryInv'
  <2>0. PICK rules \in SUBSET RulesFor(ruleLibrary.pending[i].tab) :
          \E enabled \in SUBSET rules :
            ruleLibrary' = [AnswerLoad(i) EXCEPT !.rules = rules, !.enabled = enabled,
                              !.late = ruleLibrary.pending[i].overtaken]
    BY <1>4 DEF RulesArrive
  <2>1. PICK enabled \in SUBSET rules :
          ruleLibrary' = [AnswerLoad(i) EXCEPT !.rules = rules, !.enabled = enabled,
                            !.late = ruleLibrary.pending[i].overtaken]
    BY <2>0
  <2>2. ruleLibrary' = [AnswerLoad(i) EXCEPT !.rules = rules, !.enabled = enabled,
          !.late = ruleLibrary.pending[i].overtaken, !.missed = ruleLibrary.missed]
    BY <1>1, <2>1 DEF AnswerLoad, LibraryPage
  <2>3. ruleLibrary.pending[i].tab \in Tabs
    BY AnswerFacts DEF Loads
  <2>4. rules \in SUBSET Rules
    BY <2>3, RulesType
  <2>5. ruleLibrary.pending[i].tab # "editor" /\ UNCHANGED ruleFile
    BY <1>4 DEF RulesArrive
  <2> QED BY <1>1, <2>2, <2>4, <2>5, RulesStep
<1>5. ASSUME NEW i \in DOMAIN ruleLibrary.pending, ContentArrives(i) PROVE LibraryInv'
  BY <1>5, ContentStep
<1>6. ASSUME NEW i \in DOMAIN ruleLibrary.pending, ContentFails(i) PROVE LibraryInv'
  <2>0. PICK rules \in SUBSET Rules : \E enabled \in SUBSET rules :
          ruleLibrary' = [AnswerLoad(i) EXCEPT !.rules = rules, !.enabled = enabled,
                            !.late = ruleLibrary.pending[i].overtaken, !.missed = TRUE]
    BY <1>6 DEF ContentFails
  <2>1. PICK enabled \in SUBSET rules :
          ruleLibrary' = [AnswerLoad(i) EXCEPT !.rules = rules, !.enabled = enabled,
                            !.late = ruleLibrary.pending[i].overtaken, !.missed = TRUE]
    BY <2>0
  <2>2. ruleLibrary.pending[i].tab = "editor" /\ UNCHANGED ruleFile
    BY <1>6 DEF ContentFails
  <2> QED BY <2>1, <2>2, RulesStep
<1>7. ASSUME UNCHANGED ruleFile, NEW enabled \in SUBSET ruleLibrary.rules,
             NEW selected \in SUBSET Rules, NEW filters \in {"all", "critical"},
             ruleLibrary' = [ruleLibrary EXCEPT !.enabled = enabled, !.selected = selected,
               !.filters = filters]
      PROVE  LibraryInv'
  <2>1. enabled \in SUBSET Rules
    BY <1>1
  <2>2. ruleLibrary' \in LibraryPage
    BY <1>1, <1>7, <2>1 DEF LibraryPage
  <2>3. /\ ruleLibrary'.enabled = enabled /\ ruleLibrary'.rules = ruleLibrary.rules
        /\ ruleLibrary'.late = ruleLibrary.late
        /\ ruleLibrary'.activeTab = ruleLibrary.activeTab
        /\ ruleLibrary'.pending = ruleLibrary.pending
        /\ ruleLibrary'.missed = ruleLibrary.missed /\ ruleLibrary'.blank = ruleLibrary.blank
        /\ ruleLibrary'.saving = ruleLibrary.saving /\ ruleLibrary'.typed = ruleLibrary.typed
        /\ ruleLibrary'.loaded = ruleLibrary.loaded
        /\ ruleLibrary'.ruleContent = ruleLibrary.ruleContent
    BY <1>1, <1>7 DEF LibraryPage
  <2> QED BY <1>1, <1>7, <2>2, <2>3, RowsStep
<1>8. CASE LoadRuleLibrary
  <2> DEFINE rules == RulesOf[ruleLibrary.activeTab]
             enabled == rules \intersect LibraryEnabled
  <2>1. /\ UNCHANGED ruleFile /\ ruleLibrary.activeTab \in RuleTabs
        /\ rules \in SUBSET Rules /\ enabled \in SUBSET rules
    BY <1>8, RulesType DEF LoadRuleLibrary, InRules
  <2>2. ruleLibrary' = [ruleLibrary EXCEPT !.libraryLoaded = TRUE, !.loading = FALSE,
           !.rules = rules, !.enabled = enabled, !.late = FALSE]
    BY <1>8 DEF LoadRuleLibrary
  <2> HIDE DEF enabled
  <2>3. ruleLibrary' \in LibraryPage
    BY <1>1, <2>1, <2>2 DEF LibraryPage
  <2>4. /\ ruleLibrary'.enabled = enabled /\ ruleLibrary'.rules = rules
        /\ ruleLibrary'.activeTab = ruleLibrary.activeTab
        /\ ruleLibrary'.pending = ruleLibrary.pending
        /\ ruleLibrary'.missed = ruleLibrary.missed /\ ruleLibrary'.blank = ruleLibrary.blank
        /\ ruleLibrary'.saving = ruleLibrary.saving /\ ruleLibrary'.typed = ruleLibrary.typed
        /\ ruleLibrary'.loaded = ruleLibrary.loaded
        /\ ruleLibrary'.ruleContent = ruleLibrary.ruleContent
    BY <1>1, <2>2 DEF LibraryPage
  <2> QED BY <2>1, <2>3, <2>4, RowsStep
<1>9. ASSUME NEW filters \in {"all", "critical"}, SetRuleFilters(filters) PROVE LibraryInv'
  <2>1. ruleLibrary' = [ruleLibrary EXCEPT !.enabled = ruleLibrary.enabled,
          !.selected = ruleLibrary.selected, !.filters = filters]
    BY <1>1, <1>9 DEF SetRuleFilters, LibraryPage
  <2>2. UNCHANGED ruleFile
    BY <1>9 DEF SetRuleFilters
  <2> QED BY <1>1, <1>7, <2>1, <2>2
<1>10. ASSUME UNCHANGED ruleFile, NEW selected \in SUBSET Rules,
              ruleLibrary' = [ruleLibrary EXCEPT !.selected = selected]
       PROVE  LibraryInv'
  <2>1. ruleLibrary' = [ruleLibrary EXCEPT !.enabled = ruleLibrary.enabled,
          !.selected = selected, !.filters = ruleLibrary.filters]
    BY <1>1, <1>10 DEF LibraryPage
  <2> QED BY <1>1, <1>7, <1>10, <2>1
<1>11. CASE HandleSelectAll
  <2>1. PICK selected \in SUBSET Rules : ruleLibrary' = [ruleLibrary EXCEPT !.selected = selected]
    BY <1>1, <1>11 DEF HandleSelectAll
  <2> QED BY <1>10, <1>11, <2>1 DEF HandleSelectAll
<1>12. ASSUME NEW r \in Rules, SelectRule(r) PROVE LibraryInv'
  <2>1. PICK selected \in SUBSET Rules : ruleLibrary' = [ruleLibrary EXCEPT !.selected = selected]
    BY <1>1, <1>12 DEF SelectRule
  <2> QED BY <1>10, <1>12, <2>1 DEF SelectRule
<1>13. ASSUME NEW enabled \in SUBSET ruleLibrary.rules, NEW selected \in SUBSET Rules,
              SetEnabled(enabled, selected)
       PROVE  LibraryInv'
  <2>1. ruleLibrary' = [ruleLibrary EXCEPT !.enabled = enabled,
          !.selected = selected, !.filters = ruleLibrary.filters]
    BY <1>1, <1>13 DEF SetEnabled, LibraryPage
  <2>2. UNCHANGED ruleFile
    BY <1>13 DEF SetEnabled
  <2> QED BY <1>1, <1>7, <2>1, <2>2
<1>14. ASSUME NEW r \in Rules, ToggleRule(r) PROVE LibraryInv'
  <2>1. r \in ruleLibrary.rules /\ UNCHANGED ruleFile
    BY <1>1, <1>14 DEF ToggleRule, Table
  <2>2. PICK enabled \in SUBSET ruleLibrary.rules :
          ruleLibrary' = [ruleLibrary EXCEPT !.enabled = enabled]
    BY <1>1, <1>14, <2>1 DEF ToggleRule
  <2>3. ruleLibrary' = [ruleLibrary EXCEPT !.enabled = enabled,
          !.selected = ruleLibrary.selected, !.filters = ruleLibrary.filters]
    BY <1>1, <2>2 DEF LibraryPage
  <2> QED BY <1>1, <1>7, <2>1, <2>3
<1>15. CASE BulkToolbar
  <2>1. Chosen \in SUBSET ruleLibrary.rules
    BY DEF Chosen
  <2> QED BY <1>1, <1>13, <1>15, <2>1 DEF BulkToolbar
<1>16. CASE QuickActions
  BY <1>1, <1>13, <1>16 DEF QuickActions
<1>17. ASSUME NEW content \in Contents, EditContent(content) PROVE LibraryInv'
  BY <1>17, EditStep
<1>18. CASE SaveRules
  BY <1>18, SaveRulesStep
<1>19. ASSUME NEW stored \in BOOLEAN, SaveEnds(stored) PROVE LibraryInv'
  BY <1>19, SaveEndStep
<1>20. CASE UNCHANGED ruleLibraryVars
  BY <1>20 DEF ruleLibraryVars, LibraryInv, TabInv, BlankInv, Ordered, Newest
<1> QED
  BY <1>2, <1>3, <1>4, <1>5, <1>6, <1>8, <1>9, <1>11, <1>12, <1>14, <1>15, <1>16, <1>17,
     <1>18, <1>19, <1>20
  DEF RuleLibraryNext

\* What ui/src/components/AdvancedDetection.tsx shows is of its tab, for any rules,
\* tabs and contents and any number of loads in flight.
THEOREM PageOfTab == RuleLibrarySpec => [](RuleLibraryTypeOK /\ PageIsOfItsTab)
<1>1. LibraryInv => RuleLibraryTypeOK
  BY DEF LibraryInv, RuleLibraryTypeOK, LibraryPage, Loads
<1>2. LibraryInv => PageIsOfItsTab
  <2> SUFFICES ASSUME LibraryInv PROVE PageIsOfItsTab
    OBVIOUS
  <2>1. ruleLibrary.pending = <<>> => Newest(ruleLibrary.pending) = {}
    BY DEF Newest
  <2> QED BY <2>1 DEF LibraryInv, TabInv, BlankInv, PageIsOfItsTab, InRules, InEditor
<1> QED
  BY LibraryStarts, LibraryStep, <1>1, <1>2, PTL DEF RuleLibrarySpec

-----------------------------------------------------------------------------
(* The incident board (IncidentBoard).                                       *)

Items == {"status_change", "comment"}

\* One more item at the head of a timeline: the others move by one place.
LEMMA Prepended ==
  ASSUME NEW t \in Seq(Items), NEW item \in Items, NEW s, s = <<item>> \o t
  PROVE  /\ s \in Seq(Items) /\ Len(s) = Len(t) + 1 /\ s[1] = item
         /\ \A k \in 2 .. Len(s) : k - 1 \in DOMAIN t /\ s[k] = t[k - 1]
OBVIOUS

LEMMA CommentsFinite == ASSUME NEW t \in Seq(Items) PROVE IsFiniteSet(Comments(t))
<1>1. IsFiniteSet(1 .. Len(t)) /\ Comments(t) \subseteq 1 .. Len(t)
  BY FS_Interval DEF Comments
<1> QED BY <1>1, FS_Subset

LEMMA CommentsCounted ==
  ASSUME NEW t \in Seq(Items), NEW item \in Items, NEW s, s = <<item>> \o t
  PROVE  Cardinality(Comments(s)) =
           IF item = "comment" THEN Cardinality(Comments(t)) + 1 ELSE Cardinality(Comments(t))
<1> DEFINE C == Comments(t)
           D == {k + 1 : k \in C}
           f == [k \in C |-> k + 1]
<1>1. C \subseteq 1 .. Len(t) /\ Len(t) \in Nat /\ DOMAIN t = 1 .. Len(t)
  BY DEF Comments
<1>2. f \in Bijection(C, D)
  <2>1. f \in [C -> D] /\ \A d \in D : \E k \in C : f[k] = d
    OBVIOUS
  <2>2. \A j, k \in C : f[j] = f[k] => j = k
    BY <1>1
  <2> QED BY <2>1, <2>2 DEF Bijection, Injection, Surjection, IsInjective
<1>3. IsFiniteSet(D) /\ Cardinality(D) = Cardinality(C)
  BY <1>2, CommentsFinite, FS_Bijection DEF ExistsBijection
<1>4. /\ Len(s) = Len(t) + 1 /\ s[1] = item /\ DOMAIN s = 1 .. Len(s)
      /\ \A k \in 2 .. Len(s) : k - 1 \in DOMAIN t /\ s[k] = t[k - 1]
  BY Prepended
<1>5. 1 \notin D
  BY <1>1
<1>6. \A k \in DOMAIN s \ {1} : s[k] = "comment" <=> k \in D
  <2> TAKE k \in DOMAIN s \ {1}
  <2>1. k - 1 \in DOMAIN t /\ s[k] = t[k - 1] /\ k \in Int
    BY <1>1, <1>4
  <2>2. k - 1 \in C <=> k \in D
    BY <1>1, <2>1
  <2> QED BY <2>1, <2>2 DEF Comments
<1>7. D \subseteq DOMAIN s \ {1}
  BY <1>1, <1>4
<1>8. 1 \in DOMAIN s
  BY <1>1, <1>4
<1> HIDE DEF C, D, f
<1>9. Comments(s) = IF item = "comment" THEN D \union {1} ELSE D
  BY <1>4, <1>6, <1>7, <1>8 DEF Comments
<1>10. Cardinality(D \union {1}) = Cardinality(D) + 1
  BY <1>3, <1>5, FS_AddElement
<1> QED BY <1>3, <1>9, <1>10 DEF C

Board == [Incidents -> Incident]

IsOf(open, incident) ==
  /\ open.status = incident.status
  /\ Cardinality(Comments(open.timeline)) = Cardinality(Comments(incident.timeline))
  /\ Len(open.timeline) <= Len(incident.timeline)

\* An open incident is of a board that is loaded, and of its own card.
BoardInv ==
  /\ IncidentBoardTypeOK
  /\ incidents # <<>> => \A i \in Incidents : incidents[i].id = i
  /\ \A open \in selectedIncident :
       /\ incidents \in Board /\ incidents # <<>>
       /\ IsOf(open, incidents[open.id])

LEMMA NotEmpty == ASSUME NEW f, NEW i \in DOMAIN f PROVE f # <<>>
OBVIOUS

LEMMA IncidentFields ==
  ASSUME NEW incident \in Incident
  PROVE  /\ incident = [id |-> incident.id, status |-> incident.status,
                        timeline |-> incident.timeline]
         /\ incident.id \in Incidents /\ incident.status \in Statuses
         /\ incident.timeline \in Seq(Items)
BY DEF Incident, Items

LEMMA LoggedIncident ==
  ASSUME NEW incident \in Incident, NEW item \in Items, NEW r, r = Logged(incident, item)
  PROVE  /\ r \in Incident /\ r.id = incident.id /\ r.status = incident.status
         /\ Len(r.timeline) = Len(incident.timeline) + 1
         /\ Cardinality(Comments(r.timeline)) =
              IF item = "comment" THEN Cardinality(Comments(incident.timeline)) + 1
              ELSE Cardinality(Comments(incident.timeline))
<1>1. PICK t : t = <<item>> \o incident.timeline
  OBVIOUS
<1>2. t \in Seq(Items) /\ Len(t) = Len(incident.timeline) + 1
  BY <1>1, IncidentFields, Prepended
<1>3. r = [incident EXCEPT !.timeline = t]
  BY <1>1 DEF Logged
<1>4. r \in Incident /\ r.id = incident.id /\ r.status = incident.status /\ r.timeline = t
  BY <1>2, <1>3 DEF Incident, Items
<1>5. Cardinality(Comments(t)) =
              IF item = "comment" THEN Cardinality(Comments(incident.timeline)) + 1
              ELSE Cardinality(Comments(incident.timeline))
  BY <1>1, IncidentFields, CommentsCounted
<1> QED BY <1>2, <1>4, <1>5

LEMMA BoardInit == IncidentBoardInit => BoardInv
BY DEF IncidentBoardInit, BoardInv, IncidentBoardTypeOK

\* A handler of the open detail writes both copies.
LEMMA DetailStep ==
  ASSUME BoardInv, NEW open \in selectedIncident, NEW copy \in Incident, NEW card \in Incident,
         copy.id = open.id, card.id = open.id, IsOf(copy, card),
         incidents' = [incidents EXCEPT ![open.id] = card],
         selectedIncident' = {copy},
         newComment' \in {"", "blank", "note"}, filterStatus' = filterStatus
  PROVE  BoardInv'
<1>1. open \in Incident /\ open.id \in Incidents
  BY IncidentFields DEF BoardInv, IncidentBoardTypeOK
<1>2. incidents \in Board /\ \A i \in Incidents : incidents[i].id = i
  BY DEF BoardInv
<1>3. incidents' \in Board /\ incidents'[open.id] = card
      /\ \A i \in Incidents : incidents'[i].id = i
  BY <1>1, <1>2 DEF Board
<1>4. incidents' # <<>>
  <2>1. open.id \in DOMAIN incidents'
    BY <1>1, <1>3 DEF Board
  <2> QED BY <2>1, NotEmpty
<1> QED BY <1>3, <1>4 DEF BoardInv, IncidentBoardTypeOK, Board

LEMMA OpenIs ==
  ASSUME BoardInv, NEW open \in selectedIncident
  PROVE  /\ open \in Incident /\ open.id \in Incidents /\ incidents[open.id] \in Incident
         /\ incidents[open.id].id = open.id /\ IsOf(open, incidents[open.id])
<1>1. open \in Incident /\ open.id \in Incidents
  BY IncidentFields DEF BoardInv, IncidentBoardTypeOK
<1> QED BY <1>1 DEF BoardInv, Board

LEMMA StatusStep ==
  ASSUME BoardInv, NEW status \in Statuses, HandleStatusChange(status) PROVE BoardInv'
<1>1. PICK open \in selectedIncident :
        /\ incidents' = [incidents EXCEPT ![open.id] =
                           Logged([incidents[open.id] EXCEPT !.status = status], "status_change")]
        /\ selectedIncident' = {[open EXCEPT !.status = status]}
        /\ UNCHANGED <<newComment, filterStatus>>
  BY DEF HandleStatusChange
<1>2. PICK copy : copy = [open EXCEPT !.status = status]
  OBVIOUS
<1>3. PICK changed : changed = [incidents[open.id] EXCEPT !.status = status]
  OBVIOUS
<1>4. PICK card : card = Logged(changed, "status_change")
  OBVIOUS
<1>5. copy \in Incident /\ copy.id = open.id /\ copy.status = status /\ copy.timeline = open.timeline
  BY <1>2, OpenIs DEF Incident
<1>6. /\ changed \in Incident /\ changed.id = open.id /\ changed.status = status
      /\ changed.timeline = incidents[open.id].timeline
  BY <1>3, OpenIs DEF Incident
<1>7. "status_change" \in Items /\ "status_change" # "comment"
  BY DEF Items
<1>8. /\ card \in Incident /\ card.id = open.id /\ card.status = status
      /\ Len(card.timeline) = Len(changed.timeline) + 1
      /\ Cardinality(Comments(card.timeline)) = Cardinality(Comments(changed.timeline))
  BY <1>4, <1>6, <1>7, LoggedIncident
<1>9. IsOf(open, incidents[open.id])
  BY OpenIs
<1>10. Len(open.timeline) \in Nat /\ Len(changed.timeline) \in Nat
  BY <1>6, OpenIs, IncidentFields
<1>11. IsOf(copy, card)
  BY <1>5, <1>6, <1>8, <1>9, <1>10 DEF IsOf
<1>12. newComment' \in {"", "blank", "note"}
  BY <1>1 DEF BoardInv, IncidentBoardTypeOK
<1>13. incidents' = [incidents EXCEPT ![open.id] = card] /\ selectedIncident' = {copy}
  BY <1>1, <1>2, <1>3, <1>4
<1>14. filterStatus' = filterStatus
  BY <1>1
<1> QED BY <1>5, <1>8, <1>11, <1>12, <1>13, <1>14, DetailStep

LEMMA CommentStep == ASSUME BoardInv, HandleAddComment PROVE BoardInv'
<1>1. PICK open \in selectedIncident :
        /\ incidents' = [incidents EXCEPT ![open.id] = Logged(incidents[open.id], "comment")]
        /\ selectedIncident' = {Logged(open, "comment")}
        /\ newComment' = "" /\ UNCHANGED filterStatus
  BY DEF HandleAddComment
<1>2. PICK copy : copy = Logged(open, "comment")
  OBVIOUS
<1>3. PICK card : card = Logged(incidents[open.id], "comment")
  OBVIOUS
<1>4. "comment" \in Items
  BY DEF Items
<1>5. /\ open \in Incident /\ incidents[open.id] \in Incident
      /\ incidents[open.id].id = open.id /\ IsOf(open, incidents[open.id])
  BY OpenIs
<1>6. /\ copy \in Incident /\ copy.id = open.id /\ copy.status = open.status
      /\ Len(copy.timeline) = Len(open.timeline) + 1
      /\ Cardinality(Comments(copy.timeline)) = Cardinality(Comments(open.timeline)) + 1
  BY <1>2, <1>4, <1>5, LoggedIncident
<1>7. /\ card \in Incident /\ card.id = open.id /\ card.status = incidents[open.id].status
      /\ Len(card.timeline) = Len(incidents[open.id].timeline) + 1
      /\ Cardinality(Comments(card.timeline)) = Cardinality(Comments(incidents[open.id].timeline)) + 1
  BY <1>3, <1>4, <1>5, LoggedIncident
<1>8. Len(open.timeline) \in Nat /\ Len(incidents[open.id].timeline) \in Nat
  BY <1>5, IncidentFields
<1>9. IsOf(copy, card)
  BY <1>5, <1>6, <1>7, <1>8 DEF IsOf
<1>10. incidents' = [incidents EXCEPT ![open.id] = card] /\ selectedIncident' = {copy}
  BY <1>1, <1>2, <1>3
<1>11. newComment' \in {"", "blank", "note"} /\ filterStatus' = filterStatus
  BY <1>1
<1> QED BY <1>6, <1>7, <1>9, <1>10, <1>11, DetailStep

LEMMA LoadStep == ASSUME BoardInv, LoadIncidents PROVE BoardInv'
<1>1. PICK status \in [Incidents -> Statuses] :
       incidents' = [i \in Incidents |-> [id |-> i, status |-> status[i], timeline |-> <<>>]]
  BY DEF LoadIncidents
<1>2. incidents = <<>> /\ UNCHANGED <<selectedIncident, newComment, filterStatus>>
  BY DEF LoadIncidents
<1>3. selectedIncident = {}
  BY <1>2 DEF BoardInv
<1>4. incidents' \in Board /\ \A i \in Incidents : incidents'[i].id = i
  <2>1. \A i \in Incidents : [id |-> i, status |-> status[i], timeline |-> <<>>] \in Incident
    BY EmptySeq DEF Incident
  <2> QED BY <1>1, <2>1 DEF Board
<1> QED BY <1>2, <1>3, <1>4 DEF BoardInv, IncidentBoardTypeOK, Board

\* A card is clicked: the copy is what the board has.
LEMMA OpenStep == ASSUME BoardInv, NEW i \in Incidents, SelectIncident(i) PROVE BoardInv'
<1>1. i \in DOMAIN incidents /\ selectedIncident' = {incidents[i]}
  BY DEF SelectIncident, FilteredIncidents
<1>2. UNCHANGED <<incidents, newComment, filterStatus>>
  BY DEF SelectIncident
<1>3. incidents # <<>>
  BY <1>1
<1>4. incidents \in Board /\ incidents[i].id = i /\ incidents[i] \in Incident
  BY <1>3 DEF BoardInv, IncidentBoardTypeOK, Board
<1>5. Len(incidents[i].timeline) \in Nat
  BY <1>4, IncidentFields
<1>6. IsOf(incidents[i], incidents[i])
  BY <1>5 DEF IsOf
<1> QED BY <1>1, <1>2, <1>3, <1>4, <1>6 DEF BoardInv, IncidentBoardTypeOK, Board

LEMMA BoardNext == BoardInv /\ [IncidentBoardNext]_incidentBoardVars => BoardInv'
<1> SUFFICES ASSUME BoardInv, [IncidentBoardNext]_incidentBoardVars PROVE BoardInv'
  OBVIOUS
<1>1. CASE UNCHANGED incidentBoardVars
  BY <1>1 DEF incidentBoardVars, BoardInv, IncidentBoardTypeOK
<1>2. CASE BackToBoard
  BY <1>2 DEF BackToBoard, BoardInv, IncidentBoardTypeOK
<1>3. CASE \E status \in {"all", "New", "Investigating"} : SetFilterStatus(status)
  BY <1>3, IncidentBoardAssumption DEF SetFilterStatus, BoardInv, IncidentBoardTypeOK
<1>4. CASE \E text \in {"", "blank", "note"} : TypeComment(text)
  BY <1>4 DEF TypeComment, BoardInv, IncidentBoardTypeOK
<1> QED BY <1>1, <1>2, <1>3, <1>4, LoadStep, OpenStep, StatusStep, CommentStep DEF IncidentBoardNext

LEMMA BoardHolds == BoardInv => IncidentBoardTypeOK /\ DetailIsTheIncident
BY DEF BoardInv, DetailIsTheIncident, IsOf

\* The incident that is open in ui/src/components/IncidentBoard.tsx is that of the
\* board, for any incidents and timelines of any length.
THEOREM DetailOfTheBoard == IncidentBoardSpec => [](IncidentBoardTypeOK /\ DetailIsTheIncident)
BY BoardInit, BoardNext, BoardHolds, PTL DEF IncidentBoardSpec

-----------------------------------------------------------------------------
(* The chat (AiChat).                                                        *)

Speakers == {"ai", "user", "error"}
Chat == [isOpen : BOOLEAN, messages : Seq(Speakers), input : {"", "blank", "text"},
         loading : BOOLEAN, awaiting : {"none", "server", "mock"}]

LEMMA SaysTyped ==
  ASSUME chat \in Chat, NEW message \in Speakers, NEW r, r = Says(message) PROVE r \in Chat
<1>1. chat.messages \in Seq(Speakers)
  BY DEF Chat
<1>2. PICK messages : messages = Append(chat.messages, message)
  OBVIOUS
<1>3. messages \in Seq(Speakers)
  BY <1>1, <1>2, AppendProperties
<1>4. r = [chat EXCEPT !.messages = messages, !.loading = FALSE, !.awaiting = "none"]
  BY <1>2 DEF Says
<1> QED BY <1>3, <1>4 DEF Chat

LEMMA ChatInit == AiChatInit => chat \in Chat
<1> SUFFICES ASSUME AiChatInit PROVE chat \in Chat
  OBVIOUS
<1>1. PICK messages : messages = <<"ai">>
  OBVIOUS
<1>2. messages \in Seq(Speakers)
  BY <1>1 DEF Speakers
<1>3. chat = [isOpen |-> FALSE, messages |-> messages, input |-> "", loading |-> FALSE,
              awaiting |-> "none"]
  BY <1>1 DEF AiChatInit
<1> QED BY <1>2, <1>3 DEF Chat

LEMMA ChatNext == chat \in Chat /\ [AiChatNext]_aiChatVars => (chat \in Chat)'
<1> SUFFICES ASSUME chat \in Chat, [AiChatNext]_aiChatVars PROVE chat' \in Chat
  OBVIOUS
<1>1. CASE UNCHANGED aiChatVars
  BY <1>1 DEF aiChatVars
<1>2. CASE \/ \E open \in BOOLEAN : SetIsOpen(open)
           \/ \E text \in {"", "blank", "text"} : SetInput(text)
  BY <1>2 DEF SetIsOpen, SetInput, Chat
<1>3. CASE HandleSend
  <2>1. PICK messages : messages = Append(chat.messages, "user")
    OBVIOUS
  <2>2. chat.messages \in Seq(Speakers) /\ "user" \in Speakers
    BY DEF Chat, Speakers
  <2>3. messages \in Seq(Speakers)
    BY <2>1, <2>2, AppendProperties
  <2>4. chat' = [chat EXCEPT !.messages = messages, !.input = "", !.loading = TRUE,
                             !.awaiting = "server"]
    BY <1>3, <2>1 DEF HandleSend
  <2> QED BY <2>3, <2>4 DEF Chat
<1>4. "ai" \in Speakers /\ "error" \in Speakers
  BY DEF Speakers
<1>5. CASE ServerAnswers
  <2>1. CASE chat' = Says("ai")
    BY <1>4, <2>1, SaysTyped
  <2>2. CASE chat' = [chat EXCEPT !.awaiting = "mock"]
    BY <2>2 DEF Chat
  <2> QED BY <1>5, <2>1, <2>2 DEF ServerAnswers
<1>6. CASE MockAnswers
  BY <1>4, <1>6, SaysTyped DEF MockAnswers
<1> QED BY <1>1, <1>2, <1>3, <1>5, <1>6 DEF AiChatNext

LEMMA ChatTyped == chat \in Chat => AiChatTypeOK
BY DEF Chat, Speakers, AiChatTypeOK

\* The chat of ui/src/components/AiChatWidget.tsx says what its parties say.
THEOREM ChatSays == AiChatSpec => []AiChatTypeOK
BY ChatInit, ChatNext, ChatTyped, PTL DEF AiChatSpec

-----------------------------------------------------------------------------
(* The pages together (Console).                                           *)

\* A step of the console is a step of a part, or leaves the part as it is.
LEMMA ConsoleSteps ==
  [ConsoleNext]_consoleVars =>
    /\ [SavedQueriesNext]_savedQueriesVars
    /\ [ApiClientNext]_apiClientVars
    /\ [InvestigationNext]_investigationVars
    /\ [EventSearchNext]_eventSearchVars
    /\ [RuleLibraryNext]_ruleLibraryVars
    /\ [IncidentBoardNext]_incidentBoardVars
    /\ [AiChatNext]_aiChatVars
<1> SUFFICES ASSUME [ConsoleNext]_consoleVars
             PROVE  /\ SavedQueriesNext \/ UNCHANGED savedQueriesVars
                    /\ ApiClientNext \/ UNCHANGED apiClientVars
                    /\ InvestigationNext \/ UNCHANGED investigationVars
                    /\ EventSearchNext \/ UNCHANGED eventSearchVars
                    /\ RuleLibraryNext \/ UNCHANGED ruleLibraryVars
                    /\ IncidentBoardNext \/ UNCHANGED incidentBoardVars
                    /\ AiChatNext \/ UNCHANGED aiChatVars
  OBVIOUS
<1>1. CASE InSavedQueries /\ SavedQueriesNext
  BY <1>1 DEF InSavedQueries
<1>2. CASE InInvestigation /\ InvestigationNext
  BY <1>2 DEF InInvestigation
<1>3. CASE InEventSearch /\ EventSearchNext
  BY <1>3 DEF InEventSearch
<1>4. CASE InRuleLibrary /\ RuleLibraryNext
  BY <1>4 DEF InRuleLibrary
<1>5. CASE InIncidentBoard /\ IncidentBoardNext
  BY <1>5 DEF InIncidentBoard
<1>6. CASE InApiClient /\ ApiClientNext
  BY <1>6 DEF InApiClient
<1>7. CASE InAiChat /\ AiChatNext
  BY <1>7 DEF InAiChat
<1>8. CASE UNCHANGED consoleVars
  BY <1>8 DEF consoleVars
<1> QED
  BY <1>1, <1>2, <1>3, <1>4, <1>5, <1>6, <1>7, <1>8 DEF ConsoleNext

\* What each page of an analyst promises (ui/src/pages, ui/src/components and the
\* hooks and the client they use) holds of the console, whose part is any of them.
THEOREM ConsoleKeepsItsPromises ==
  ConsoleSpec => [](/\ ConsoleTypeOK
                    /\ SavedQueriesAreKept /\ OutcomeIsTrue /\ RowsOfTheSearch
                    /\ EventSearchAnswers /\ PageIsOfItsTab /\ DetailIsTheIncident)
<1>1. ConsoleInit => /\ SavedQueriesInit /\ ApiClientInit /\ InvestigationInit
                     /\ EventSearchInit /\ RuleLibraryInit /\ IncidentBoardInit /\ AiChatInit
  BY DEF ConsoleInit
<1>2. ConsoleSpec => /\ SavedQueriesSpec /\ ApiClientSpec /\ InvestigationSpec
                     /\ EventSearchSpec /\ RuleLibrarySpec /\ IncidentBoardSpec /\ AiChatSpec
  BY <1>1, ConsoleSteps, PTL
  DEF ConsoleSpec, SavedQueriesSpec, ApiClientSpec, InvestigationSpec, EventSearchSpec,
      RuleLibrarySpec, IncidentBoardSpec, AiChatSpec
<1> QED
  BY <1>2, QueriesKept, RequestsTyped, OutcomesTrue, RowsOfSearch, SearchAnswered, PageOfTab,
     DetailOfTheBoard, ChatSays, PTL
  DEF ConsoleTypeOK
==============================================================================
