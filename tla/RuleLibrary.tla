------------------------------ MODULE RuleLibrary ------------------------------
(***************************************************************************)
(* The detection rules, ui/src/components/AdvancedDetection.tsx:           *)
(* a tab per kind of rule, the selection and the bulk operations over it,  *)
(* the library, and the editor of the rule file the server keeps.          *)
(*                                                                         *)
(* Every change of tab sends a load and cancels none.  A rule is on or off *)
(* on this page only; the counters of the header, names, dates and hits    *)
(* are left out.  The search and the selects of the filter panel are one    *)
(* filter, by what a rule is.                                              *)
(***************************************************************************)
EXTENDS Naturals, FiniteSets, Sequences, SequencesExt

CONSTANTS
  RuleTabs,      \* "suricata", "yara", "sigma"
  RulesOf,       \* the rules of each of these tabs
  Critical,      \* rules of severity Critical
  Recommended,   \* the others that "Enable Recommended" turns on
  LibraryEnabled, \* the rules the library has enabled
  Contents,      \* what the rule file may hold, "" among it
  FirstContent,  \* what it holds when the page is first opened
  MaxLoads       \* bound: loads in flight

ASSUME RuleLibraryAssumption ==
  /\ "suricata" \in RuleTabs
  /\ {"analytics", "mitre", "editor"} \intersect RuleTabs = {}
  /\ DOMAIN RulesOf = RuleTabs
  /\ {"", FirstContent} \subseteq Contents
  /\ FirstContent # ""
  /\ MaxLoads \in Nat

VARIABLES
  ruleLibrary, \* the state of the component
  ruleFile     \* the rule file the server keeps

ruleLibraryVars == <<ruleLibrary, ruleFile>>

Tabs == RuleTabs \union {"analytics", "mitre", "editor"}
Rules == UNION {RulesOf[t] : t \in RuleTabs}

\* An answer may bring every kind of rule where the tab is not of one kind.
RulesFor(t) == IF t \in RuleTabs THEN RulesOf[t] ELSE Rules

\* A load of the editor may read any content the file has from then on.
Load(t, content) == [tab |-> t, reads |-> {content}, overtaken |-> FALSE]

RuleLibraryMounted(content) ==
  [activeTab |-> "suricata", rules |-> {}, enabled |-> {}, loading |-> TRUE,
   pending |-> <<Load("suricata", content)>>, late |-> FALSE, selected |-> {},
   filters |-> "all", libraryLoaded |-> FALSE, ruleContent |-> "", saving |-> {},
   loaded |-> FALSE, typed |-> FALSE, missed |-> FALSE, blank |-> FALSE]

RuleLibraryInit ==
  /\ ruleLibrary = RuleLibraryMounted(FirstContent)
  /\ ruleFile = FirstContent

\* Analytics and MITRE wait for the library.
CanOpen(t) == t \in {"analytics", "mitre"} => ruleLibrary.libraryLoaded

\* Mutant: the editor has what it had, and is not loaded.
SetActiveTabNoEditorLoad(t, filters) ==
  /\ t # ruleLibrary.activeTab
  /\ Len(ruleLibrary.pending) < MaxLoads
  /\ ruleLibrary' = [ruleLibrary EXCEPT !.activeTab = t, !.filters = filters,
       !.loading = t # "editor", !.missed = FALSE,
       !.pending = IF t = "editor" THEN @ ELSE Append(@, Load(t, ruleFile))]
  /\ UNCHANGED ruleFile

\* The effect on activeTab.
SetActiveTab(t, filters) ==
  /\ t # ruleLibrary.activeTab
  /\ Len(ruleLibrary.pending) < MaxLoads
  /\ ruleLibrary' = [ruleLibrary EXCEPT !.activeTab = t, !.filters = filters,
       !.loading = TRUE, !.missed = FALSE, !.pending = Append(@, Load(t, ruleFile))]
  /\ UNCHANGED ruleFile

OpenTab(t) == CanOpen(t) /\ SetActiveTab(t, ruleLibrary.filters)

\* A tactic of the heat map, or a category or a severity of the analytics.
ClickTactic ==
  /\ ruleLibrary.activeTab = "mitre"
  /\ SetActiveTab("suricata", ruleLibrary.filters)
ClickCategory ==
  /\ ruleLibrary.activeTab = "analytics"
  /\ SetActiveTab("suricata", "critical")

\* The load that is answered, and those it has overtaken.
AnswerLoad(i) ==
  LET loads == ruleLibrary.pending IN
  [ruleLibrary EXCEPT !.loading = FALSE,
     !.pending = RemoveAt([j \in DOMAIN loads |->
                    IF j < i THEN [loads[j] EXCEPT !.overtaken = TRUE] ELSE loads[j]], i)]

\* The server's rules of the tab, or the built-in ones when the load fails.
RulesArrive(i) ==
  /\ ruleLibrary.pending[i].tab # "editor"
  /\ \E rules \in SUBSET RulesFor(ruleLibrary.pending[i].tab) : \E enabled \in SUBSET rules :
       ruleLibrary' = [AnswerLoad(i) EXCEPT !.rules = rules, !.enabled = enabled,
                         !.late = ruleLibrary.pending[i].overtaken]
  /\ UNCHANGED ruleFile

ContentArrives(i) ==
  /\ ruleLibrary.pending[i].tab = "editor"
  /\ \E content \in ruleLibrary.pending[i].reads :
       ruleLibrary' = [AnswerLoad(i) EXCEPT !.ruleContent = content, !.loaded = TRUE,
                         !.typed = FALSE, !.missed = content # ruleFile]
  /\ UNCHANGED ruleFile

\* A failed load of the editor shows the built-in rules of its last branch.
ContentFails(i) ==
  /\ ruleLibrary.pending[i].tab = "editor"
  /\ \E rules \in SUBSET Rules : \E enabled \in SUBSET rules :
       ruleLibrary' = [AnswerLoad(i) EXCEPT !.rules = rules, !.enabled = enabled,
                         !.late = ruleLibrary.pending[i].overtaken, !.missed = TRUE]
  /\ UNCHANGED ruleFile

\* What the content panel shows, and the rows of its table.
InRules == ruleLibrary.activeTab \in RuleTabs
InEditor == ruleLibrary.activeTab = "editor"
FilteredRules == {r \in ruleLibrary.rules : ruleLibrary.filters = "critical" => r \in Critical}
Table == IF InRules /\ ~ruleLibrary.loading THEN FilteredRules ELSE {}

\* The library is generated at once; a load in flight still overwrites it.
LoadRuleLibrary ==
  /\ InRules
  /\ ~ruleLibrary.libraryLoaded
  /\ ruleLibrary' = [ruleLibrary EXCEPT !.libraryLoaded = TRUE, !.loading = FALSE,
       !.rules = RulesOf[ruleLibrary.activeTab],
       !.enabled = RulesOf[ruleLibrary.activeTab] \intersect LibraryEnabled,
       !.late = FALSE]
  /\ UNCHANGED ruleFile

SetRuleFilters(filters) ==
  /\ InRules
  /\ ruleLibrary' = [ruleLibrary EXCEPT !.filters = filters]
  /\ UNCHANGED ruleFile

\* It compares sizes only: a selection of other rules may count as all.
HandleSelectAll ==
  /\ InRules /\ ~ruleLibrary.loading
  /\ ruleLibrary' = [ruleLibrary EXCEPT !.selected =
       IF Cardinality(@) = Cardinality(FilteredRules) THEN {} ELSE FilteredRules]
  /\ UNCHANGED ruleFile

SelectRule(r) ==
  /\ r \in Table
  /\ ruleLibrary' = [ruleLibrary EXCEPT !.selected = IF r \in @ THEN @ \ {r} ELSE @ \union {r}]
  /\ UNCHANGED ruleFile

ToggleRule(r) ==
  /\ r \in Table
  /\ ruleLibrary' = [ruleLibrary EXCEPT !.enabled = IF r \in @ THEN @ \ {r} ELSE @ \union {r}]
  /\ UNCHANGED ruleFile

\* The bulk operations: over what is selected, whether or not it is shown.
SetEnabled(enabled, selected) ==
  /\ InRules
  /\ ruleLibrary' = [ruleLibrary EXCEPT !.enabled = enabled, !.selected = selected]
  /\ UNCHANGED ruleFile

Chosen == ruleLibrary.selected \intersect ruleLibrary.rules

BulkToolbar ==
  /\ ruleLibrary.selected # {}
  /\ \/ SetEnabled(ruleLibrary.enabled \union Chosen, {})
     \/ SetEnabled(ruleLibrary.enabled \ Chosen, {})
     \/ SetEnabled(ruleLibrary.enabled, {})

QuickActions ==
  /\ ruleLibrary.libraryLoaded
  /\ \/ \E on \in {Critical, Critical \union Recommended} :
          SetEnabled(ruleLibrary.enabled \union (on \intersect ruleLibrary.rules),
                     ruleLibrary.selected)
     \/ SetEnabled({}, {})

EditContent(content) ==
  /\ InEditor
  /\ ruleLibrary' = [ruleLibrary EXCEPT !.ruleContent = content, !.typed = TRUE,
                       !.loaded = TRUE]
  /\ UNCHANGED ruleFile

\* Save is disabled only while a save is under way.
SaveRules ==
  /\ InEditor
  /\ ruleLibrary.saving = {}
  /\ ruleLibrary' = [ruleLibrary EXCEPT !.saving = {ruleLibrary.ruleContent},
       !.blank = @ \/ ~ruleLibrary.loaded \/ (ruleLibrary.typed /\ ruleLibrary.ruleContent = "")]
  /\ UNCHANGED ruleFile

\* The server stores the content, or the save fails; the page tells no one.
SaveEnds(stored) == \E content \in ruleLibrary.saving :
  /\ ruleFile' = IF stored THEN content ELSE ruleFile
  /\ LET other == ruleLibrary.ruleContent # ruleFile'
         loads == ruleLibrary.pending IN
     ruleLibrary' = [ruleLibrary EXCEPT !.saving = {},
       !.typed = IF stored THEN @ /\ other ELSE @,
       !.missed = IF stored THEN ~ruleLibrary.typed /\ other ELSE @,
       !.pending = [i \in DOMAIN loads |->
                      [loads[i] EXCEPT !.reads = @ \union {ruleFile'}]]]

RuleLibraryNext ==
  \/ \E t \in Tabs : OpenTab(t)
  \/ ClickTactic \/ ClickCategory
  \/ \E i \in DOMAIN ruleLibrary.pending :
       RulesArrive(i) \/ ContentArrives(i) \/ ContentFails(i)
  \/ LoadRuleLibrary
  \/ \E filters \in {"all", "critical"} : SetRuleFilters(filters)
  \/ HandleSelectAll \/ (\E r \in Rules : SelectRule(r) \/ ToggleRule(r))
  \/ BulkToolbar \/ QuickActions
  \/ (\E content \in Contents : EditContent(content))
  \/ SaveRules \/ (\E stored \in BOOLEAN : SaveEnds(stored))

RuleLibrarySpec == RuleLibraryInit /\ [][RuleLibraryNext]_ruleLibraryVars

\* The browser answers or fails a request in the end.
FirstLoadArrives ==
  /\ ruleLibrary.pending # <<>>
  /\ RulesArrive(1) \/ ContentArrives(1) \/ ContentFails(1)

-----------------------------------------------------------------------------
(* Properties.                                                             *)

RuleLibraryTypeOK ==
  /\ ruleLibrary.activeTab \in Tabs
  /\ ruleLibrary.enabled \subseteq ruleLibrary.rules
  /\ ruleLibrary.rules \union ruleLibrary.selected \subseteq Rules
  /\ ruleLibrary.filters \in {"all", "critical"}
  /\ ruleLibrary.pending \in Seq([tab : Tabs, reads : SUBSET Contents, overtaken : BOOLEAN])
  /\ ruleLibrary.saving \subseteq Contents
  /\ {ruleFile, ruleLibrary.ruleContent} \subseteq Contents
  /\ {ruleLibrary.loading, ruleLibrary.late, ruleLibrary.libraryLoaded, ruleLibrary.loaded,
      ruleLibrary.typed, ruleLibrary.missed, ruleLibrary.blank} \subseteq BOOLEAN

\* With nothing in flight, what the page shows is what its tab names.  The table
\* has rules of the tab's kind only: neither a load of another tab nor one of the
\* editor has put its rules there, unless its answer came after that of a later
\* load.  The editor has the rule file or what the user has typed since, unless its
\* load failed, or read what a save has since replaced.  And the file is blank only
\* if the user blanked it, or pressed Save before any load had brought its content.
PageIsOfItsTab ==
  /\ InRules /\ ruleLibrary.pending = <<>> =>
       ruleLibrary.late \/ ruleLibrary.rules \subseteq RulesOf[ruleLibrary.activeTab]
  /\ InEditor /\ ruleLibrary.pending = <<>> /\ ruleLibrary.saving = {} =>
       \/ ruleLibrary.typed \/ ruleLibrary.missed
       \/ ruleLibrary.ruleContent = ruleFile
  /\ ruleFile = "" => ruleLibrary.blank
=============================================================================
