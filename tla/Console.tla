-------------------------------- MODULE Console --------------------------------
(***************************************************************************)
(* The pages of the web UI an analyst works in.  They share no state: what *)
(* one of them does another never reads, so a behaviour is that of one     *)
(* part, and every part has its behaviours here.                           *)
(***************************************************************************)
EXTENDS SavedQueries, Investigation, EventSearch, RuleLibrary, IncidentBoard,
        ApiClient, AiChat

VARIABLE part \* the part whose behaviour this is

consoleVars == <<part, savedQueriesVars, investigationVars, eventSearchVars,
                 ruleLibraryVars, incidentBoardVars, apiClientVars, aiChatVars>>

Parts == {"saved queries", "investigation", "event search", "rule library",
          "incident board", "api client", "ai chat"}

ConsoleInit ==
  /\ part \in Parts
  /\ SavedQueriesInit /\ InvestigationInit /\ EventSearchInit /\ RuleLibraryInit
  /\ IncidentBoardInit /\ ApiClientInit /\ AiChatInit
  /\ part # "saved queries" => store.readable

\* A step of one part leaves the others as they are.
InSavedQueries ==
  /\ part = "saved queries"
  /\ UNCHANGED <<part, investigationVars, eventSearchVars, ruleLibraryVars,
                 incidentBoardVars, apiClientVars, aiChatVars>>
InInvestigation ==
  /\ part = "investigation"
  /\ UNCHANGED <<part, savedQueriesVars, eventSearchVars, ruleLibraryVars,
                 incidentBoardVars, apiClientVars, aiChatVars>>
InEventSearch ==
  /\ part = "event search"
  /\ UNCHANGED <<part, savedQueriesVars, investigationVars, ruleLibraryVars,
                 incidentBoardVars, apiClientVars, aiChatVars>>
InRuleLibrary ==
  /\ part = "rule library"
  /\ UNCHANGED <<part, savedQueriesVars, investigationVars, eventSearchVars,
                 incidentBoardVars, apiClientVars, aiChatVars>>
InIncidentBoard ==
  /\ part = "incident board"
  /\ UNCHANGED <<part, savedQueriesVars, investigationVars, eventSearchVars,
                 ruleLibraryVars, apiClientVars, aiChatVars>>
InApiClient ==
  /\ part = "api client"
  /\ UNCHANGED <<part, savedQueriesVars, investigationVars, eventSearchVars,
                 ruleLibraryVars, incidentBoardVars, aiChatVars>>
InAiChat ==
  /\ part = "ai chat"
  /\ UNCHANGED <<part, savedQueriesVars, investigationVars, eventSearchVars,
                 ruleLibraryVars, incidentBoardVars, apiClientVars>>

ConsoleNext ==
  \/ InSavedQueries /\ SavedQueriesNext
  \/ InInvestigation /\ InvestigationNext
  \/ InEventSearch /\ EventSearchNext
  \/ InRuleLibrary /\ RuleLibraryNext
  \/ InIncidentBoard /\ IncidentBoardNext
  \/ InApiClient /\ ApiClientNext
  \/ InAiChat /\ AiChatNext

AnswersArrive ==
  \/ InInvestigation /\ FirstLogsArrive
  \/ InEventSearch /\ FirstResultsArrive
  \/ InRuleLibrary /\ FirstLoadArrives
  \/ InAiChat /\ (ServerAnswers \/ MockAnswers)
  \/ InApiClient /\ \E r \in Requests : Settles(r)

\* Timers fire, and a request is answered or fails in the end: the browser ends
\* a fetch, and the client of services/api.ts has a timeout.  Only the part of
\* the behaviour moves, so one fairness of answers is that of its answers.
ConsoleFairness ==
  /\ WF_consoleVars(InInvestigation /\ DebounceFires)
  /\ WF_consoleVars(AnswersArrive)

ConsoleSpec == ConsoleInit /\ [][ConsoleNext]_consoleVars /\ ConsoleFairness

-----------------------------------------------------------------------------
(* Properties.                                                             *)

\* Every variable of the parts has its type.
ConsoleTypeOK ==
  /\ SavedQueriesTypeOK /\ InvestigationTypeOK /\ EventSearchTypeOK /\ RuleLibraryTypeOK
  /\ IncidentBoardTypeOK /\ ApiClientTypeOK /\ AiChatTypeOK

\* What a page shows as loading, or a caller awaits, as its part has it.
Loading ==
  \/ part = "investigation" /\ investigation.loading
  \/ part = "event search" /\ eventSearch.loading
  \/ part = "rule library" /\ ruleLibrary.loading
  \/ part = "ai chat" /\ chat.loading
  \/ part = "api client" /\ \A r \in Requests : request[r].phase \in {"sent", "waiting"}

\* A page does not load for ever: every request, retried or not, is settled,
\* and no answer, late, failed or overtaken, leaves a page on its spinner.
LoadingEnds == Loading ~> ~Loading
=============================================================================
