--------------------------------- MODULE AiChat ---------------------------------
(***************************************************************************)
(* The chat with the AI analyst, ui/src/components/AiChatWidget.tsx: one   *)
(* question at a time, answered by the server, or by the built-in answers  *)
(* when the server fails, or by an error message when those fail too.      *)
(***************************************************************************)
EXTENDS Naturals, Sequences, SequencesExt

CONSTANT MaxMessages \* bound: messages of a conversation

ASSUME AiChatAssumption == MaxMessages \in Nat \ {0}

VARIABLE chat \* the state of the widget, and whom an answer is awaited from

aiChatVars == <<chat>>

AiChatInit ==
  chat = [isOpen |-> FALSE, messages |-> <<"ai">>, input |-> "", loading |-> FALSE,
          awaiting |-> "none"]

\* The widget keeps its conversation, and an answer may come, while it is shut.
SetIsOpen(open) ==
  /\ chat.isOpen # open
  /\ chat' = [chat EXCEPT !.isOpen = open]

\* What the open widget lets the user do: nothing while it is loading.
CanType == chat.isOpen /\ ~chat.loading

SetInput(text) == CanType /\ chat' = [chat EXCEPT !.input = text]

HandleSend ==
  /\ CanType
  /\ chat.input = "text"
  /\ Len(chat.messages) < MaxMessages
  /\ chat' = [chat EXCEPT !.messages = Append(@, "user"), !.input = "",
                !.loading = TRUE, !.awaiting = "server"]

Says(message) == [chat EXCEPT !.messages = Append(@, message), !.loading = FALSE,
                    !.awaiting = "none"]

\* The request of services/api.ts gives up after its timeout: it always ends.
ServerAnswers ==
  /\ chat.awaiting = "server"
  /\ chat' \in {Says("ai"), [chat EXCEPT !.awaiting = "mock"]}

MockAnswers ==
  /\ chat.awaiting = "mock"
  /\ chat' \in {Says("ai"), Says("error")}

AiChatNext ==
  \/ \E open \in BOOLEAN : SetIsOpen(open)
  \/ \E text \in {"", "blank", "text"} : SetInput(text)
  \/ HandleSend \/ ServerAnswers \/ MockAnswers

AiChatSpec == AiChatInit /\ [][AiChatNext]_aiChatVars

-----------------------------------------------------------------------------
(* Properties.                                                             *)

AiChatTypeOK ==
  chat \in [isOpen : BOOLEAN, messages : Seq({"ai", "user", "error"}),
            input : {"", "blank", "text"}, loading : BOOLEAN,
            awaiting : {"none", "server", "mock"}]
=============================================================================
