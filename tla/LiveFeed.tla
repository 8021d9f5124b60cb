-------------------------------- MODULE LiveFeed --------------------------------
(***************************************************************************)
(* The live event stream: ui/src/components/RealTimeFeed.tsx, the hook     *)
(* useWebSocket and the EventDetailModal.                                  *)
(*                                                                         *)
(* The messages of the socket are state of the hook, and an effect turns   *)
(* the newest of a render into an event.  React may render several at      *)
(* once: the others never become events.  The effect also runs when the    *)
(* feed is paused or resumed.  Nothing opens the socket again.  Until it   *)
(* is open, and once it is closed, a timer makes events up.                *)
(***************************************************************************)
EXTENDS Naturals, Sequences

CONSTANTS
  MaxEvents,   \* events kept, 100 in the code
  MaxMessages, \* bound: messages of the server
  MaxIds       \* bound: events made

ASSUME LiveFeedAssumption == {MaxEvents, MaxMessages, MaxIds} \subseteq Nat

VARIABLES
  socket,  \* "connecting", "open", "closed", and the messages that came
  feed,    \* the state of the component
  detail   \* the modal: the event it shows, its "Copied!" and the timers that end it

liveFeedVars == <<socket, feed, detail>>

\* An event is of a message, or of none when it was made up.
Event == [id : 1 .. MaxIds, message : 0 .. MaxMessages, matches : BOOLEAN]

LiveFeedInit ==
  /\ socket = [state |-> "connecting", received |-> 0]
  /\ feed = [events |-> <<>>, newest |-> 0, isPaused |-> FALSE, filtered |-> FALSE,
             showFilters |-> FALSE, total |-> 0, ids |-> 0, resumed |-> {}]
  /\ detail = [event |-> {}, copied |-> FALSE, timers |-> 0]

SocketOpens ==
  /\ socket.state = "connecting"
  /\ socket' = [socket EXCEPT !.state = "open"]
  /\ UNCHANGED <<feed, detail>>

SocketCloses ==
  /\ socket.state # "closed"
  /\ socket' = [socket EXCEPT !.state = "closed"]
  /\ UNCHANGED <<feed, detail>>

\* A message that can be parsed is queued for the next render.
MessageArrives ==
  /\ socket.state = "open"
  /\ socket.received < MaxMessages
  /\ socket' = [socket EXCEPT !.received = @ + 1]
  /\ UNCHANGED <<feed, detail>>

IsConnected == socket.state = "open"

\* The feed f with one more event.
Added(f, message, matches) ==
  [f EXCEPT
     !.events = SubSeq(<<[id |-> f.ids + 1, message |-> message, matches |-> matches]>> \o @,
                       1, IF Len(@) < MaxEvents THEN Len(@) + 1 ELSE MaxEvents),
     !.total = @ + 1, !.ids = @ + 1]

\* The effect on the messages and the pause, at the end of the render of f.
ProcessMessages(f) ==
  IF f.newest > 0 /\ ~f.isPaused
    THEN f.ids < MaxIds /\ \E matches \in BOOLEAN : feed' = Added(f, f.newest, matches)
    ELSE feed' = f

RenderMessages ==
  /\ feed.newest < socket.received
  /\ \E n \in feed.newest + 1 .. socket.received :
       ProcessMessages([feed EXCEPT !.newest = n])
  /\ UNCHANGED <<socket, detail>>

\* The timer of 1.5 s that makes an event up.
MockEvent ==
  /\ ~IsConnected /\ ~feed.isPaused
  /\ feed.ids < MaxIds
  /\ \E matches \in BOOLEAN : feed' = Added(feed, 0, matches)
  /\ UNCHANGED <<socket, detail>>

SetIsPaused(paused) ==
  /\ feed.isPaused # paused
  /\ ProcessMessages([feed EXCEPT !.isPaused = paused,
                        !.resumed = IF paused THEN @ ELSE @ \union {feed.newest}])
  /\ UNCHANGED <<socket, detail>>

\* Where the events that are listed are; severity, type and search are one filter.
FilteredEvents == {i \in DOMAIN feed.events : feed.filtered => feed.events[i].matches}

ShowFilters ==
  /\ feed' = [feed EXCEPT !.showFilters = ~@]
  /\ UNCHANGED <<socket, detail>>

\* Mutant: the effect on the messages depends on the filters too.
SetFilterProcesses(filtered) ==
  /\ feed.showFilters
  /\ feed.filtered # filtered
  /\ ProcessMessages([feed EXCEPT !.filtered = filtered])
  /\ UNCHANGED <<socket, detail>>

\* A filter is set, or the Clear of their panel is pressed.
SetFilter(filtered) ==
  /\ feed.showFilters
  /\ feed.filtered # filtered
  /\ feed' = [feed EXCEPT !.filtered = filtered]
  /\ UNCHANGED <<socket, detail>>

HandleClearFeed ==
  /\ feed' = [feed EXCEPT !.events = <<>>, !.total = 0]
  /\ UNCHANGED <<socket, detail>>

ModalOpen == detail.event # {}

\* An event of the list is clicked; the modal covers the rest of the page.
SelectEvent(i) ==
  /\ ~ModalOpen
  /\ detail' = [detail EXCEPT !.event = {feed.events[i]}]
  /\ UNCHANGED <<socket, feed>>

\* Its close buttons, its backdrop, or "Create Incident", which the parent does.
CloseModal ==
  /\ ModalOpen
  /\ detail' = [detail EXCEPT !.event = {}]
  /\ UNCHANGED <<socket, feed>>

HandleCopyJSON ==
  /\ ModalOpen /\ detail.timers < 2
  /\ detail' = [detail EXCEPT !.copied = TRUE, !.timers = @ + 1]
  /\ UNCHANGED <<socket, feed>>

\* The label goes with the first timer, whatever was copied since.
CopiedTimer ==
  /\ detail.timers > 0
  /\ detail' = [detail EXCEPT !.copied = FALSE, !.timers = @ - 1]
  /\ UNCHANGED <<socket, feed>>

LiveFeedNext ==
  \/ SocketOpens \/ SocketCloses \/ MessageArrives \/ RenderMessages \/ MockEvent
  \/ CloseModal \/ HandleCopyJSON \/ CopiedTimer
  \/ ~ModalOpen /\ (ShowFilters \/ HandleClearFeed
       \/ \E b \in BOOLEAN : SetIsPaused(b) \/ SetFilter(b))
  \/ \E i \in FilteredEvents : SelectEvent(i)

LiveFeedSpec == LiveFeedInit /\ [][LiveFeedNext]_liveFeedVars

-----------------------------------------------------------------------------
(* Properties.                                                             *)

LiveFeedTypeOK ==
  /\ socket \in [state : {"connecting", "open", "closed"}, received : 0 .. MaxMessages]
  /\ feed \in [events : Seq(Event), newest : 0 .. MaxMessages, isPaused : BOOLEAN,
               filtered : BOOLEAN, showFilters : BOOLEAN, total : 0 .. MaxIds,
               ids : 0 .. MaxIds, resumed : SUBSET (0 .. MaxMessages)]
  /\ detail \in [event : SUBSET Event, copied : BOOLEAN, timers : 0 .. 2]

\* The feed tells the stream in its order: the newest event first, the messages
\* in the order they came, and none of them twice unless the feed was resumed
\* while it was the newest; its counter counts at least what it shows.
FeedIsTheStream ==
  /\ \A i, j \in DOMAIN feed.events : i < j =>
       LET newer == feed.events[i]
           older == feed.events[j] IN
       /\ newer.id > older.id
       /\ newer.message # 0 /\ older.message # 0 =>
            \/ newer.message > older.message
            \/ newer.message = older.message /\ newer.message \in feed.resumed
  /\ feed.total >= Len(feed.events)
=============================================================================
