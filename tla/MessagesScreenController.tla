---------------------- MODULE MessagesScreenController ----------------------
(***************************************************************************)
(* The client's controller of one chat screen, and several of them: each   *)
(* opening of a screen makes a controller of its own.  Dart runs one piece *)
(* of code at a time; an action is the code from one await to the next, so *)
(* actions of initialize, close and the handlers of incoming events        *)
(* interleave at their awaits.  What the server answers is a parameter of  *)
(* the action that receives it.                                            *)
(***************************************************************************)
EXTENDS Naturals, Sequences, Functions, Selection, MessageEvents

CONSTANTS
  Screen,     \* openings of the messages screen
  author,     \* author[s]: the user logged in on the device of screen s
  Channel,    \* websockets
  NoChannel,  \* webSocket is null
  Histories,  \* the answers of getAllMessageHistory, newest first
  MaxArrivals \* bound: events a socket delivers

ASSUME ControllerAssumption ==
  /\ Histories \subseteq Seq([id : MessageId, author : User, content : Content])
  /\ author \in [Screen -> User]
  /\ NoChannel \notin Channel
  /\ MaxArrivals \in Nat

VARIABLES
  state,     \* the cubit's state
  shown,     \* state.messages, newest first
  awaiting,  \* what initialize awaits: nothing, the history or the socket
  closing,   \* open, closing (close awaits the socket) or closed
  webSocket, \* the field webSocket
  handlers,  \* the calls of _onRemoteMessageEvent that await getMessage
  written    \* per websocket: what the controller added to it

clientVars == <<state, shown, awaiting, closing, webSocket, handlers, written>>

\* A message on the screen.
Bubble == [id : MessageId, author : User, content : Content]

\* A call of _onRemoteMessageEvent for the nth event of its socket: base is
\* the list captured before the await, reply what getMessage answered.
Handler ==
  [n : 1 .. MaxArrivals, event_name : {"new_message", "edit_message"}, id : MessageId,
   base : Seq(Bubble), answered : BOOLEAN, reply : Bubble \cup {NoMessage}]

TypeOK ==
  /\ state \in [Screen -> {"uninitialized", "initializing", "initialized", "fatal"}]
  /\ shown \in [Screen -> Seq(Bubble)]
  /\ awaiting \in [Screen -> {"nothing", "history", "socket"}]
  /\ closing \in [Screen -> {"open", "closing", "closed"}]
  /\ webSocket \in [Screen -> Channel \cup {NoChannel}]
  /\ handlers \in [Screen -> SUBSET Handler]
  /\ written \in [Channel -> Seq(Payload)]

Init ==
  /\ state = [s \in Screen |-> "uninitialized"]
  /\ shown = [s \in Screen |-> << >>]
  /\ awaiting = [s \in Screen |-> "nothing"]
  /\ closing = [s \in Screen |-> "open"]
  /\ webSocket = [s \in Screen |-> NoChannel]
  /\ handlers = [s \in Screen |-> {}]
  /\ written = [ch \in Channel |-> << >>]

\* Defect: the state is changed without asking whether the cubit is closed.
EmitAlways(s, newState, messages) ==
  /\ state' = [state EXCEPT ![s] = newState]
  /\ shown' = [shown EXCEPT ![s] = messages]

\* emit throws once the cubit is closed, and then changes nothing.
Closed(s) == closing[s] = "closed"
Emit(s, newState, messages) ==
  IF Closed(s)
    THEN UNCHANGED <<state, shown>>
    ELSE /\ state' = [state EXCEPT ![s] = newState]
         /\ shown' = [shown EXCEPT ![s] = messages]

----------------------------------------------------------------------------
(* initialize: the first time, and again on retry after a fatal error.     *)

\* Defect: initialize may be called again on a screen that works.
InitializeAgain(s) ==
  /\ closing[s] = "open"
  /\ state[s] # "initializing"
  /\ Emit(s, "initializing", << >>)
  /\ awaiting' = [awaiting EXCEPT ![s] = "history"]
  /\ UNCHANGED <<closing, webSocket, handlers, written>>

Initialize(s) ==
  /\ closing[s] = "open"
  /\ state[s] \in {"uninitialized", "fatal"}
  /\ Emit(s, "initializing", << >>)
  /\ awaiting' = [awaiting EXCEPT ![s] = "history"]
  /\ UNCHANGED <<closing, webSocket, handlers, written>>

\* The history arrives and is shown before the subscription begins.  On a
\* closed cubit emit throws, in the try block and again in its catch.
HistoryArrives(s, messages) ==
  /\ awaiting[s] = "history"
  /\ Emit(s, "initialized", messages)
  /\ awaiting' = [awaiting EXCEPT ![s] = IF Closed(s) THEN "nothing" ELSE "socket"]
  /\ UNCHANGED <<closing, webSocket, handlers, written>>

\* WebSocket.connect completes.  Nothing asks whether the cubit is closed.
SocketOpens(s, ch) ==
  /\ awaiting[s] = "socket"
  /\ webSocket' = [webSocket EXCEPT ![s] = ch]
  /\ awaiting' = [awaiting EXCEPT ![s] = "nothing"]
  /\ UNCHANGED <<state, shown, closing, handlers, written>>

\* Defect: the error is thrown on, and nothing is shown of it.
InitializeFailsUnseen(s) ==
  /\ awaiting[s] # "nothing"
  /\ awaiting' = [awaiting EXCEPT ![s] = "nothing"]
  /\ UNCHANGED <<state, shown, closing, webSocket, handlers, written>>

\* Either await of initialize throws.
InitializeFails(s) ==
  /\ awaiting[s] # "nothing"
  /\ Emit(s, "fatal", << >>)
  /\ awaiting' = [awaiting EXCEPT ![s] = "nothing"]
  /\ UNCHANGED <<closing, webSocket, handlers, written>>

----------------------------------------------------------------------------
(* sendTextMessage runs without an await: isSending is never seen true.    *)

SendTextMessage(s, id, content) ==
  /\ closing[s] = "open"
  /\ state[s] = "initialized"
  /\ shown' = [shown EXCEPT ![s] =
       <<[id |-> id, author |-> author[s], content |-> content]>> \o @]
  /\ written' = IF webSocket[s] = NoChannel THEN written
       ELSE [written EXCEPT ![webSocket[s]] = Append(@,
               [event_name |-> "new_message", id |-> id, content |-> content])]
  /\ UNCHANGED <<state, awaiting, closing, webSocket, handlers>>

----------------------------------------------------------------------------
(* _onRemoteMessageEvent                                                   *)

Without(messages, id) ==
  SelectAt(messages, {i \in DOMAIN messages : messages[i].id # id})

\* A deletion is carried out at once; a purge does nothing.
OnDelete(s, id) ==
  /\ webSocket[s] # NoChannel
  /\ state[s] = "initialized"
  /\ Emit(s, "initialized", Without(shown[s], id))
  /\ UNCHANGED <<awaiting, closing, webSocket, handlers, written>>

\* A new or edited message is fetched; the list of this moment is kept.
OnNewOrEdit(s, n, event_name, id) ==
  /\ webSocket[s] # NoChannel
  /\ state[s] = "initialized"
  /\ handlers' = [handlers EXCEPT ![s] = @ \cup
       {[n |-> n, event_name |-> event_name, id |-> id, base |-> shown[s],
         answered |-> FALSE, reply |-> NoMessage]}]
  /\ UNCHANGED <<state, shown, awaiting, closing, webSocket, written>>

\* The server answers getMessage; the answer is on its way.
MessageAnswered(s, h, reply) ==
  /\ h \in handlers[s]
  /\ ~h.answered
  /\ handlers' = [handlers EXCEPT ![s] = (@ \ {h}) \cup
       {[h EXCEPT !.answered = TRUE, !.reply = reply]}]
  /\ UNCHANGED <<state, shown, awaiting, closing, webSocket, written>>

Ids(messages) == {messages[i].id : i \in DOMAIN messages}

\* indexWhere: the first place of message id, when it has one.
IndexOf(messages, id) ==
  CHOOSE i \in DOMAIN messages :
    messages[i].id = id /\ \A j \in 1 .. (i - 1) : messages[j].id # id

\* The captured list with the fetched message put in.
Updated(h) ==
  IF h.event_name = "new_message"
    THEN <<h.reply>> \o h.base
    ELSE [h.base EXCEPT ![IndexOf(h.base, h.id)] = h.reply]

\* Defect: an error answer is taken for a message.
ResumeUnchecked(s, h) ==
  /\ h \in handlers[s]
  /\ h.answered
  /\ handlers' = [handlers EXCEPT ![s] = @ \ {h}]
  /\ IF h.event_name = "edit_message" /\ h.id \notin Ids(h.base)
       THEN UNCHANGED <<state, shown>>
       ELSE Emit(s, "initialized", Updated(h))
  /\ UNCHANGED <<awaiting, closing, webSocket, written>>

\* The handler goes on from its await.  An error answer is thrown and ends it,
\* and an edit of a message that the captured list lacks changes nothing.
Resume(s, h) ==
  /\ h \in handlers[s]
  /\ h.answered
  /\ handlers' = [handlers EXCEPT ![s] = @ \ {h}]
  /\ IF \/ h.reply = NoMessage
        \/ h.event_name = "edit_message" /\ h.id \notin Ids(h.base)
       THEN UNCHANGED <<state, shown>>
       ELSE Emit(s, "initialized", Updated(h))
  /\ UNCHANGED <<awaiting, closing, webSocket, written>>

----------------------------------------------------------------------------
(* close, when the screen is left.                                         *)

\* With a socket, close awaits it, and events still come in; without one,
\* nothing is waited for, not even a socket that is being opened.
Close(s) ==
  /\ closing[s] = "open"
  /\ state[s] # "uninitialized"
  /\ closing' = [closing EXCEPT ![s] =
       IF webSocket[s] = NoChannel THEN "closed" ELSE "closing"]
  /\ UNCHANGED <<state, shown, awaiting, webSocket, handlers, written>>

FinishClose(s) ==
  /\ closing[s] = "closing"
  /\ closing' = [closing EXCEPT ![s] = "closed"]
  /\ webSocket' = [webSocket EXCEPT ![s] = NoChannel]
  /\ UNCHANGED <<state, shown, awaiting, handlers, written>>

----------------------------------------------------------------------------
(* The controllers on their own: the server answers anything that fits the *)
(* request, and no two messages have one identifier.                       *)

Unused(id) ==
  /\ \A s \in Screen :
       /\ id \notin Ids(shown[s])
       /\ \A h \in handlers[s] : h.event_name = "new_message" => h.id # id
  /\ \A ch \in Channel : \A i \in DOMAIN written[ch] : written[ch][i].id # id

Free(ch) == (\A s \in Screen : webSocket[s] # ch) /\ written[ch] = << >>

Arrival(s) ==
  \/ \E id \in MessageId : OnDelete(s, id)
  \/ \E n \in 1 .. MaxArrivals, event_name \in {"new_message", "edit_message"},
        id \in MessageId :
       /\ \A h \in handlers[s] : h.n # n
       /\ event_name = "new_message" => Unused(id)
       /\ OnNewOrEdit(s, n, event_name, id)

\* getMessage: the message asked for, or an error.
Answer(s) ==
  \E h \in handlers[s] :
    \/ MessageAnswered(s, h, NoMessage)
    \/ \E reply \in Bubble : reply.id = h.id /\ MessageAnswered(s, h, reply)

HistoryAnswered(s) ==
  \/ \E messages \in Histories : HistoryArrives(s, messages)
  \/ awaiting[s] = "history" /\ InitializeFails(s)

SocketAnswered(s) ==
  \/ \E ch \in Channel : Free(ch) /\ SocketOpens(s, ch)
  \/ awaiting[s] = "socket" /\ InitializeFails(s)

Next ==
  \E s \in Screen :
    \/ Initialize(s) \/ HistoryAnswered(s) \/ SocketAnswered(s)
    \/ \E id \in MessageId, content \in Content : Unused(id) /\ SendTextMessage(s, id, content)
    \/ Arrival(s) \/ Answer(s) \/ \E h \in handlers[s] : Resume(s, h)
    \/ Close(s) \/ FinishClose(s)

Spec == Init /\ [][Next]_clientVars

\* Requests are answered or fail, WebSocket.close gives up after a time, and
\* Dart runs what is ready.  WebSocket.connect has no timeout here.
Fairness ==
  \A s \in Screen : WF_clientVars(HistoryAnswered(s)) /\ WF_clientVars(FinishClose(s))

FairSpec == Spec /\ Fairness

----------------------------------------------------------------------------
(* Properties.                                                             *)

\* What initialize awaits, the cubit's state, the socket and the suspended
\* handlers agree, over failures, retries and closing: a handler that goes on
\* cannot turn an error page or a spinner back into a list, a second
\* initialize cannot run beside the first, and no spinner is left alone
\* (the guard of initialize, its catch, and the emits of every handler).
AwaitsMatchState ==
  \A s \in Screen :
    /\ awaiting[s] = "history" => state[s] = "initializing"
    /\ awaiting[s] = "socket" => state[s] = "initialized" /\ webSocket[s] = NoChannel
    /\ state[s] = "initializing" => awaiting[s] = "history" \/ Closed(s)
    /\ (webSocket[s] # NoChannel \/ handlers[s] # {}) => state[s] = "initialized"

\* A controller that is closed shows what it showed: neither an answer that
\* comes late nor an event of a socket nobody closed changes it (every emit
\* after an await).
FrozenWhenClosed ==
  [][\A s \in Screen : Closed(s) => /\ state'[s] = state[s]
                                    /\ shown'[s] = shown[s]]_clientVars

\* The spinner goes away, and a screen that is being left is left
\* (initialize's try and catch; close).
NothingHangs ==
  \A s \in Screen :
    /\ state[s] = "initializing" ~> (state[s] # "initializing" \/ Closed(s))
    /\ closing[s] = "closing" ~> Closed(s)
=============================================================================
