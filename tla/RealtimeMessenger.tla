------------------------- MODULE RealtimeMessenger -------------------------
(***************************************************************************)
(* Screens of the client application and the server together.  A screen    *)
(* loads the history over HTTP, then opens a websocket; what it writes to  *)
(* the socket reaches its consumer in order, what the consumer sends       *)
(* reaches it in order, and both may be lost with the connection.  Users   *)
(* in ScriptUser talk to the server with programs of their own: the        *)
(* application has no way yet to edit, delete or purge.                    *)
(***************************************************************************)
EXTENDS Naturals, Sequences, Functions, Selection, MessageEvents

CONSTANTS
  Channel, NoUser, NoChat, Capacity, MaxEvents,         \* of the server
  Screen, author, NoChannel, Histories, MaxArrivals,    \* of the client
  chat,         \* chat[s]: the chat that screen s was opened for
  ScriptUser,   \* users that do not use the application
  HistoryLimit  \* the page size the client asks for, 1000

VARIABLES
  chats, participants, messages, phase, scope_user, chat_id, group, queue,
  sent, log, joinedAt, dropped, processed,
  state, shown, awaiting, closing, webSocket, handlers, written,
  dialing,  \* per screen: the websocket WebSocket.connect is opening
  taken,    \* per websocket: how much of written has reached the consumer
  readPos   \* per websocket: how much of sent has reached the screen

Server == INSTANCE MessagingConsumer
Client == INSTANCE MessagesScreenController

\* An application is used by nobody else's program, and MaxArrivals is no
\* bound of its own.
ASSUME MessengerAssumption ==
  /\ Server!ConsumerAssumption
  /\ Client!ControllerAssumption
  /\ chat \in [Screen -> Chat]
  /\ ScriptUser \subseteq User
  /\ \A s \in Screen : author[s] \notin ScriptUser
  /\ HistoryLimit \in Nat \ {0}
  /\ MaxEvents <= MaxArrivals

serverVars == <<chats, participants, messages, phase, scope_user, chat_id, group,
                queue, sent, log, joinedAt, dropped, processed>>
clientVars == <<state, shown, awaiting, closing, webSocket, handlers, written>>
vars == <<serverVars, clientVars, dialing, taken, readPos>>

TypeOK ==
  /\ Server!TypeOK
  /\ Client!TypeOK
  /\ dialing \in [Screen -> Channel \cup {NoChannel}]
  /\ taken \in [Channel -> Nat]
  /\ readPos \in [Channel -> Nat]
  /\ \A ch \in Channel : taken[ch] <= Len(written[ch]) /\ readPos[ch] <= Len(sent[ch])

Init ==
  /\ Server!Init
  /\ Client!Init
  /\ dialing = [s \in Screen |-> NoChannel]
  /\ taken = [ch \in Channel |-> 0]
  /\ readPos = [ch \in Channel |-> 0]

----------------------------------------------------------------------------
(* What the HTTP API answers.                                              *)

\* Defect: the serializer leaves the author out.
BubbleWithoutAuthor(id) ==
  [id |-> id, author |-> NoUser, content |-> messages[id].content]

BubbleOf(id) ==
  [id |-> id, author |-> messages[id].author, content |-> messages[id].content]

\* The rows of a chat, by the places in processed of their last creations.
Rows(c) ==
  {i \in DOMAIN processed :
     LET payload == log[processed[i]].payload
     IN  /\ payload.event_name = "new_message"
         /\ messages[payload.id] # NoMessage
         /\ messages[payload.id].chat = c
         /\ \A j \in DOMAIN processed : j > i => processed[j] # processed[i]}

RowAt(i) == BubbleOf(log[processed[i]].payload.id)

\* Defect: the oldest row comes first.
HistoryOldestFirst(c) ==
  LET count == Cardinality(Rows(c))
  IN  [i \in 1 .. (IF count < HistoryLimit THEN count ELSE HistoryLimit) |->
         RowAt(Ascending(Rows(c))[i])]

\* The page of newest rows of a chat.
HistoryOf(c) ==
  LET count == Cardinality(Rows(c))
  IN  [i \in 1 .. (IF count < HistoryLimit THEN count ELSE HistoryLimit) |->
         RowAt(Ascending(Rows(c))[count + 1 - i])]

\* GET of a chat's messages answers participants of a chat that exists.
Readable(user, c) == chats[c] = "stored" /\ <<c, user>> \in participants

\* Defect: the author is taken from the request.
MessageForRequester(user, id) ==
  IF messages[id] # NoMessage /\ <<messages[id].chat, user>> \in participants
    THEN [BubbleOf(id) EXCEPT !.author = user]
    ELSE NoMessage

\* GET of one message: the row, or an error.
MessageFor(user, id) ==
  IF messages[id] # NoMessage /\ <<messages[id].chat, user>> \in participants
    THEN BubbleOf(id)
    ELSE NoMessage

----------------------------------------------------------------------------
(* A screen is opened, loads, connects, and is left.                       *)

Open(s) ==
  /\ Client!Initialize(s)
  /\ UNCHANGED <<serverVars, dialing, taken, readPos>>

Load(s) ==
  /\ Readable(author[s], chat[s])
  /\ Client!HistoryArrives(s, HistoryOf(chat[s]))
  /\ UNCHANGED <<serverVars, dialing, taken, readPos>>

\* The request of the history or of the websocket fails, on whichever side.
LoadOrDialFails(s) ==
  /\ Client!InitializeFails(s)
  /\ dialing' = [dialing EXCEPT ![s] = NoChannel]
  /\ UNCHANGED <<serverVars, taken, readPos>>

Dial(s, ch) ==
  /\ awaiting[s] = "socket"
  /\ dialing[s] = NoChannel
  /\ Server!Connect(ch, author[s], chat[s])
  /\ dialing' = [dialing EXCEPT ![s] = ch]
  /\ UNCHANGED <<clientVars, taken, readPos>>

SocketOpens(s) ==
  /\ dialing[s] # NoChannel
  /\ Client!SocketOpens(s, dialing[s])
  /\ dialing' = [dialing EXCEPT ![s] = NoChannel]
  /\ UNCHANGED <<serverVars, taken, readPos>>

Leave(s) ==
  /\ Client!Close(s) \/ Client!FinishClose(s)
  /\ UNCHANGED <<serverVars, dialing, taken, readPos>>

----------------------------------------------------------------------------
(* Messages go up and down.                                                *)

\* The identifier is a random UUID: nobody has used it.
Fresh(id) ==
  /\ \A n \in DOMAIN log : log[n].payload.event_name = "new_message" => log[n].payload.id # id
  /\ \A s \in Screen : id \notin Client!Ids(shown[s])
  /\ \A ch \in Channel : \A i \in DOMAIN written[ch] : written[ch][i].id # id

Send(s, id, content) ==
  /\ Fresh(id)
  /\ Client!SendTextMessage(s, id, content)
  /\ UNCHANGED <<serverVars, dialing, taken, readPos>>

Uplink(ch) ==
  /\ taken[ch] < Len(written[ch])
  /\ Server!Receive(ch, written[ch][taken[ch] + 1])
  /\ taken' = [taken EXCEPT ![ch] = @ + 1]
  /\ UNCHANGED <<clientVars, dialing, readPos>>

\* Defect: an event is delivered again.
DownlinkRepeating(s) ==
  LET ch == webSocket[s]
      payload == log[sent[ch][readPos[ch] + 1]].payload
  IN  /\ ch # NoChannel
      /\ readPos[ch] < Len(sent[ch])
      /\ payload.event_name \in {"new_message", "edit_message"}
      /\ Client!OnNewOrEdit(s, readPos[ch] + 1, payload.event_name, payload.id)
      /\ UNCHANGED <<serverVars, dialing, taken, readPos>>

\* The next event of the screen's socket.
Downlink(s) ==
  LET ch == webSocket[s]
      payload == log[sent[ch][readPos[ch] + 1]].payload
  IN  /\ ch # NoChannel
      /\ readPos[ch] < Len(sent[ch])
      /\ CASE payload.event_name \in {"new_message", "edit_message"} ->
                Client!OnNewOrEdit(s, readPos[ch] + 1, payload.event_name, payload.id)
           [] payload.event_name = "delete_message" -> Client!OnDelete(s, payload.id)
           [] OTHER -> UNCHANGED clientVars
      /\ readPos' = [readPos EXCEPT ![ch] = @ + 1]
      /\ UNCHANGED <<serverVars, dialing, taken>>

Answer(s, h) ==
  /\ Client!MessageAnswered(s, h, MessageFor(author[s], h.id))
  /\ UNCHANGED <<serverVars, dialing, taken, readPos>>

\* The request of a message fails on its way.
AnswerLost(s, h) ==
  /\ Client!MessageAnswered(s, h, NoMessage)
  /\ UNCHANGED <<serverVars, dialing, taken, readPos>>

Resume(s, h) ==
  /\ Client!Resume(s, h)
  /\ UNCHANGED <<serverVars, dialing, taken, readPos>>

----------------------------------------------------------------------------
(* The server on its own, and the programs of other users.                 *)

ServerStep ==
  /\ \/ \E ch \in Channel : Server!OnHandleMessageEvent(ch) \/ Server!Disconnect(ch)
     \/ Server!ServerStop
     \/ Server!Administration
  /\ UNCHANGED <<clientVars, dialing, taken, readPos>>

ScriptStep ==
  /\ \E ch \in Channel :
       \/ \E user \in ScriptUser, c \in Chat : Server!Connect(ch, user, c)
       \/ /\ scope_user[ch] \in ScriptUser
          /\ \E payload \in Payload :
               /\ payload.event_name = "new_message" => Fresh(payload.id)
               /\ Server!Receive(ch, payload)
  /\ UNCHANGED <<clientVars, dialing, taken, readPos>>

Next ==
  \/ \E s \in Screen :
       \/ Open(s) \/ Load(s) \/ LoadOrDialFails(s) \/ SocketOpens(s) \/ Leave(s)
       \/ \E ch \in Channel : Dial(s, ch)
       \/ \E id \in MessageId, content \in Content : Send(s, id, content)
       \/ Downlink(s)
       \/ \E h \in handlers[s] : Answer(s, h) \/ AnswerLost(s, h) \/ Resume(s, h)
  \/ \E ch \in Channel : Uplink(ch)
  \/ ServerStep
  \/ ScriptStep

Spec == Init /\ [][Next]_vars

----------------------------------------------------------------------------
(* Properties.                                                             *)

PublishedAs(id) ==
  {n \in DOMAIN log : log[n].payload.event_name = "new_message" /\ log[n].payload.id = id}

\* No message is on a screen twice, whichever of the history, the local copy
\* of sendTextMessage and the events brings it, in whatever order the answers
\* come (initialize, sendTextMessage, _onRemoteMessageEvent).
NoDuplicates ==
  \A s \in Screen : \A i, j \in DOMAIN shown[s] :
    shown[s][i].id = shown[s][j].id => i = j

\* What a screen shows was published in its chat by the author it names, with
\* the text of one of its events; only the screen's own messages may be there
\* before they are published (list and get controllers, the local copy).
ShownAsPublished ==
  \A s \in Screen : \A i \in DOMAIN shown[s] :
    LET m == shown[s][i]
    IN  \/ m.author = author[s] /\ PublishedAs(m.id) = {}
        \/ /\ \A n \in PublishedAs(m.id) : log[n].user = m.author /\ log[n].chat = chat[s]
           /\ \E n \in DOMAIN log :
                Writes(log[n].payload, m.id) /\ log[n].payload.content = m.content

\* A screen has another user's messages in the order in which that user
\* published them, though handlers resume in any order (newest first in
\* search_messages, insert(0) in the client; while no user is connected
\* twice to a chat).
ShownInSenderOrder ==
  \A s \in Screen : \A i, j \in DOMAIN shown[s] :
    (i < j /\ shown[s][i].author = shown[s][j].author /\ shown[s][i].author # author[s]) =>
      \A n \in PublishedAs(shown[s][i].id), k \in PublishedAs(shown[s][j].id) : n > k

----------------------------------------------------------------------------
(* What the documentation says and the code does not do.                   *)

\* Screen s has handled all its consumer sent it, and no consumer has work.
Quiet(s) ==
  /\ \A ch \in Channel : phase[ch] = "connected" => queue[ch] = << >>
  /\ state[s] = "initialized" /\ webSocket[s] # NoChannel
  /\ handlers[s] = {}
  /\ readPos[webSocket[s]] = Len(sent[webSocket[s]])

\* A new message that was sent to screen s and is stored now.
Relayed(s) ==
  {id \in MessageId : messages[id] # NoMessage /\
     \E n \in Range(sent[webSocket[s]]) : n \in PublishedAs(id)}

\* README.md:5, the server uses its queue "to relay message events to any
\* connected clients in realtime": once all is handled, on the server and on a
\* screen, the screen shows each stored message that was relayed to it.
RelayedIsShown ==
  \A s \in Screen : Quiet(s) => Relayed(s) \subseteq Client!Ids(shown[s])
=============================================================================
