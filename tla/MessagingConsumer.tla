------------------------- MODULE MessagingConsumer -------------------------
(***************************************************************************)
(* The server's realtime path: one MessagingConsumer per websocket, the    *)
(* channel layer (a group per chat, a bounded queue per consumer), the     *)
(* message service that writes the messages table, and the administrator.  *)
(*                                                                         *)
(* Handlers of consumers are atomic with respect to each other: the        *)
(* process runs the synchronous code of all its consumers on one thread.   *)
(* A handler that raises ends its consumer, and disconnect is not called.  *)
(* The administrator comes between handlers here; MessageService has what  *)
(* happens when a request of the administrator comes inside one.           *)
(***************************************************************************)
EXTENDS Naturals, Sequences, FiniteSets, Functions, MessageEvents

CONSTANTS
  Channel,    \* websockets, each with its consumer; none is used twice
  NoUser,     \* the scope of a consumer that has not authenticated
  NoChat,     \* chat_id of a consumer that serves no chat
  Capacity,   \* events one consumer's queue can hold
  MaxEvents   \* bound: events published in a behaviour

ASSUME ConsumerAssumption ==
  /\ Capacity \in Nat \ {0}
  /\ MaxEvents \in Nat
  /\ NoUser \notin User
  /\ NoChat \notin Chat

VARIABLES
  chats,         \* "future", "stored" or "deleted" for every chat
  participants,  \* the pairs <<chat, user>> with a Participant row
  messages,      \* the messages table
  phase,         \* of each consumer: unused, connected, closed or failed
  scope_user,    \* scope["user"] of each consumer
  chat_id,       \* self.chat_id of each consumer
  group,         \* the channels in the group of each chat
  queue,         \* per consumer: events to handle, as indices into log
  sent,          \* per consumer: events forwarded to the websocket
  log,           \* history: every event published, in order
  joinedAt,      \* history: Len(log) when the consumer joined its group
  dropped,       \* history: per consumer, events lost to a full queue
  processed      \* history: events carried out on the table, in order

tables    == <<chats, participants, messages>>
consumers == <<phase, scope_user, chat_id>>
layer     == <<group, queue, dropped>>
vars == <<tables, consumers, layer, sent, log, joinedAt, processed>>

\* What is published: MessagingConsumer.receive's raw_message_event, with the
\* chat and the websocket it came through, which the code does not record.
Event == [chat : Chat, user : User, payload : Payload, channel : Channel]

Row(id) == messages[id]
Stored(id) == messages[id] # NoMessage

\* The message identifiers that clients have made up so far.
Known == {log[n].payload.id : n \in {k \in DOMAIN log : IsNew(log[k].payload)}}

TypeOK ==
  /\ chats \in [Chat -> {"future", "stored", "deleted"}]
  /\ participants \subseteq Chat \X User
  /\ messages \in [MessageId -> Message \cup {NoMessage}]
  /\ phase \in [Channel -> {"unused", "connected", "closed", "failed"}]
  /\ scope_user \in [Channel -> User \cup {NoUser}]
  /\ chat_id \in [Channel -> Chat \cup {NoChat}]
  /\ group \in [Chat -> SUBSET Channel]
  /\ queue \in [Channel -> Seq(1 .. Len(log))]
  /\ \A ch \in Channel : Len(queue[ch]) <= Capacity
  /\ sent \in [Channel -> Seq(1 .. Len(log))]
  /\ log \in Seq(Event)
  /\ joinedAt \in [Channel -> 0 .. Len(log)]
  /\ dropped \in [Channel -> SUBSET (1 .. Len(log))]
  /\ processed \in Seq(1 .. Len(log))

\* The administrator has set up some chats with their participants; nobody
\* is connected and nothing has been said.
Init ==
  /\ chats \in [Chat -> {"future", "stored"}]
  /\ participants \in SUBSET ({c \in Chat : chats[c] = "stored"} \X User)
  /\ messages = [id \in MessageId |-> NoMessage]
  /\ phase = [ch \in Channel |-> "unused"]
  /\ scope_user = [ch \in Channel |-> NoUser]
  /\ chat_id = [ch \in Channel |-> NoChat]
  /\ group = [c \in Chat |-> {}]
  /\ queue = [ch \in Channel |-> << >>]
  /\ sent = [ch \in Channel |-> << >>]
  /\ log = << >>
  /\ joinedAt = [ch \in Channel |-> 0]
  /\ dropped = [ch \in Channel |-> {}]
  /\ processed = << >>

----------------------------------------------------------------------------
(* The life of a websocket.                                                *)

\* connect: authentication succeeds, the channel joins the group of the chat
\* in the URL.  Neither the chat nor the membership of the user is looked up.
Connect(ch, user, c) ==
  /\ phase[ch] = "unused"
  /\ phase' = [phase EXCEPT ![ch] = "connected"]
  /\ scope_user' = [scope_user EXCEPT ![ch] = user]
  /\ chat_id' = [chat_id EXCEPT ![ch] = c]
  /\ group' = [group EXCEPT ![c] = @ \cup {ch}]
  /\ joinedAt' = [joinedAt EXCEPT ![ch] = Len(log)]
  /\ UNCHANGED <<tables, queue, dropped, sent, log, processed>>

\* connect: authentication raises PermissionError; chat_id is already set.
RefuseConnect(ch, c) ==
  /\ phase[ch] = "unused"
  /\ phase' = [phase EXCEPT ![ch] = "failed"]
  /\ chat_id' = [chat_id EXCEPT ![ch] = c]
  /\ UNCHANGED <<tables, scope_user, layer, sent, log, joinedAt, processed>>

\* Defect: chat_group_name is reset before the group is left.
DisconnectResettingFirst(ch) ==
  /\ phase[ch] = "connected"
  /\ phase' = [phase EXCEPT ![ch] = "closed"]
  /\ chat_id' = [chat_id EXCEPT ![ch] = NoChat]
  /\ queue' = [queue EXCEPT ![ch] = << >>]
  /\ UNCHANGED <<tables, scope_user, group, dropped, sent, log, joinedAt, processed>>

\* disconnect, after the client closed the socket or its connection is lost.
\* Nobody reads the channel any more: what was queued is gone.
Disconnect(ch) ==
  /\ phase[ch] = "connected"
  /\ phase' = [phase EXCEPT ![ch] = "closed"]
  /\ group' = [group EXCEPT ![chat_id[ch]] = @ \ {ch}]
  /\ chat_id' = [chat_id EXCEPT ![ch] = NoChat]
  /\ queue' = [queue EXCEPT ![ch] = << >>]
  /\ UNCHANGED <<tables, scope_user, dropped, sent, log, joinedAt, processed>>

\* The server process stops: its consumers vanish, and the groups, kept in
\* Redis, do not learn of it.
ServerStop ==
  /\ \E ch \in Channel : phase[ch] = "connected"
  /\ phase' = [ch \in Channel |->
                 IF phase[ch] = "connected" THEN "failed" ELSE phase[ch]]
  /\ UNCHANGED <<tables, scope_user, chat_id, layer, sent, log, joinedAt, processed>>

----------------------------------------------------------------------------
(* Publishing: receive, and the channel layer's group_send.                *)

\* Defect: the queue has no limit.
GroupSendUnbounded(c, n) ==
  /\ queue' = [ch \in Channel |->
                 IF ch \in group[c] THEN Append(queue[ch], n) ELSE queue[ch]]
  /\ UNCHANGED dropped

\* Defect: a publication is retried after it succeeded.
GroupSendTwice(c, n) ==
  /\ queue' = [ch \in Channel |->
                 IF ch \in group[c] THEN queue[ch] \o <<n, n>> ELSE queue[ch]]
  /\ UNCHANGED dropped

\* Event n goes to every member of the group.  A queue that is full loses an
\* event: the newest one when the list in Redis is full, the oldest one when
\* the process's own buffer is.
GroupSend(c, n) ==
  LET full == {ch \in group[c] : Len(queue[ch]) = Capacity}
  IN  \E evicting \in SUBSET full :
        LET losing == full \ evicting
        IN  /\ queue' = [ch \in Channel |->
                 IF ch \in group[c] \ losing
                   THEN Append(IF ch \in evicting THEN Tail(queue[ch]) ELSE queue[ch], n)
                   ELSE queue[ch]]
            /\ dropped' = [ch \in Channel |->
                 dropped[ch] \cup (IF ch \in evicting THEN {Head(queue[ch])} ELSE {})
                             \cup (IF ch \in losing THEN {n} ELSE {})]

\* receive: the client of ch sends a payload.  A new message has a fresh
\* identifier; an edit or a deletion names a message somebody has sent.
Receive(ch, payload) ==
  /\ phase[ch] = "connected"
  /\ Len(log) < MaxEvents
  /\ IsNew(payload) => payload.id \notin Known
  /\ IsEdit(payload) \/ IsDelete(payload) => payload.id \in Known
  /\ log' = Append(log, [chat |-> chat_id[ch], user |-> scope_user[ch],
                         payload |-> payload, channel |-> ch])
  /\ GroupSend(chat_id[ch], Len(log) + 1)
  /\ UNCHANGED <<tables, consumers, group, sent, joinedAt, processed>>

----------------------------------------------------------------------------
(* on_handle_message_event, on the first event in the consumer's queue.    *)

Pending(ch) == phase[ch] = "connected" /\ queue[ch] # << >>
OwnEvent(ch) == log[Head(queue[ch])].user = scope_user[ch]

\* Defect: the publisher's membership is not checked.
AllowedToAnyone(c, user, payload) ==
  /\ chats[c] = "stored"
  /\ IsNew(payload) => ~Stored(payload.id)
  /\ IsEdit(payload) \/ IsDelete(payload) => Stored(payload.id)

\* process_message_event does not raise: the chat exists, the publisher is a
\* participant, a new identifier is unused, any other one is found.
Allowed(c, user, payload) ==
  /\ chats[c] = "stored"
  /\ <<c, user>> \in participants
  /\ IsNew(payload) => ~Stored(payload.id)
  /\ IsEdit(payload) \/ IsDelete(payload) => Stored(payload.id)

\* Defect: an edit makes its publisher the author.
ProcessingTakesOver(c, user, payload) ==
  CASE IsNew(payload) \/ IsEdit(payload) ->
         [messages EXCEPT ![payload.id] =
            [chat |-> c, author |-> user, content |-> payload.content]]
    [] IsDelete(payload) -> [messages EXCEPT ![payload.id] = NoMessage]
    [] OTHER             -> messages

\* The table after process_message_event.
Processing(c, user, payload) ==
  IF IsNew(payload) THEN
    [messages EXCEPT ![payload.id] =
       [chat |-> c, author |-> user, content |-> payload.content]]
  ELSE IF IsEdit(payload) THEN
    [messages EXCEPT ![payload.id].content = payload.content]
  ELSE IF IsDelete(payload) THEN
    [messages EXCEPT ![payload.id] = NoMessage]
  ELSE messages

\* Defect: the event is taken from the queue only by the next handler.
ProcessOwnEventKeeping(ch) ==
  /\ Pending(ch)
  /\ OwnEvent(ch)
  /\ LET payload == log[Head(queue[ch])].payload
     IN  /\ Allowed(chat_id[ch], scope_user[ch], payload)
         /\ messages' = Processing(chat_id[ch], scope_user[ch], payload)
  /\ processed' = Append(processed, Head(queue[ch]))
  /\ UNCHANGED <<chats, participants, consumers, layer, sent, log, joinedAt>>

\* Defect: an edit creates the message if it is not there.
ProcessOwnEventUpserting(ch) ==
  /\ Pending(ch)
  /\ OwnEvent(ch)
  /\ LET payload == log[Head(queue[ch])].payload
     IN  /\ \/ Allowed(chat_id[ch], scope_user[ch], payload)
            \/ IsEdit(payload)
         /\ messages' = IF IsEdit(payload) /\ ~Stored(payload.id)
              THEN [messages EXCEPT ![payload.id] =
                      [chat |-> chat_id[ch], author |-> scope_user[ch],
                       content |-> payload.content]]
              ELSE Processing(chat_id[ch], scope_user[ch], payload)
  /\ processed' = Append(processed, Head(queue[ch]))
  /\ queue' = [queue EXCEPT ![ch] = Tail(@)]
  /\ UNCHANGED <<chats, participants, consumers, group, dropped, sent, log, joinedAt>>

\* The publisher is the current user: the event is carried out, not sent.
ProcessOwnEvent(ch) ==
  /\ Pending(ch)
  /\ OwnEvent(ch)
  /\ LET payload == log[Head(queue[ch])].payload
     IN  /\ Allowed(chat_id[ch], scope_user[ch], payload)
         /\ messages' = Processing(chat_id[ch], scope_user[ch], payload)
  /\ processed' = Append(processed, Head(queue[ch]))
  /\ queue' = [queue EXCEPT ![ch] = Tail(@)]
  /\ UNCHANGED <<chats, participants, consumers, group, dropped, sent, log, joinedAt>>

\* Defect: the exception is swallowed.
FailOwnEventQuietly(ch) ==
  /\ Pending(ch)
  /\ OwnEvent(ch)
  /\ ~Allowed(chat_id[ch], scope_user[ch], log[Head(queue[ch])].payload)
  /\ queue' = [queue EXCEPT ![ch] = Tail(@)]
  /\ UNCHANGED <<tables, consumers, group, dropped, sent, log, joinedAt, processed>>

\* Defect: the event is tried again until it succeeds.
FailOwnEventRetrying(ch) ==
  /\ Pending(ch)
  /\ OwnEvent(ch)
  /\ ~Allowed(chat_id[ch], scope_user[ch], log[Head(queue[ch])].payload)
  /\ UNCHANGED vars

\* The same, raising: the consumer ends, and its channel stays in the group.
FailOwnEvent(ch) ==
  /\ Pending(ch)
  /\ OwnEvent(ch)
  /\ ~Allowed(chat_id[ch], scope_user[ch], log[Head(queue[ch])].payload)
  /\ phase' = [phase EXCEPT ![ch] = "failed"]
  /\ queue' = [queue EXCEPT ![ch] = Tail(@)]
  /\ UNCHANGED <<tables, scope_user, chat_id, group, dropped, sent, log, joinedAt, processed>>

\* Defect: the event is taken from the queue only by the next handler.
ForwardEventKeeping(ch) ==
  /\ Pending(ch)
  /\ ~OwnEvent(ch)
  /\ sent' = [sent EXCEPT ![ch] = Append(@, Head(queue[ch]))]
  /\ UNCHANGED <<tables, consumers, layer, log, joinedAt, processed>>

\* The publisher is somebody else: the event goes to this client.
ForwardEvent(ch) ==
  /\ Pending(ch)
  /\ ~OwnEvent(ch)
  /\ sent' = [sent EXCEPT ![ch] = Append(@, Head(queue[ch]))]
  /\ queue' = [queue EXCEPT ![ch] = Tail(@)]
  /\ UNCHANGED <<tables, consumers, group, dropped, log, joinedAt, processed>>

OnHandleMessageEvent(ch) ==
  ProcessOwnEvent(ch) \/ FailOwnEvent(ch) \/ ForwardEvent(ch)

----------------------------------------------------------------------------
(* The administration site edits the tables behind the consumers' back.    *)

AdminCreateChat(c) ==
  /\ chats[c] = "future"
  /\ chats' = [chats EXCEPT ![c] = "stored"]
  /\ UNCHANGED <<participants, messages, consumers, layer, sent, log, joinedAt, processed>>

\* Deleting a chat deletes its participants and its messages with it.
AdminDeleteChat(c) ==
  /\ chats[c] = "stored"
  /\ chats' = [chats EXCEPT ![c] = "deleted"]
  /\ participants' = {p \in participants : p[1] # c}
  /\ messages' = [id \in MessageId |->
       IF Stored(id) /\ Row(id).chat = c THEN NoMessage ELSE Row(id)]
  /\ UNCHANGED <<consumers, layer, sent, log, joinedAt, processed>>

AdminAddParticipant(c, user) ==
  /\ chats[c] = "stored"
  /\ participants' = participants \cup {<<c, user>>}
  /\ UNCHANGED <<chats, messages, consumers, layer, sent, log, joinedAt, processed>>

AdminRemoveParticipant(c, user) ==
  /\ participants' = participants \ {<<c, user>>}
  /\ UNCHANGED <<chats, messages, consumers, layer, sent, log, joinedAt, processed>>

AdminDeleteMessage(id) ==
  /\ Stored(id)
  /\ messages' = [messages EXCEPT ![id] = NoMessage]
  /\ UNCHANGED <<chats, participants, consumers, layer, sent, log, joinedAt, processed>>

Administration ==
  \/ \E c \in Chat : AdminCreateChat(c) \/ AdminDeleteChat(c)
  \/ \E c \in Chat, user \in User :
       AdminAddParticipant(c, user) \/ AdminRemoveParticipant(c, user)
  \/ \E id \in MessageId : AdminDeleteMessage(id)

----------------------------------------------------------------------------
Sockets ==
  \/ \E ch \in Channel, user \in User, c \in Chat : Connect(ch, user, c)
  \/ \E ch \in Channel, c \in Chat : RefuseConnect(ch, c)
  \/ \E ch \in Channel : Disconnect(ch)
  \/ ServerStop

Next ==
  \/ Sockets
  \/ \E ch \in Channel, payload \in Payload : Receive(ch, payload)
  \/ \E ch \in Channel : OnHandleMessageEvent(ch)
  \/ Administration

Spec == Init /\ [][Next]_vars

\* The event loop keeps calling the consumers whose queue is not empty.
\* Clients, administrators and failures owe nobody anything.
Fairness == \A ch \in Channel : WF_vars(OnHandleMessageEvent(ch))

FairSpec == Spec /\ Fairness
----------------------------------------------------------------------------
(* Properties.                                                             *)

\* Every row says what was published: some new-message event of its author,
\* in its chat, made its identifier, and its text is that of a new or edit
\* event (process_message_event, across create, edit and double handling).
StoredAsPublished ==
  \A id \in MessageId : Stored(id) =>
    /\ \E n \in DOMAIN log :
         /\ IsNew(log[n].payload) /\ log[n].payload.id = id
         /\ log[n].chat = Row(id).chat /\ log[n].user = Row(id).author
    /\ \E n \in DOMAIN log :
         /\ Writes(log[n].payload, id)
         /\ log[n].payload.content = Row(id).content

\* A client is sent the events of its chat in the order they were published,
\* none twice, and what still waits in its queue comes later (group_send, the
\* queue, forwarding; across overflow, failure and disconnection).
HandledInOrder ==
  \A ch \in Channel :
    LET seen == sent[ch] \o queue[ch]
    IN  /\ \A i, j \in DOMAIN seen : i < j => seen[i] < seen[j]
        /\ phase[ch] = "connected" =>
             \A i \in DOMAIN seen : log[seen[i]].chat = chat_id[ch]

\* A connected consumer is in the group of its chat and in no other, and only
\* a consumer that failed stays in a group it will never leave (connect and
\* disconnect against every way a consumer can end).
Subscribed ==
  \A ch \in Channel, c \in Chat :
    /\ phase[ch] = "connected" => (ch \in group[c] <=> c = chat_id[ch])
    /\ ch \in group[c] => phase[ch] \in {"connected", "failed"} /\ c = chat_id[ch]

\* Nothing is lost silently: of the events published in its chat since it
\* joined, a connected consumer has each in its queue, lost it to a full
\* queue, or is done with it - sent to the client when another user published
\* it, carried out when its own user did (on_handle_message_event).
EveryEventAccounted ==
  \A ch \in Channel : phase[ch] = "connected" =>
    \A n \in DOMAIN log :
      (n > joinedAt[ch] /\ log[n].chat = chat_id[ch]) =>
        \/ n \in Range(queue[ch]) \cup dropped[ch]
        \/ log[n].user # scope_user[ch] /\ n \in Range(sent[ch])
        \/ log[n].user = scope_user[ch] /\ n \in Range(processed)

\* The table changes only as the ledger allows (messaging_consumer.py and
\* message_service_impl.py against the promise of MessageLedger).
Ledger == INSTANCE MessageLedger WITH
  members   <- participants,
  requested <- {[chat |-> log[n].chat, user |-> log[n].user,
                 payload |-> log[n].payload] : n \in DOMAIN log},
  table     <- messages

ImplementsLedger == Ledger!Spec

\* An event that waits in the queue of a connected consumer is eventually
\* sent, carried out or lost to overflow, or the consumer ends: no event is
\* stuck behind another (on_handle_message_event under the event loop).
EventsHandled ==
  \A ch \in Channel, n \in 1 .. MaxEvents :
    (phase[ch] = "connected" /\ n \in Range(queue[ch]))
      ~> (\/ phase[ch] # "connected"
          \/ n \in Range(sent[ch]) \cup Range(processed) \cup dropped[ch])

----------------------------------------------------------------------------
(* When no user is connected twice to a chat.                              *)

OneConnectionEach ==
  \A ch, other \in Channel :
    /\ phase[ch] = "connected" /\ phase[other] = "connected"
    /\ scope_user[ch] = scope_user[other] /\ chat_id[ch] = chat_id[other]
    => ch = other

\* A user's events in a chat are carried out in the order they were
\* published, and none twice, whatever connections and failures come between
\* (the test on the publisher in on_handle_message_event).
ProcessedInOrder ==
  \A i, j \in DOMAIN processed :
    LET a == log[processed[i]]
        b == log[processed[j]]
    IN  (i < j /\ a.user = b.user /\ a.chat = b.chat) => processed[i] < processed[j]

\* A new message never meets a row with its identifier, so that its event
\* cannot end the consumer with an IntegrityError (Message.objects.create).
NewNeverConflicts ==
  \A ch \in Channel : \A n \in Range(queue[ch]) :
    (phase[ch] = "connected" /\ IsNew(log[n].payload) /\ log[n].user = scope_user[ch])
      => ~Stored(log[n].payload.id)

\* A message that was stored and then removed, by its users or between two
\* handlers by the administrator, does not come back (create, edit and delete
\* of process_message_event; MessageService has removals inside a handler).
DeletedStaysDeleted ==
  [][\A id \in MessageId :
       (~Stored(id) /\ \E n \in Range(processed) :
                          IsNew(log[n].payload) /\ log[n].payload.id = id)
       => messages'[id] = NoMessage]_vars

----------------------------------------------------------------------------
(* What the documentation says and the code does not do.                   *)

\* messaging_consumer.py:126, "Forward the event to other consumer
\* websockets": a consumer other than the publisher's own that is done with
\* an event has sent it to its websocket.
OtherSocketsServed ==
  \A ch \in Channel : phase[ch] = "connected" =>
    \A n \in DOMAIN log :
      (/\ n > joinedAt[ch] /\ log[n].chat = chat_id[ch] /\ log[n].channel # ch
       /\ n \notin Range(queue[ch]) \cup dropped[ch])
      => n \in Range(sent[ch])

\* README.md:5, "It uses a centralized database to store all messages
\* associated with a particular chat": a message that a participant published
\* and some client was sent has been stored, or waits in the queue of a
\* consumer that can store it.
StoredIfRelayed ==
  \A ch \in Channel : \A n \in Range(sent[ch]) :
    (IsNew(log[n].payload) /\ <<log[n].chat, log[n].user>> \in participants) =>
      \/ n \in Range(processed)
      \/ \E other \in Channel :
           /\ phase[other] = "connected" /\ scope_user[other] = log[n].user
           /\ n \in Range(queue[other])
=============================================================================
