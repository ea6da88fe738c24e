----------------------- MODULE MessagingConsumerProofs -----------------------
(***************************************************************************)
(* Theorems about MessagingConsumer, for any number of users, chats,       *)
(* websockets and events, any capacity of the queues and everything the    *)
(* administrator may do: types, subscriptions, the table and its ledger;   *)
(* then what it promises of delivery; then what it promises as long as no  *)
(* user is connected twice to a chat.                                      *)
(***************************************************************************)
EXTENDS MessagingConsumer, SequenceFacts, SequenceTheorems

\* A connected consumer has a user and a chat: what receive puts into an event
\* is defined (connect sets both before it accepts).
ConnectedHasScope ==
  \A ch \in Channel : phase[ch] = "connected" =>
    chat_id[ch] \in Chat /\ scope_user[ch] \in User

TypeInv == TypeOK /\ ConnectedHasScope

----------------------------------------------------------------------------
(* Type correctness.                                                       *)

\* group_send keeps every queue within its capacity and within the log, and
\* counts what it loses (the channel layer).
LEMMA GroupSendType ==
  ASSUME TypeOK, NEW c \in Chat, NEW n \in Nat, n = Len(log) + 1, GroupSend(c, n)
  PROVE  /\ queue' \in [Channel -> Seq(1 .. n)]
         /\ dropped' \in [Channel -> SUBSET (1 .. n)]
         /\ \A ch \in Channel : Len(queue'[ch]) <= Capacity
PROOF
  <1> DEFINE full == {ch \in group[c] : Len(queue[ch]) = Capacity}
  <1>1. PICK evicting \in SUBSET full :
          /\ queue' = [ch \in Channel |->
               IF ch \in group[c] \ (full \ evicting)
                 THEN Append(IF ch \in evicting THEN Tail(queue[ch]) ELSE queue[ch], n)
                 ELSE queue[ch]]
          /\ dropped' = [ch \in Channel |->
               dropped[ch] \cup (IF ch \in evicting THEN {Head(queue[ch])} ELSE {})
                           \cup (IF ch \in full \ evicting THEN {n} ELSE {})]
    BY DEF GroupSend
  <1>2. Capacity \in Nat \ {0} /\ Len(log) \in Nat
    BY ConsumerAssumption DEF TypeOK
  <1>3. ASSUME NEW ch \in Channel
        PROVE  /\ queue'[ch] \in Seq(1 .. n)
               /\ dropped'[ch] \in SUBSET (1 .. n)
               /\ Len(queue'[ch]) <= Capacity
    <2>1. /\ queue[ch] \in Seq(1 .. Len(log))
          /\ Len(queue[ch]) <= Capacity
          /\ Len(queue[ch]) \in Nat
          /\ dropped[ch] \in SUBSET (1 .. Len(log))
      BY DEF TypeOK
    <2>2. 1 .. Len(log) \subseteq 1 .. n /\ n \in 1 .. n
      BY <1>2
    <2>3. queue[ch] \in Seq(1 .. n) /\ dropped[ch] \in SUBSET (1 .. n)
      BY <2>1, <2>2, SeqOfWiderSet
    <2>4. CASE ch \in evicting
      <3>1. /\ queue'[ch] = Append(Tail(queue[ch]), n)
            /\ dropped'[ch] = dropped[ch] \cup {Head(queue[ch])}
        BY <1>1, <2>4
      <3>2. Len(queue[ch]) = Capacity
        BY <2>4
      <3>3. queue[ch] # << >>
        BY <3>2, <1>2, <2>1
      <3>4. /\ Head(queue[ch]) \in 1 .. n
            /\ Tail(queue[ch]) \in Seq(1 .. n)
            /\ Len(Tail(queue[ch])) = Len(queue[ch]) - 1
        BY <3>3, <2>3, TailFacts
      <3> QED BY <3>1, <3>2, <3>4, <2>1, <2>2, <2>3, <1>2, AppendFacts
    <2>5. CASE ch \in full \ evicting
      BY <2>5, <1>1, <2>1, <2>2, <2>3
    <2>6. CASE ch \in group[c] \ full
      <3>1. queue'[ch] = Append(queue[ch], n) /\ dropped'[ch] = dropped[ch]
        BY <1>1, <2>6
      <3>2. Len(queue[ch]) # Capacity
        BY <2>6
      <3> QED BY <3>1, <3>2, <2>1, <2>2, <2>3, <1>2, AppendFacts
    <2>7. CASE ch \notin group[c]
      BY <2>7, <1>1, <2>1, <2>2, <2>3
    <2> QED BY <2>4, <2>5, <2>6, <2>7
  <1>4. /\ queue' = [ch \in Channel |-> queue'[ch]]
        /\ dropped' = [ch \in Channel |-> dropped'[ch]]
    BY <1>1
  <1> QED BY <1>3, <1>4

\* The table after process_message_event is a table again.
LEMMA ProcessingType ==
  ASSUME TypeOK, NEW c \in Chat, NEW user \in User, NEW payload \in Payload,
         Allowed(c, user, payload)
  PROVE  Processing(c, user, payload) \in [MessageId -> Message \cup {NoMessage}]
PROOF
  <1>1. CASE IsNew(payload)
    <2>1. payload.id \in MessageId /\ payload.content \in Content
      BY <1>1 DEF Payload, IsNew
    <2>2. [chat |-> c, author |-> user, content |-> payload.content] \in Message
      BY <2>1 DEF Message
    <2> QED BY <1>1, <2>1, <2>2 DEF Processing, TypeOK
  <1>2. CASE IsEdit(payload)
    <2>1. payload.id \in MessageId /\ payload.content \in Content /\ ~IsNew(payload)
      BY <1>2 DEF Payload, IsEdit, IsNew
    <2>2. messages[payload.id] \in Message
      BY <2>1, <1>2 DEF Allowed, Stored, TypeOK
    <2>3. [messages[payload.id] EXCEPT !.content = payload.content] \in Message
      BY <2>1, <2>2 DEF Message
    <2> QED BY <1>2, <2>1, <2>3 DEF Processing, TypeOK
  <1>3. CASE IsDelete(payload)
    <2>1. ~IsNew(payload) /\ ~IsEdit(payload)
      BY <1>3 DEF IsDelete, IsNew, IsEdit
    <2> QED BY <1>3, <2>1 DEF Processing, TypeOK
  <1>4. CASE ~IsNew(payload) /\ ~IsEdit(payload) /\ ~IsDelete(payload)
    BY <1>4 DEF Processing, TypeOK
  <1> QED BY <1>1, <1>2, <1>3, <1>4

\* What the head of a queue is, for a consumer about to handle it.
LEMMA PendingFacts ==
  ASSUME TypeInv, NEW ch \in Channel, Pending(ch)
  PROVE  /\ Head(queue[ch]) \in 1 .. Len(log)
         /\ Tail(queue[ch]) \in Seq(1 .. Len(log))
         /\ Len(Tail(queue[ch])) <= Capacity
         /\ log[Head(queue[ch])] \in Event
         /\ chat_id[ch] \in Chat
         /\ scope_user[ch] \in User
PROOF
  <1>1. queue[ch] \in Seq(1 .. Len(log)) /\ queue[ch] # << >> /\ Len(queue[ch]) <= Capacity
    BY DEF TypeInv, TypeOK, Pending
  <1>2. Capacity \in Nat
    BY ConsumerAssumption
  <1>3. /\ Head(queue[ch]) \in 1 .. Len(log)
        /\ Tail(queue[ch]) \in Seq(1 .. Len(log))
        /\ Len(Tail(queue[ch])) = Len(queue[ch]) - 1
        /\ Len(queue[ch]) > 0
    BY <1>1, TailFacts
  <1>4. Len(Tail(queue[ch])) <= Capacity
    BY <1>1, <1>2, <1>3
  <1>5. log[Head(queue[ch])] \in Event
    BY <1>3 DEF TypeInv, TypeOK
  <1>6. chat_id[ch] \in Chat /\ scope_user[ch] \in User
    BY DEF TypeInv, ConnectedHasScope, Pending
  <1> QED BY <1>3, <1>4, <1>5, <1>6

\* Initially the types are right and nobody is connected.
LEMMA TypeInit == Init => TypeInv
PROOF
  <1> SUFFICES ASSUME Init PROVE TypeInv
    OBVIOUS
  <1>1. Capacity \in Nat
    BY ConsumerAssumption
  <1>2. log \in Seq(Event) /\ Len(log) = 0
    BY DEF Init
  <1>3. TypeOK
    BY <1>1, <1>2 DEF Init, TypeOK
  <1>4. ConnectedHasScope
    BY DEF Init, ConnectedHasScope
  <1> QED BY <1>3, <1>4 DEF TypeInv

\* Every step of the system keeps the types.
LEMMA TypeStep == TypeInv /\ [Next]_vars => TypeInv'
PROOF
  <1> SUFFICES ASSUME TypeInv, [Next]_vars PROVE TypeInv'
    OBVIOUS
  <1> USE DEF TypeInv, tables, consumers, layer
  <1>0. Len(log) \in Nat
    BY DEF TypeOK
  <1>1. ASSUME NEW ch \in Channel, NEW user \in User, NEW c \in Chat, Connect(ch, user, c)
        PROVE  TypeInv'
    <2>1. Len(log) \in 0 .. Len(log)
      BY <1>0
    <2> QED BY <1>1, <2>1 DEF Connect, TypeOK, ConnectedHasScope
  <1>2. ASSUME NEW ch \in Channel, NEW c \in Chat, RefuseConnect(ch, c)
        PROVE  TypeInv'
    BY <1>2 DEF RefuseConnect, TypeOK, ConnectedHasScope
  <1>3. ASSUME NEW ch \in Channel, Disconnect(ch)
        PROVE  TypeInv'
    <2>1. << >> \in Seq(1 .. Len(log)) /\ Len(<< >>) <= Capacity
      BY ConsumerAssumption
    <2> QED BY <1>3, <2>1 DEF Disconnect, TypeOK, ConnectedHasScope
  <1>4. CASE ServerStop
    BY <1>4 DEF ServerStop, TypeOK, ConnectedHasScope
  <1>5. ASSUME NEW ch \in Channel, NEW payload \in Payload, Receive(ch, payload)
        PROVE  TypeInv'
    <2> DEFINE n == Len(log) + 1
               event == [chat |-> chat_id[ch], user |-> scope_user[ch],
                         payload |-> payload, channel |-> ch]
    <2>1. chat_id[ch] \in Chat /\ event \in Event
      BY <1>5 DEF Receive, ConnectedHasScope, Event
    <2>2. log' = Append(log, event) /\ log \in Seq(Event)
      BY <1>5 DEF Receive, TypeOK
    <2>3. log' \in Seq(Event) /\ Len(log') = n
      BY <2>1, <2>2, AppendFacts
    <2>4. n \in Nat /\ GroupSend(chat_id[ch], n)
      BY <1>5, <1>0 DEF Receive
    <2>5. /\ queue' \in [Channel -> Seq(1 .. n)]
          /\ dropped' \in [Channel -> SUBSET (1 .. n)]
          /\ \A k \in Channel : Len(queue'[k]) <= Capacity
      BY <2>1, <2>4, GroupSendType
    <2>6. 1 .. Len(log) \subseteq 1 .. n /\ 0 .. Len(log) \subseteq 0 .. n
      BY <1>0
    <2>7. sent' \in [Channel -> Seq(1 .. n)] /\ processed' \in Seq(1 .. n)
      BY <1>5, <2>6, SeqOfWiderSet DEF Receive, TypeOK
    <2>8. joinedAt' \in [Channel -> 0 .. n]
      BY <1>5, <2>6 DEF Receive, TypeOK
    <2>9. TypeOK'
      BY <1>5, <2>3, <2>5, <2>7, <2>8 DEF Receive, TypeOK
    <2>10. ConnectedHasScope'
      BY <1>5 DEF Receive, ConnectedHasScope
    <2> QED BY <2>9, <2>10
  <1>6. ASSUME NEW ch \in Channel, ProcessOwnEvent(ch)
        PROVE  TypeInv'
    <2> DEFINE n == Head(queue[ch])
    <2>1. /\ n \in 1 .. Len(log)
          /\ Tail(queue[ch]) \in Seq(1 .. Len(log))
          /\ Len(Tail(queue[ch])) <= Capacity
          /\ log[n].payload \in Payload
          /\ chat_id[ch] \in Chat
          /\ scope_user[ch] \in User
      BY <1>6, PendingFacts DEF ProcessOwnEvent, Event
    <2>2. messages' \in [MessageId -> Message \cup {NoMessage}]
      BY <1>6, <2>1, ProcessingType DEF ProcessOwnEvent
    <2>3. processed' \in Seq(1 .. Len(log))
      BY <1>6, <2>1, AppendFacts DEF ProcessOwnEvent, TypeOK
    <2> QED BY <1>6, <2>1, <2>2, <2>3 DEF ProcessOwnEvent, TypeOK, ConnectedHasScope
  <1>7. ASSUME NEW ch \in Channel, FailOwnEvent(ch)
        PROVE  TypeInv'
    <2>1. /\ Tail(queue[ch]) \in Seq(1 .. Len(log))
          /\ Len(Tail(queue[ch])) <= Capacity
      BY <1>7, PendingFacts DEF FailOwnEvent
    <2> QED BY <1>7, <2>1 DEF FailOwnEvent, TypeOK, ConnectedHasScope
  <1>8. ASSUME NEW ch \in Channel, ForwardEvent(ch)
        PROVE  TypeInv'
    <2>1. /\ Head(queue[ch]) \in 1 .. Len(log)
          /\ Tail(queue[ch]) \in Seq(1 .. Len(log))
          /\ Len(Tail(queue[ch])) <= Capacity
      BY <1>8, PendingFacts DEF ForwardEvent
    <2>2. Append(sent[ch], Head(queue[ch])) \in Seq(1 .. Len(log))
      BY <2>1, AppendFacts DEF TypeOK
    <2> QED BY <1>8, <2>1, <2>2 DEF ForwardEvent, TypeOK, ConnectedHasScope
  <1>9. CASE Administration
    <2>1. ASSUME NEW c \in Chat, AdminCreateChat(c)
          PROVE  TypeInv'
      BY <2>1 DEF AdminCreateChat, TypeOK, ConnectedHasScope
    <2>2. ASSUME NEW c \in Chat, AdminDeleteChat(c)
          PROVE  TypeInv'
      BY <2>2 DEF AdminDeleteChat, TypeOK, ConnectedHasScope, Row
    <2>3. ASSUME NEW c \in Chat, NEW user \in User, AdminAddParticipant(c, user)
          PROVE  TypeInv'
      BY <2>3 DEF AdminAddParticipant, TypeOK, ConnectedHasScope
    <2>4. ASSUME NEW c \in Chat, NEW user \in User, AdminRemoveParticipant(c, user)
          PROVE  TypeInv'
      BY <2>4 DEF AdminRemoveParticipant, TypeOK, ConnectedHasScope
    <2>5. ASSUME NEW id \in MessageId, AdminDeleteMessage(id)
          PROVE  TypeInv'
      BY <2>5 DEF AdminDeleteMessage, TypeOK, ConnectedHasScope
    <2> QED BY <1>9, <2>1, <2>2, <2>3, <2>4, <2>5 DEF Administration
  <1>10. CASE UNCHANGED vars
    BY <1>10 DEF vars, TypeOK, ConnectedHasScope
  <1> QED BY <1>1, <1>2, <1>3, <1>4, <1>5, <1>6, <1>7, <1>8, <1>9, <1>10
          DEF Next, Sockets, OnHandleMessageEvent

\* TypeOK is an invariant: in particular no queue ever exceeds its capacity
\* and every index in a queue names a published event (the whole server).
THEOREM TypeCorrect == Spec => []TypeOK
PROOF
  <1>1. Spec => []TypeInv
    BY TypeInit, TypeStep, PTL DEF Spec
  <1>2. TypeInv => TypeOK
    BY DEF TypeInv
  <1> QED BY <1>1, <1>2, PTL

----------------------------------------------------------------------------
(* What group_send does to one queue.                                      *)

\* Outside the group nothing changes; inside, the event is added, in place of
\* the oldest one or not, or lost.
LEMMA GroupSendCases ==
  ASSUME TypeOK, NEW c \in Chat, NEW n \in Nat, GroupSend(c, n), NEW ch \in Channel
  PROVE  \/ queue'[ch] = queue[ch] /\ dropped'[ch] = dropped[ch] /\ ch \notin group[c]
         \/ /\ queue'[ch] = queue[ch] /\ dropped'[ch] = dropped[ch] \cup {n}
            /\ ch \in group[c]
         \/ /\ queue'[ch] = Append(queue[ch], n) /\ dropped'[ch] = dropped[ch]
            /\ ch \in group[c]
         \/ /\ queue[ch] # << >>
            /\ queue'[ch] = Append(Tail(queue[ch]), n)
            /\ dropped'[ch] = dropped[ch] \cup {Head(queue[ch])}
            /\ ch \in group[c]
PROOF
  <1> DEFINE full == {k \in group[c] : Len(queue[k]) = Capacity}
  <1>1. PICK evicting \in SUBSET full :
          /\ queue' = [k \in Channel |->
               IF k \in group[c] \ (full \ evicting)
                 THEN Append(IF k \in evicting THEN Tail(queue[k]) ELSE queue[k], n)
                 ELSE queue[k]]
          /\ dropped' = [k \in Channel |->
               dropped[k] \cup (IF k \in evicting THEN {Head(queue[k])} ELSE {})
                          \cup (IF k \in full \ evicting THEN {n} ELSE {})]
    BY DEF GroupSend
  <1>2. queue[ch] \in Seq(1 .. Len(log)) /\ Capacity \in Nat \ {0}
    BY ConsumerAssumption DEF TypeOK
  <1>3. CASE ch \in evicting
    <2>1. Len(queue[ch]) = Capacity /\ ch \in group[c]
      BY <1>3
    <2>2. queue[ch] # << >>
      BY <2>1, <1>2
    <2> QED BY <1>1, <1>3, <2>1, <2>2
  <1>4. CASE ch \in full \ evicting
    BY <1>1, <1>4
  <1>5. CASE ch \in group[c] \ full
    BY <1>1, <1>5
  <1>6. CASE ch \notin group[c]
    BY <1>1, <1>6
  <1> QED BY <1>3, <1>4, <1>5, <1>6

----------------------------------------------------------------------------
(* Subscriptions, and what the queues hold.                                *)

\* Events wait only in the queue of a consumer of their chat; of a consumer
\* that has failed, too.  This is what carrying out an event in the chat of
\* the consumer, not in that of the event, relies on.
QueuedInChat ==
  \A ch \in Channel :
    /\ \A n \in Range(queue[ch]) : log[n].chat = chat_id[ch]
    /\ phase[ch] \in {"unused", "closed"} => queue[ch] = << >>

ChatInv == TypeInv /\ Subscribed /\ QueuedInChat

\* Groups and queues are empty at first.
LEMMA ChatInit == Init => ChatInv
PROOF
  <1> SUFFICES ASSUME Init PROVE ChatInv
    OBVIOUS
  <1>1. Subscribed
    BY DEF Init, Subscribed
  <1>2. Range(<< >>) = {}
    BY DEF Range
  <1>3. QueuedInChat
    BY <1>2 DEF Init, QueuedInChat
  <1> QED BY <1>1, <1>3, TypeInit DEF ChatInv

\* Only connect and disconnect touch the groups.
LEMMA SubscribedStep == TypeInv /\ Subscribed /\ [Next]_vars => Subscribed'
PROOF
  <1> SUFFICES ASSUME TypeInv, Subscribed, [Next]_vars PROVE Subscribed'
    OBVIOUS
  <1> USE DEF tables, consumers, layer
  <1>1. ASSUME NEW ch \in Channel, NEW user \in User, NEW c \in Chat, Connect(ch, user, c)
        PROVE  Subscribed'
    BY <1>1 DEF Connect, Subscribed, TypeInv, TypeOK
  <1>2. ASSUME NEW ch \in Channel, NEW c \in Chat, RefuseConnect(ch, c)
        PROVE  Subscribed'
    BY <1>2 DEF RefuseConnect, Subscribed, TypeInv, TypeOK
  <1>3. ASSUME NEW ch \in Channel, Disconnect(ch)
        PROVE  Subscribed'
    BY <1>3 DEF Disconnect, Subscribed, TypeInv, TypeOK
  <1>4. CASE ServerStop
    BY <1>4 DEF ServerStop, Subscribed, TypeInv, TypeOK
  <1>5. ASSUME NEW ch \in Channel, FailOwnEvent(ch)
        PROVE  Subscribed'
    BY <1>5 DEF FailOwnEvent, Pending, Subscribed, TypeInv, TypeOK
  <1>6. CASE UNCHANGED <<phase, chat_id, group>>
    BY <1>6 DEF Subscribed
  <1> QED
    BY <1>1, <1>2, <1>3, <1>4, <1>5, <1>6
    DEF Next, Sockets, OnHandleMessageEvent, Administration, Receive, ProcessOwnEvent,
        ForwardEvent, AdminCreateChat, AdminDeleteChat, AdminAddParticipant,
        AdminRemoveParticipant, AdminDeleteMessage, vars

\* receive appends to the log: what was there stays.
LEMMA ReceiveLog ==
  ASSUME TypeInv, NEW ch \in Channel, NEW payload \in Payload, Receive(ch, payload)
  PROVE  /\ Len(log) \in Nat
         /\ Len(log') = Len(log) + 1
         /\ chat_id[ch] \in Chat
         /\ \A n \in 1 .. Len(log) : log'[n] = log[n]
         /\ log'[Len(log) + 1] = [chat |-> chat_id[ch], user |-> scope_user[ch],
                                  payload |-> payload, channel |-> ch]
         /\ log'[Len(log) + 1] \in Event
         /\ GroupSend(chat_id[ch], Len(log) + 1)
PROOF
  <1> DEFINE event == [chat |-> chat_id[ch], user |-> scope_user[ch],
                       payload |-> payload, channel |-> ch]
  <1>1. chat_id[ch] \in Chat /\ event \in Event
    BY DEF Receive, TypeInv, ConnectedHasScope, Event
  <1>2. log' = Append(log, event) /\ log \in Seq(Event)
    BY DEF Receive, TypeInv, TypeOK
  <1>3. Len(log) \in Nat
    BY <1>2
  <1> QED BY <1>1, <1>2, <1>3, AppendFacts DEF Receive

\* A publication goes to members of its chat's group.
LEMMA QueuedInChatStep == ChatInv /\ [Next]_vars => QueuedInChat'
PROOF
  <1> SUFFICES ASSUME ChatInv, [Next]_vars PROVE QueuedInChat'
    OBVIOUS
  <1> USE DEF tables, consumers, layer
  <1>0. Range(<< >>) = {}
    BY DEF Range
  <1>1. ASSUME NEW ch \in Channel, NEW user \in User, NEW c \in Chat, Connect(ch, user, c)
        PROVE  QueuedInChat'
    BY <1>0, <1>1 DEF Connect, ChatInv, QueuedInChat, TypeInv, TypeOK
  <1>2. ASSUME NEW ch \in Channel, NEW c \in Chat, RefuseConnect(ch, c)
        PROVE  QueuedInChat'
    BY <1>0, <1>2 DEF RefuseConnect, ChatInv, QueuedInChat, TypeInv, TypeOK
  <1>3. ASSUME NEW ch \in Channel, Disconnect(ch)
        PROVE  QueuedInChat'
    BY <1>0, <1>3 DEF Disconnect, ChatInv, QueuedInChat, TypeInv, TypeOK
  <1>4. CASE ServerStop
    BY <1>4 DEF ServerStop, QueuedInChat, ChatInv, TypeInv, TypeOK
  <1>5. ASSUME NEW ch \in Channel, NEW payload \in Payload, Receive(ch, payload)
        PROVE  QueuedInChat'
    <2> DEFINE n == Len(log) + 1
    <2>0. /\ Len(log) \in Nat
          /\ chat_id[ch] \in Chat
          /\ \A m \in 1 .. Len(log) : log'[m] = log[m]
          /\ log'[n] = [chat |-> chat_id[ch], user |-> scope_user[ch],
                        payload |-> payload, channel |-> ch]
          /\ GroupSend(chat_id[ch], n)
      <3>1. TypeInv
        BY DEF ChatInv
      <3> HIDE DEF n
      <3> QED BY <1>5, <3>1, ReceiveLog DEF n
    <2>1. /\ n \in Nat /\ chat_id[ch] \in Chat
          /\ \A m \in 1 .. Len(log) : log'[m] = log[m]
          /\ log'[n].chat = chat_id[ch]
          /\ GroupSend(chat_id[ch], n)
      BY <2>0
    <2>2. UNCHANGED <<phase, chat_id>>
      BY <1>5 DEF Receive
    <2>3. ASSUME NEW k \in Channel
          PROVE  /\ \A m \in Range(queue'[k]) : log'[m].chat = chat_id[k]
                 /\ phase[k] \in {"unused", "closed"} => queue'[k] = << >>
      <3>1. queue[k] \in Seq(1 .. Len(log)) /\ queue[k] \in Seq(1 .. n)
        <4>1. 1 .. Len(log) \subseteq 1 .. n
          BY <2>1
        <4>2. queue[k] \in Seq(1 .. Len(log))
          BY DEF ChatInv, TypeInv, TypeOK
        <4> QED BY <4>1, <4>2, SeqOfWiderSet
      <3>2. \A m \in Range(queue[k]) : log'[m].chat = chat_id[k]
        BY <2>1, <3>1, RangeFacts DEF ChatInv, QueuedInChat
      <3>3. phase[k] \in {"unused", "closed"} => k \notin group[chat_id[ch]]
        BY <2>1 DEF ChatInv, Subscribed
      <3>4. CASE queue'[k] = queue[k]
        BY <3>2, <3>4 DEF ChatInv, QueuedInChat
      <3>5. CASE k \in group[chat_id[ch]] /\ queue'[k] = Append(queue[k], n)
        <4>1. chat_id[k] = chat_id[ch]
          BY <3>5, <2>1 DEF ChatInv, Subscribed
        <4>2. n \in 1 .. n
          BY <2>1, ReceiveLog, <1>5 DEF ChatInv
        <4>3. Range(queue'[k]) = Range(queue[k]) \cup {n}
          BY <3>1, <3>5, <4>2, RangeFacts
        <4> QED BY <2>1, <3>2, <3>3, <3>5, <4>1, <4>3
      <3>6. CASE /\ k \in group[chat_id[ch]] /\ queue[k] # << >>
                 /\ queue'[k] = Append(Tail(queue[k]), n)
        <4>1. chat_id[k] = chat_id[ch]
          BY <3>6, <2>1 DEF ChatInv, Subscribed
        <4>2. n \in 1 .. n
          BY <2>1, ReceiveLog, <1>5 DEF ChatInv
        <4>3. Tail(queue[k]) \in Seq(1 .. n)
          BY <3>1, <3>6, TailFacts
        <4>4. Range(queue'[k]) = Range(Tail(queue[k])) \cup {n}
          BY <3>6, <4>2, <4>3, RangeFacts
        <4>5. Range(Tail(queue[k])) \subseteq Range(queue[k])
          BY <3>1, <3>6, RangeFacts
        <4> QED BY <2>1, <3>2, <3>3, <3>6, <4>1, <4>4, <4>5
      <3> QED BY <2>1, <3>4, <3>5, <3>6, GroupSendCases DEF ChatInv, TypeInv
    <2> QED BY <2>2, <2>3 DEF QueuedInChat
  <1>6. ASSUME NEW ch \in Channel, OnHandleMessageEvent(ch)
        PROVE  QueuedInChat'
    <2>1. Pending(ch) /\ queue' = [queue EXCEPT ![ch] = Tail(@)] /\ UNCHANGED <<log, chat_id>>
      BY <1>6 DEF OnHandleMessageEvent, ProcessOwnEvent, FailOwnEvent, ForwardEvent
    <2>2. phase' \in {phase, [phase EXCEPT ![ch] = "failed"]}
      BY <1>6 DEF OnHandleMessageEvent, ProcessOwnEvent, FailOwnEvent, ForwardEvent
    <2>3. queue[ch] \in Seq(1 .. Len(log)) /\ queue[ch] # << >>
      BY <2>1 DEF Pending, ChatInv, TypeInv, TypeOK
    <2>4. Range(Tail(queue[ch])) \subseteq Range(queue[ch])
      BY <2>3, RangeFacts
    <2>5. queue'[ch] = Tail(queue[ch]) /\ \A k \in Channel \ {ch} : queue'[k] = queue[k]
      BY <2>1 DEF ChatInv, TypeInv, TypeOK
    <2>6. /\ phase'[ch] \in {"connected", "failed"}
          /\ \A k \in Channel \ {ch} : phase'[k] = phase[k]
      BY <2>1, <2>2 DEF Pending, ChatInv, TypeInv, TypeOK
    <2> QED BY <2>1, <2>4, <2>5, <2>6 DEF QueuedInChat, ChatInv
  <1>7. CASE UNCHANGED <<phase, chat_id, queue, log>>
    BY <1>7 DEF QueuedInChat, ChatInv
  <1> QED
    BY <1>1, <1>2, <1>3, <1>4, <1>5, <1>6, <1>7
    DEF Next, Sockets, Administration, AdminCreateChat, AdminDeleteChat,
        AdminAddParticipant, AdminRemoveParticipant, AdminDeleteMessage, vars

\* What the rest is built on.
LEMMA ChatInvariant == Spec => []ChatInv
PROOF
  <1>1. ChatInv /\ [Next]_vars => ChatInv'
    BY TypeStep, SubscribedStep, QueuedInChatStep DEF ChatInv
  <1> QED BY ChatInit, <1>1, PTL DEF Spec

\* A connected consumer is in its chat's group and no other, and only a failed
\* consumer stays in a group for good (connect, disconnect, every failure).
THEOREM AlwaysSubscribed == Spec => []Subscribed
PROOF
  <1>1. ChatInv => Subscribed
    BY DEF ChatInv
  <1> QED BY ChatInvariant, <1>1, PTL

----------------------------------------------------------------------------
(* The rows of the table.                                                  *)

\* The log only grows.
LEMMA LogGrows ==
  ASSUME TypeInv, [Next]_vars
  PROVE  \A n \in DOMAIN log : n \in DOMAIN log' /\ log'[n] = log[n]
PROOF
  <1>1. DOMAIN log = 1 .. Len(log) /\ Len(log) \in Nat
    BY DEF TypeInv, TypeOK
  <1>2. ASSUME NEW ch \in Channel, NEW payload \in Payload, Receive(ch, payload)
        PROVE  \A n \in DOMAIN log : n \in DOMAIN log' /\ log'[n] = log[n]
    <2>1. Len(log') = Len(log) + 1 /\ \A n \in 1 .. Len(log) : log'[n] = log[n]
      BY <1>2, ReceiveLog
    <2>2. log' \in Seq(Event)
      BY TypeStep DEF TypeInv, TypeOK
    <2>3. DOMAIN log' = 1 .. (Len(log) + 1)
      BY <2>1, <2>2
    <2> QED BY <1>1, <2>1, <2>3
  <1>3. CASE log' = log
    BY <1>3
  <1> QED
    BY <1>2, <1>3
    DEF Next, Sockets, OnHandleMessageEvent, ProcessOwnEvent, FailOwnEvent, ForwardEvent,
        Administration, AdminCreateChat, AdminDeleteChat, AdminAddParticipant,
        AdminRemoveParticipant, AdminDeleteMessage, Connect, RefuseConnect, Disconnect,
        ServerStop, vars, tables, consumers, layer

\* The two halves of StoredAsPublished, for a row that a table holds.
CreatedBy(id, row) ==
  \E n \in DOMAIN log :
    /\ IsNew(log[n].payload) /\ log[n].payload.id = id
    /\ log[n].chat = row.chat /\ log[n].user = row.author
WrittenBy(id, row) ==
  \E n \in DOMAIN log :
    Writes(log[n].payload, id) /\ log[n].payload.content = row.content

\* An event that a consumer carries out leaves rows that events account for.
LEMMA ProcessedRows ==
  ASSUME ChatInv, StoredAsPublished, NEW ch \in Channel, ProcessOwnEvent(ch),
         NEW id \in MessageId, messages'[id] # NoMessage
  PROVE  CreatedBy(id, messages'[id]) /\ WrittenBy(id, messages'[id])
PROOF
  <1> DEFINE n == Head(queue[ch])
             payload == log[n].payload
             c == chat_id[ch]
             user == scope_user[ch]
  <1>1. /\ n \in 1 .. Len(log) /\ log[n] \in Event /\ c \in Chat /\ user \in User
        /\ DOMAIN log = 1 .. Len(log)
    <2>1. Pending(ch) /\ TypeInv
      BY DEF ProcessOwnEvent, ChatInv
    <2>2. DOMAIN log = 1 .. Len(log)
      BY DEF ChatInv, TypeInv, TypeOK
    <2> QED BY <2>1, <2>2, PendingFacts
  <1>2. log[n].chat = c
    <2>1. queue[ch] \in Seq(1 .. Len(log)) /\ queue[ch] # << >>
      BY DEF ChatInv, TypeInv, TypeOK, ProcessOwnEvent, Pending
    <2>2. n \in Range(queue[ch])
      BY <2>1, RangeFacts
    <2> QED BY <2>2 DEF ChatInv, QueuedInChat
  <1>3. log[n].user = user
    BY DEF ProcessOwnEvent, OwnEvent
  <1>4. /\ payload \in Payload
        /\ Allowed(c, user, payload)
        /\ messages' = Processing(c, user, payload)
        /\ messages \in [MessageId -> Message \cup {NoMessage}]
    BY <1>1 DEF ProcessOwnEvent, Event, ChatInv, TypeInv, TypeOK
  <1>5. \A other \in MessageId : messages[other] # NoMessage =>
          CreatedBy(other, messages[other]) /\ WrittenBy(other, messages[other])
    BY DEF StoredAsPublished, Stored, Row, CreatedBy, WrittenBy
  <1> HIDE DEF n, payload, c, user
  <1>6. CASE messages'[id] = messages[id]
    BY <1>5, <1>6
  <1>7. CASE IsNew(payload) /\ payload.id = id
    <2>1. messages'[id] = [chat |-> c, author |-> user, content |-> payload.content]
      BY <1>4, <1>7 DEF Processing
    <2>2. CreatedBy(id, messages'[id])
      BY <1>1, <1>2, <1>3, <1>7, <2>1 DEF CreatedBy, payload
    <2>3. WrittenBy(id, messages'[id])
      BY <1>1, <1>7, <2>1 DEF WrittenBy, Writes, payload
    <2> QED BY <2>2, <2>3
  <1>8. CASE IsEdit(payload) /\ payload.id = id
    <2>1. messages[id] \in Message /\ messages[id] # NoMessage
      BY <1>4, <1>8 DEF Allowed, Stored
    <2>2. messages'[id] = [messages[id] EXCEPT !.content = payload.content]
      BY <1>4, <1>8 DEF Processing, IsNew, IsEdit
    <2>3. /\ messages'[id].chat = messages[id].chat
          /\ messages'[id].author = messages[id].author
          /\ messages'[id].content = payload.content
      BY <2>1, <2>2 DEF Message
    <2>4. CreatedBy(id, messages'[id])
      BY <1>5, <2>1, <2>3 DEF CreatedBy
    <2>5. WrittenBy(id, messages'[id])
      BY <1>1, <1>8, <2>3 DEF WrittenBy, Writes, payload
    <2> QED BY <2>4, <2>5
  <1>9. \/ messages'[id] = messages[id]
        \/ IsNew(payload) /\ payload.id = id
        \/ IsEdit(payload) /\ payload.id = id
    BY <1>4 DEF Processing
  <1> QED BY <1>6, <1>7, <1>8, <1>9

\* A step other than carrying out an event leaves each row, or removes it.
LEMMA OtherSteps ==
  ASSUME ChatInv, [Next]_vars, \A ch \in Channel : ~ProcessOwnEvent(ch),
         NEW id \in MessageId
  PROVE  messages'[id] \in {messages[id], NoMessage}
PROOF
  <1>1. messages \in [MessageId -> Message \cup {NoMessage}]
    BY DEF ChatInv, TypeInv, TypeOK
  <1>2. ASSUME NEW c \in Chat, AdminDeleteChat(c)
        PROVE  messages'[id] \in {messages[id], NoMessage}
    BY <1>2 DEF AdminDeleteChat, Row
  <1>3. ASSUME NEW other \in MessageId, AdminDeleteMessage(other)
        PROVE  messages'[id] \in {messages[id], NoMessage}
    BY <1>1, <1>3 DEF AdminDeleteMessage
  <1>4. CASE UNCHANGED messages
    BY <1>4
  <1> QED
    BY <1>2, <1>3, <1>4
    DEF Next, Sockets, OnHandleMessageEvent, FailOwnEvent, ForwardEvent,
        Administration, AdminCreateChat, AdminAddParticipant,
        AdminRemoveParticipant, Connect, RefuseConnect, Disconnect, Receive,
        ServerStop, vars, tables

\* Rows are written by the handler that processes; all others keep or remove
\* them.
LEMMA StoredStep == ChatInv /\ StoredAsPublished /\ [Next]_vars => StoredAsPublished'
PROOF
  <1> SUFFICES ASSUME ChatInv, StoredAsPublished, [Next]_vars,
                      NEW id \in MessageId, messages'[id] # NoMessage
               PROVE  CreatedBy(id, messages[id])' /\ WrittenBy(id, messages[id])'
    BY DEF StoredAsPublished, Stored, Row, CreatedBy, WrittenBy
  <1>1. \A n \in DOMAIN log : n \in DOMAIN log' /\ log'[n] = log[n]
    BY LogGrows DEF ChatInv
  <1>2. CreatedBy(id, messages'[id]) /\ WrittenBy(id, messages'[id])
    <2>1. CASE \E ch \in Channel : ProcessOwnEvent(ch)
      BY <2>1, ProcessedRows
    <2>2. CASE \A ch \in Channel : ~ProcessOwnEvent(ch)
      <3>1. messages'[id] = messages[id]
        BY <2>2, OtherSteps
      <3> QED BY <3>1 DEF StoredAsPublished, Stored, Row, CreatedBy, WrittenBy
    <2> QED BY <2>1, <2>2
  <1> QED BY <1>1, <1>2 DEF CreatedBy, WrittenBy

\* No row is there at first.
LEMMA StoredInit == Init => StoredAsPublished
  BY DEF Init, StoredAsPublished, Stored

\* Every row was published: made by a new-message event of its author in its
\* chat, with the text of a new or edit event of that message
\* (process_message_event, in every order the consumers handle their events).
THEOREM AlwaysStoredAsPublished == Spec => []StoredAsPublished
  BY ChatInvariant, StoredInit, StoredStep, PTL DEF Spec

----------------------------------------------------------------------------
(* The server implements the ledger.                                       *)

\* The ledger's requested events, as ImplementsLedger maps them.
Requested ==
  {[chat |-> log[n].chat, user |-> log[n].user, payload |-> log[n].payload]
     : n \in DOMAIN log}

\* Nothing is requested at first and the table is empty.
LEMMA LedgerInit == Init => Ledger!Init
PROOF
  <1> SUFFICES ASSUME Init PROVE Ledger!Init
    OBVIOUS
  <1>1. participants \in SUBSET (Chat \X User)
    BY DEF Init
  <1>2. Requested = {}
    BY DEF Init, Requested
  <1> QED BY <1>1, <1>2 DEF Init, Ledger!Init, Requested

\* receive publishes one event.
LEMMA ReceivePublishes ==
  ASSUME TypeInv, NEW ch \in Channel, NEW payload \in Payload, Receive(ch, payload)
  PROVE  Ledger!Next
PROOF
  <1> DEFINE r == [chat |-> chat_id[ch], user |-> scope_user[ch], payload |-> payload]
             n == Len(log) + 1
  <1>1. /\ Len(log) \in Nat /\ Len(log') = n
        /\ \A m \in 1 .. Len(log) : log'[m] = log[m]
        /\ log'[n] = [chat |-> chat_id[ch], user |-> scope_user[ch],
                      payload |-> payload, channel |-> ch]
        /\ log'[n] \in Event
    <2> HIDE DEF n
    <2> QED BY ReceiveLog DEF n
  <1>2. DOMAIN log = 1 .. Len(log) /\ DOMAIN log' = 1 .. n
    <2>1. log \in Seq(Event) /\ log' = Append(log, log'[n])
      BY <1>1 DEF Receive, TypeInv, TypeOK
    <2> QED BY <1>1, <2>1
  <1>3. DOMAIN log' = DOMAIN log \cup {n}
    BY <1>1, <1>2
  <1>4. r \in Ledger!Request
    BY <1>1 DEF Event, Ledger!Request, Ledger!Payload, Payload
  <1>5. Requested' = Requested \cup {r}
    BY <1>1, <1>2, <1>3 DEF Requested
  <1>6. Ledger!Publish(r)
    BY <1>5 DEF Ledger!Publish, Receive, tables, Requested
  <1> QED BY <1>4, <1>6 DEF Ledger!Next, Ledger!Publish

\* Carrying out an event changes the row it names, as the ledger says, unless
\* it is a purge.
LEMMA ProcessCarriesOut ==
  ASSUME ChatInv, ChatInv', NEW ch \in Channel, ProcessOwnEvent(ch)
  PROVE  Ledger!Next \/ UNCHANGED Ledger!vars
PROOF
  <1> DEFINE n == Head(queue[ch])
             payload == log[n].payload
             c == chat_id[ch]
             user == scope_user[ch]
             r == [chat |-> log[n].chat, user |-> log[n].user, payload |-> payload]
  <1>1. /\ n \in 1 .. Len(log) /\ log[n] \in Event /\ c \in Chat /\ user \in User
        /\ DOMAIN log = 1 .. Len(log)
    <2>1. Pending(ch) /\ TypeInv
      BY DEF ProcessOwnEvent, ChatInv
    <2>2. DOMAIN log = 1 .. Len(log)
      BY DEF ChatInv, TypeInv, TypeOK
    <2> QED BY <2>1, <2>2, PendingFacts
  <1>2. log[n].chat = c /\ log[n].user = user
    <2>1. queue[ch] \in Seq(1 .. Len(log)) /\ queue[ch] # << >>
      BY DEF ChatInv, TypeInv, TypeOK, ProcessOwnEvent, Pending
    <2>2. n \in Range(queue[ch])
      BY <2>1, RangeFacts
    <2> QED BY <2>2 DEF ChatInv, QueuedInChat, ProcessOwnEvent, OwnEvent
  <1>3. r \in Requested /\ r \in Ledger!Request
    BY <1>1 DEF Requested, Ledger!Request, Event, Ledger!Payload, Payload
  <1>4. /\ payload \in Payload
        /\ Allowed(c, user, payload)
        /\ messages' = Processing(c, user, payload)
        /\ messages \in [MessageId -> Message \cup {NoMessage}]
        /\ messages' \in [MessageId -> Message \cup {NoMessage}]
        /\ participants' = participants /\ Requested' = Requested
    <2>1. payload \in Payload
      BY <1>1 DEF Event
    <2>2. Allowed(c, user, payload) /\ messages' = Processing(c, user, payload)
      BY DEF ProcessOwnEvent
    <2>3. /\ messages \in [MessageId -> Message \cup {NoMessage}]
          /\ messages' \in [MessageId -> Message \cup {NoMessage}]
      BY DEF ChatInv, TypeInv, TypeOK
    <2>4. participants' = participants /\ Requested' = Requested
      BY DEF ProcessOwnEvent, Requested
    <2> QED BY <2>1, <2>2, <2>3, <2>4
  <1>5. r.chat = c /\ r.user = user /\ r.payload = payload
    BY <1>2
  <1> HIDE DEF n, payload, c, user, r
  <1>6. ASSUME Ledger!Create(r) \/ Ledger!Edit(r) \/ Ledger!Delete(r)
        PROVE  Ledger!Next
    <2>1. <<r.chat, r.user>> \in participants
      BY <1>4, <1>5 DEF Allowed
    <2>2. Ledger!CarryOut(r)
      BY <1>3, <1>4, <1>6, <2>1 DEF Ledger!CarryOut, Requested, Ledger!Message, Message
    <2> QED BY <1>3, <2>2 DEF Ledger!Next
  <1>7. CASE IsNew(payload)
    <2>1. payload.id \in MessageId
      BY <1>4, <1>7 DEF Payload, IsNew
    <2>2. Ledger!Create(r)
      BY <1>4, <1>5, <1>7, <2>1
         DEF Ledger!Create, Ledger!OnlyRow, Ledger!IsNew, IsNew, Allowed, Stored, Processing
    <2> QED BY <1>6, <2>2
  <1>8. CASE IsEdit(payload)
    <2>1. payload.id \in MessageId /\ ~IsNew(payload)
      BY <1>4, <1>8 DEF Payload, IsEdit, IsNew
    <2>2. Ledger!Edit(r)
      BY <1>4, <1>5, <1>8, <2>1
         DEF Ledger!Edit, Ledger!OnlyRow, Ledger!IsEdit, IsEdit, Allowed, Stored, Processing
    <2> QED BY <1>6, <2>2
  <1>9. CASE IsDelete(payload)
    <2>1. payload.id \in MessageId /\ ~IsNew(payload) /\ ~IsEdit(payload)
      BY <1>4, <1>9 DEF Payload, IsDelete, IsEdit, IsNew
    <2>2. Ledger!Delete(r)
      BY <1>4, <1>5, <1>9, <2>1
         DEF Ledger!Delete, Ledger!OnlyRow, Ledger!IsDelete, IsDelete, Allowed, Stored, Processing
    <2> QED BY <1>6, <2>2
  <1>10. CASE ~IsNew(payload) /\ ~IsEdit(payload) /\ ~IsDelete(payload)
    <2>1. messages' = messages
      BY <1>4, <1>10 DEF Processing
    <2> QED BY <1>4, <2>1 DEF Ledger!vars, Requested
  <1> QED BY <1>7, <1>8, <1>9, <1>10

\* The administrator's actions are the ledger's Administer.
LEMMA AdministrationAdministers ==
  ASSUME TypeInv, TypeInv', Administration
  PROVE  Ledger!Next \/ UNCHANGED Ledger!vars
PROOF
  <1> USE DEF tables, consumers, layer
  <1> DEFINE Without(gone) ==
               [id \in MessageId |-> IF id \in gone THEN NoMessage ELSE messages[id]]
  <1>1. ASSUME \E gone \in SUBSET MessageId : messages' = Without(gone),
               UNCHANGED log
        PROVE  Ledger!Next
    <2>1. participants' \in SUBSET (Chat \X User)
      BY DEF TypeInv, TypeOK
    <2>2. Ledger!Administer
      BY <1>1, <2>1 DEF Ledger!Administer
    <2> QED BY <2>2 DEF Ledger!Next
  <1>2. messages = Without({}) /\ {} \in SUBSET MessageId
    BY DEF TypeInv, TypeOK
  <1>3. ASSUME NEW c \in Chat, AdminCreateChat(c)
        PROVE  Ledger!Next
    <2>1. messages' = Without({})
      BY <1>2, <1>3 DEF AdminCreateChat
    <2>2. UNCHANGED log
      BY <1>3 DEF AdminCreateChat
    <2> HIDE DEF Without
    <2> QED BY <1>1, <1>2, <2>1, <2>2
  <1>4. ASSUME NEW c \in Chat, AdminDeleteChat(c)
        PROVE  Ledger!Next
    <2> DEFINE gone == {id \in MessageId : Stored(id) /\ Row(id).chat = c}
    <2>1. messages' = Without(gone) /\ gone \in SUBSET MessageId
      BY <1>4 DEF AdminDeleteChat, Row
    <2>2. UNCHANGED log
      BY <1>4 DEF AdminDeleteChat
    <2> HIDE DEF gone, Without
    <2> QED BY <1>1, <2>1, <2>2
  <1>5. ASSUME NEW c \in Chat, NEW user \in User,
               AdminAddParticipant(c, user) \/ AdminRemoveParticipant(c, user)
        PROVE  Ledger!Next
    <2>1. messages' = Without({})
      BY <1>2, <1>5 DEF AdminAddParticipant, AdminRemoveParticipant
    <2>2. UNCHANGED log
      BY <1>5 DEF AdminAddParticipant, AdminRemoveParticipant
    <2> HIDE DEF Without
    <2> QED BY <1>1, <1>2, <2>1, <2>2
  <1>6. ASSUME NEW id \in MessageId, AdminDeleteMessage(id)
        PROVE  Ledger!Next
    <2>1. messages' = Without({id}) /\ {id} \in SUBSET MessageId
      BY <1>6 DEF AdminDeleteMessage, TypeInv, TypeOK
    <2>2. UNCHANGED log
      BY <1>6 DEF AdminDeleteMessage
    <2> HIDE DEF Without
    <2> QED BY <1>1, <2>1, <2>2
  <1> QED BY <1>3, <1>4, <1>5, <1>6 DEF Administration

\* Each action of the server is one of the ledger's or a stutter.
LEMMA LedgerStep == ChatInv /\ ChatInv' /\ [Next]_vars => [Ledger!Next]_(Ledger!vars)
PROOF
  <1> SUFFICES ASSUME ChatInv, ChatInv', [Next]_vars
               PROVE  Ledger!Next \/ UNCHANGED Ledger!vars
    OBVIOUS
  <1>1. ASSUME NEW ch \in Channel, NEW payload \in Payload, Receive(ch, payload)
        PROVE  Ledger!Next
    BY <1>1, ReceivePublishes DEF ChatInv
  <1>2. ASSUME NEW ch \in Channel, ProcessOwnEvent(ch)
        PROVE  Ledger!Next \/ UNCHANGED Ledger!vars
    BY <1>2, ProcessCarriesOut
  <1>3. CASE Administration
    BY <1>3, AdministrationAdministers DEF ChatInv
  <1>4. CASE UNCHANGED <<participants, messages, log>>
    BY <1>4 DEF Ledger!vars
  <1> QED
    BY <1>1, <1>2, <1>3, <1>4
    DEF Next, Sockets, OnHandleMessageEvent, FailOwnEvent, ForwardEvent, Connect,
        RefuseConnect, Disconnect, ServerStop, vars, tables

\* Whatever the consumers, the queues and the failures do, the messages table
\* changes only by carrying out, once per step and for a participant, an event
\* that its user published, or by the administrator removing rows.
THEOREM ServerImplementsLedger == Spec => ImplementsLedger
PROOF
  <1>1. Init => Ledger!Init
    BY LedgerInit
  <1>2. ChatInv /\ ChatInv' /\ [Next]_vars => [Ledger!Next]_(Ledger!vars)
    BY LedgerStep
  <1> QED BY ChatInvariant, <1>1, <1>2, PTL DEF Spec, ImplementsLedger, Ledger!Spec

----------------------------------------------------------------------------
(* Every event is accounted for.                                           *)

\* What EveryEventAccounted says of one consumer and one event.
Accounted(ch, n) ==
  \/ n \in Range(queue[ch]) \cup dropped[ch]
  \/ log[n].user # scope_user[ch] /\ n \in Range(sent[ch])
  \/ log[n].user = scope_user[ch] /\ n \in Range(processed)

\* An event that waits for a consumer in its chat, or has.
Awaited(ch, n) ==
  phase[ch] = "connected" /\ n > joinedAt[ch] /\ log[n].chat = chat_id[ch]

\* The property, by consumer and event.
LEMMA AccountedForm ==
  EveryEventAccounted <=>
    \A ch \in Channel : \A n \in DOMAIN log : Awaited(ch, n) => Accounted(ch, n)
BY DEF EveryEventAccounted, Accounted, Awaited

\* A publication: the new event is in every queue of the group or dropped, and
\* an event that had to make room is dropped.
LEMMA AccountedReceive ==
  ASSUME ChatInv, EveryEventAccounted,
         NEW ch \in Channel, NEW payload \in Payload, Receive(ch, payload)
  PROVE  EveryEventAccounted'
PROOF
  <1>1. /\ Len(log) \in Nat
        /\ chat_id[ch] \in Chat
        /\ \A m \in 1 .. Len(log) : log'[m] = log[m]
        /\ log'[Len(log) + 1].chat = chat_id[ch]
        /\ GroupSend(chat_id[ch], Len(log) + 1)
    <2>1. /\ Len(log) \in Nat
          /\ chat_id[ch] \in Chat
          /\ \A m \in 1 .. Len(log) : log'[m] = log[m]
          /\ log'[Len(log) + 1] = [chat |-> chat_id[ch], user |-> scope_user[ch],
                                   payload |-> payload, channel |-> ch]
          /\ GroupSend(chat_id[ch], Len(log) + 1)
      BY ReceiveLog DEF ChatInv
    <2> QED BY <2>1
  <1>2. UNCHANGED <<phase, scope_user, chat_id, sent, joinedAt, processed>>
    BY DEF Receive, consumers
  <1>3. DOMAIN log = 1 .. Len(log) /\ DOMAIN log' = 1 .. (Len(log) + 1)
    <2>1. log \in Seq(Event) /\ log' \in Seq(Event)
      <3>1. TypeInv' /\ TypeInv
        BY TypeStep DEF ChatInv, Next
      <3> QED BY <3>1 DEF TypeInv, TypeOK
    <2>2. Len(log') = Len(log) + 1
      BY ReceiveLog DEF ChatInv
    <2> QED BY <2>1, <2>2
  <1>4. ASSUME NEW k \in Channel
        PROVE  /\ Range(queue[k]) \cup dropped[k] \subseteq Range(queue'[k]) \cup dropped'[k]
               /\ k \in group[chat_id[ch]] =>
                    Len(log) + 1 \in Range(queue'[k]) \cup dropped'[k]
    <2> DEFINE n == Len(log) + 1
               q == queue[k]
               S == 1 .. n
    <2>1. q \in Seq(S) /\ n \in S /\ n \in Nat
      <3>1. 1 .. Len(log) \subseteq 1 .. n /\ n \in 1 .. n /\ n \in Nat
        BY <1>1
      <3>2. q \in Seq(1 .. Len(log))
        BY DEF ChatInv, TypeInv, TypeOK
      <3> QED BY <3>1, <3>2, SeqOfWiderSet
    <2> HIDE DEF n, q, S
    <2>2. CASE queue'[k] = q /\ dropped'[k] = dropped[k] /\ k \notin group[chat_id[ch]]
      BY <2>2 DEF q
    <2>3. CASE queue'[k] = q /\ dropped'[k] = dropped[k] \cup {n}
      BY <2>3 DEF n, q
    <2>4. CASE queue'[k] = Append(q, n) /\ dropped'[k] = dropped[k]
      <3>1. Range(Append(q, n)) = Range(q) \cup {n}
        BY <2>1, RangeFacts
      <3> QED BY <2>4, <3>1 DEF n, q
    <2>5. CASE /\ q # << >> /\ queue'[k] = Append(Tail(q), n)
               /\ dropped'[k] = dropped[k] \cup {Head(q)}
      <3> DEFINE rest == Tail(q)
      <3>1. rest \in Seq(S)
        BY <2>1, <2>5, TailFacts
      <3> HIDE DEF rest
      <3>2. Range(Append(rest, n)) = Range(rest) \cup {n}
        BY <2>1, <3>1, RangeAppend
      <3>3. Range(q) = Range(Tail(q)) \cup {Head(q)}
        BY <2>1, <2>5, RangeFacts
      <3> QED BY <2>5, <3>2, <3>3 DEF n, q, rest
    <2> QED BY <1>1, <2>1, <2>2, <2>3, <2>4, <2>5, GroupSendCases DEF n, q, ChatInv, TypeInv
  <1>5. ASSUME NEW k \in Channel, NEW n \in DOMAIN log', Awaited(k, n)'
        PROVE  Accounted(k, n)'
    <2>1. CASE n \in 1 .. Len(log)
      <3>1. Awaited(k, n) /\ log'[n] = log[n]
        BY <1>1, <1>2, <1>5, <2>1 DEF Awaited
      <3>2. Accounted(k, n)
        BY <1>3, <2>1, <3>1, AccountedForm
      <3> QED BY <1>2, <1>4, <3>1, <3>2 DEF Accounted
    <2>2. CASE n = Len(log) + 1
      <3>1. phase[k] = "connected" /\ chat_id[k] = chat_id[ch]
        BY <1>1, <1>2, <1>5, <2>2 DEF Awaited
      <3>2. k \in group[chat_id[ch]]
        BY <1>1, <3>1 DEF ChatInv, Subscribed
      <3> QED BY <1>4, <2>2, <3>2 DEF Accounted
    <2> QED BY <1>1, <1>3, <2>1, <2>2
  <1> QED BY <1>5, AccountedForm DEF EveryEventAccounted, Accounted, Awaited

\* A handler that returns: the event goes from the queue to the websocket or
\* onto the table.
LEMMA AccountedHandled ==
  ASSUME ChatInv, EveryEventAccounted, NEW ch \in Channel,
         ProcessOwnEvent(ch) \/ ForwardEvent(ch)
  PROVE  EveryEventAccounted'
PROOF
  <1> DEFINE n == Head(queue[ch])
             S == 1 .. Len(log)
  <1>1. /\ Pending(ch)
        /\ queue' = [queue EXCEPT ![ch] = Tail(@)]
        /\ UNCHANGED <<phase, scope_user, chat_id, dropped, log, joinedAt>>
    BY DEF ProcessOwnEvent, ForwardEvent, consumers
  <1>2. /\ queue[ch] \in Seq(S) /\ queue[ch] # << >> /\ n \in S
        /\ sent[ch] \in Seq(S) /\ processed \in Seq(S)
    BY <1>1, PendingFacts DEF Pending, ChatInv, TypeInv, TypeOK
  <1>3. /\ queue'[ch] = Tail(queue[ch])
        /\ \A k \in Channel \ {ch} : queue'[k] = queue[k]
    BY <1>1 DEF ChatInv, TypeInv, TypeOK
  <1>4. Range(queue[ch]) = Range(queue'[ch]) \cup {n}
    BY <1>2, <1>3, RangeFacts
  <1>5. \/ OwnEvent(ch) /\ processed' = Append(processed, n) /\ sent' = sent
        \/ /\ ~OwnEvent(ch) /\ processed' = processed
           /\ sent' = [sent EXCEPT ![ch] = Append(@, n)]
    BY DEF ProcessOwnEvent, ForwardEvent
  <1> HIDE DEF n, S
  <1>6. /\ Range(processed) \subseteq Range(processed')
        /\ \A k \in Channel : Range(sent[k]) \subseteq Range(sent'[k])
        /\ OwnEvent(ch) => n \in Range(processed')
        /\ ~OwnEvent(ch) => n \in Range(sent'[ch])
    <2>1. CASE OwnEvent(ch)
      <3>1. processed' = Append(processed, n) /\ sent' = sent
        BY <1>5, <2>1
      <3>2. Range(processed') = Range(processed) \cup {n}
        BY <1>2, <3>1, RangeAppend
      <3> QED BY <2>1, <3>1, <3>2
    <2>2. CASE ~OwnEvent(ch)
      <3>1. /\ processed' = processed
            /\ sent'[ch] = Append(sent[ch], n)
            /\ \A k \in Channel \ {ch} : sent'[k] = sent[k]
        BY <1>5, <2>2 DEF ChatInv, TypeInv, TypeOK
      <3>2. Range(sent'[ch]) = Range(sent[ch]) \cup {n}
        BY <1>2, <3>1, RangeFacts
      <3> QED BY <2>2, <3>1, <3>2
    <2> QED BY <2>1, <2>2
  <1>7. OwnEvent(ch) <=> log[n].user = scope_user[ch]
    BY DEF OwnEvent, n
  <1>8. ASSUME NEW k \in Channel, NEW m \in DOMAIN log', Awaited(k, m)'
        PROVE  Accounted(k, m)'
    <2>1. Awaited(k, m) /\ m \in DOMAIN log
      BY <1>1, <1>8 DEF Awaited
    <2>2. Accounted(k, m)
      BY <2>1, AccountedForm
    <2>3. CASE k = ch /\ m = n
      BY <1>1, <1>6, <1>7, <2>3 DEF Accounted
    <2>4. CASE k # ch \/ m # n
      <3>1. m \in Range(queue[k]) => m \in Range(queue'[k])
        BY <1>3, <1>4, <2>4
      <3> QED BY <1>1, <1>6, <2>2, <3>1 DEF Accounted
    <2> QED BY <2>3, <2>4
  <1> QED BY <1>8, AccountedForm DEF EveryEventAccounted, Accounted, Awaited

\* No other step takes an event away from a consumer that stays connected.
LEMMA AccountedStep ==
  ChatInv /\ EveryEventAccounted /\ [Next]_vars => EveryEventAccounted'
PROOF
  <1> SUFFICES ASSUME ChatInv, EveryEventAccounted, [Next]_vars PROVE EveryEventAccounted'
    OBVIOUS
  <1> USE DEF tables, consumers, layer
  <1>0. Len(log) \in Nat /\ DOMAIN log = 1 .. Len(log)
    BY DEF ChatInv, TypeInv, TypeOK
  <1>1. ASSUME NEW ch \in Channel, NEW user \in User, NEW c \in Chat, Connect(ch, user, c)
        PROVE  EveryEventAccounted'
    <2>1. /\ UNCHANGED <<queue, dropped, sent, log, processed>>
          /\ joinedAt'[ch] = Len(log)
          /\ \A k \in Channel \ {ch} :
               /\ phase'[k] = phase[k] /\ joinedAt'[k] = joinedAt[k]
               /\ chat_id'[k] = chat_id[k] /\ scope_user'[k] = scope_user[k]
      BY <1>1 DEF Connect, ChatInv, TypeInv, TypeOK
    <2>2. \A n \in DOMAIN log : ~(n > Len(log))
      BY <1>0
    <2> QED BY <2>1, <2>2 DEF EveryEventAccounted
  <1>2. ASSUME NEW ch \in Channel,
               \/ \E c \in Chat : RefuseConnect(ch, c)
               \/ Disconnect(ch)
               \/ FailOwnEvent(ch)
        PROVE  EveryEventAccounted'
    <2>1. /\ UNCHANGED <<scope_user, dropped, sent, log, joinedAt, processed>>
          /\ phase'[ch] # "connected"
          /\ \A k \in Channel \ {ch} :
               phase'[k] = phase[k] /\ chat_id'[k] = chat_id[k] /\ queue'[k] = queue[k]
      BY <1>2 DEF RefuseConnect, Disconnect, FailOwnEvent, ChatInv, TypeInv, TypeOK
    <2> QED BY <2>1 DEF EveryEventAccounted
  <1>3. CASE ServerStop
    <2>1. UNCHANGED <<scope_user, chat_id, queue, dropped, sent, log, joinedAt, processed>>
      BY <1>3 DEF ServerStop
    <2>2. \A k \in Channel : phase'[k] # "connected"
      BY <1>3 DEF ServerStop
    <2> QED BY <2>2 DEF EveryEventAccounted
  <1>4. CASE UNCHANGED <<phase, scope_user, chat_id, queue, dropped, sent, log, joinedAt, processed>>
    BY <1>4 DEF EveryEventAccounted
  <1> QED
    BY <1>1, <1>2, <1>3, <1>4, AccountedReceive, AccountedHandled
    DEF Next, Sockets, OnHandleMessageEvent, Administration, AdminCreateChat,
        AdminDeleteChat, AdminAddParticipant, AdminRemoveParticipant,
        AdminDeleteMessage, vars

\* Of the events published in its chat since it joined, a connected consumer
\* has each in its queue, lost it to a full queue, sent it or carried it out
\* (receive, group_send, on_handle_message_event).
THEOREM NothingLostSilently == Spec => []EveryEventAccounted
PROOF
  <1>1. Init => EveryEventAccounted
    BY DEF Init, EveryEventAccounted
  <1> QED BY <1>1, AccountedStep, ChatInvariant, PTL DEF Spec

----------------------------------------------------------------------------
(* Events are handled in the order of their publication.                   *)

\* What was sent is in order and before what waits, which is in order.
InOrder ==
  \A ch \in Channel :
    Increasing(sent[ch]) /\ Increasing(queue[ch]) /\ Before(sent[ch], queue[ch])

\* A connected consumer has sent events of its chat only, and a new one none.
SentInChat ==
  \A ch \in Channel :
    /\ phase[ch] = "connected" =>
         \A i \in DOMAIN sent[ch] : log[sent[ch][i]].chat = chat_id[ch]
    /\ phase[ch] = "unused" => sent[ch] = << >>

OrderInv == InOrder /\ SentInChat

\* What the queues and the sent events are sequences of.
LEMMA QueueFacts ==
  ASSUME TypeInv, NEW ch \in Channel
  PROVE  /\ Len(log) \in Nat
         /\ queue[ch] \in Seq(1 .. Len(log)) /\ sent[ch] \in Seq(1 .. Len(log))
         /\ queue[ch] \in Seq(Nat) /\ sent[ch] \in Seq(Nat)
         /\ \A i \in DOMAIN queue[ch] : queue[ch][i] \in 1 .. Len(log)
         /\ \A i \in DOMAIN sent[ch] : sent[ch][i] \in 1 .. Len(log)
PROOF
  <1>1. /\ Len(log) \in Nat
        /\ queue[ch] \in Seq(1 .. Len(log)) /\ sent[ch] \in Seq(1 .. Len(log))
    BY DEF TypeInv, TypeOK
  <1>2. 1 .. Len(log) \subseteq Nat
    BY <1>1
  <1>3. queue[ch] \in Seq(Nat) /\ sent[ch] \in Seq(Nat)
    BY <1>1, <1>2, SeqOfWiderSet
  <1> QED BY <1>1, <1>3

\* A publication appends an index above all others.
LEMMA OrderReceive ==
  ASSUME ChatInv, OrderInv, NEW ch \in Channel, NEW payload \in Payload, Receive(ch, payload)
  PROVE  OrderInv'
PROOF
  <1> DEFINE n == Len(log) + 1
  <1>1. /\ n \in Nat /\ Len(log) \in Nat /\ chat_id[ch] \in Chat
        /\ \A m \in 1 .. Len(log) : m < n /\ log'[m] = log[m]
        /\ GroupSend(chat_id[ch], n)
    <2>1. /\ Len(log) \in Nat /\ chat_id[ch] \in Chat
          /\ \A m \in 1 .. Len(log) : log'[m] = log[m]
          /\ GroupSend(chat_id[ch], Len(log) + 1)
      BY ReceiveLog DEF ChatInv
    <2> QED BY <2>1
  <1> HIDE DEF n
  <1>2. UNCHANGED <<phase, chat_id, sent>>
    BY DEF Receive, consumers
  <1>3. SentInChat'
    <2>1. \A k \in Channel : \A i \in DOMAIN sent[k] : sent[k][i] \in 1 .. Len(log)
      BY QueueFacts DEF ChatInv
    <2> QED BY <1>1, <1>2, <2>1 DEF SentInChat, OrderInv
  <1>4. ASSUME NEW k \in Channel
        PROVE  /\ Increasing(sent'[k]) /\ Increasing(queue'[k])
               /\ Before(sent'[k], queue'[k])
    <2> DEFINE q == queue[k]
               s == sent[k]
    <2>1. /\ q \in Seq(Nat) /\ s \in Seq(Nat)
          /\ \A i \in DOMAIN q : q[i] < n
          /\ \A i \in DOMAIN s : s[i] < n
      BY <1>1, QueueFacts DEF ChatInv
    <2>2. sent'[k] = s /\ Increasing(s) /\ Increasing(q) /\ Before(s, q)
      BY <1>2 DEF OrderInv, InOrder
    <2> HIDE DEF q, s
    <2>3. ASSUME NEW t \in Seq(Nat), Increasing(t), Before(s, t), \A i \in DOMAIN t : t[i] < n
          PROVE  Increasing(Append(t, n)) /\ Before(s, Append(t, n))
      <3>1. Increasing(Append(t, n))
        BY <1>1, <2>3, IncreasingAppend
      <3>2. /\ DOMAIN t = 1 .. Len(t) /\ DOMAIN Append(t, n) = 1 .. (Len(t) + 1)
            /\ Len(t) \in Nat
        BY <2>3
      <3>3. /\ \A i \in 1 .. Len(t) : Append(t, n)[i] = t[i]
            /\ Append(t, n)[Len(t) + 1] = n
        BY <1>1, <2>3, AppendFacts
      <3>4. \A i \in 1 .. (Len(t) + 1) : i \in 1 .. Len(t) \/ i = Len(t) + 1
        BY <3>2
      <3> QED BY <2>1, <2>3, <3>1, <3>2, <3>3, <3>4 DEF Before
    <2>4. CASE queue'[k] = q
      BY <2>2, <2>4
    <2>5. CASE queue'[k] = Append(q, n)
      BY <2>1, <2>2, <2>3, <2>5
    <2>6. CASE q # << >> /\ queue'[k] = Append(Tail(q), n)
      <3> DEFINE rest == Tail(q)
      <3>1. /\ rest \in Seq(Nat) /\ Len(rest) = Len(q) - 1 /\ Len(q) \in Nat /\ Len(q) > 0
            /\ \A i \in 1 .. Len(rest) : rest[i] = q[i + 1]
        BY <2>1, <2>6, TailFacts
      <3>2. DOMAIN q = 1 .. Len(q) /\ DOMAIN rest = 1 .. Len(rest)
        BY <2>1, <3>1
      <3>3. Increasing(rest)
        BY <2>1, <2>2, <2>6, IncreasingTail
      <3> HIDE DEF rest
      <3>4. \A i \in 1 .. Len(rest) : i + 1 \in 1 .. Len(q)
        BY <3>1
      <3>5. /\ \A i \in DOMAIN rest : rest[i] < n
            /\ Before(s, rest)
        BY <2>1, <2>2, <3>1, <3>2, <3>4 DEF Before
      <3>6. queue'[k] = Append(rest, n)
        BY <2>6 DEF rest
      <3> QED BY <2>2, <2>3, <3>1, <3>3, <3>5, <3>6
    <2> QED BY <1>1, <2>4, <2>5, <2>6, GroupSendCases DEF q, ChatInv, TypeInv
  <1> QED BY <1>3, <1>4 DEF OrderInv, InOrder

\* A handler takes the first event, which comes after all that was sent and
\* before all that waits.
LEMMA OrderHandled ==
  ASSUME ChatInv, OrderInv, NEW ch \in Channel, OnHandleMessageEvent(ch)
  PROVE  OrderInv'
PROOF
  <1> DEFINE q == queue[ch]
             s == sent[ch]
             n == Head(queue[ch])
  <1>1. /\ Pending(ch)
        /\ queue' = [queue EXCEPT ![ch] = Tail(@)]
        /\ UNCHANGED <<chat_id, log>>
        /\ phase' \in {phase, [phase EXCEPT ![ch] = "failed"]}
        /\ sent' \in {sent, [sent EXCEPT ![ch] = Append(@, Head(queue[ch]))]}
    BY DEF OnHandleMessageEvent, ProcessOwnEvent, FailOwnEvent, ForwardEvent, consumers
  <1>2. /\ queue'[ch] = Tail(q) /\ sent'[ch] \in {s, Append(s, n)}
        /\ \A k \in Channel \ {ch} : queue'[k] = queue[k] /\ sent'[k] = sent[k]
        /\ phase[ch] = "connected"
        /\ \A k \in Channel : phase'[k] \in {phase[k], "failed"}
    BY <1>1 DEF Pending, ChatInv, TypeInv, TypeOK
  <1>3. q \in Seq(Nat) /\ s \in Seq(Nat) /\ q # << >> /\ n \in Nat
    <2>1. q \in Seq(Nat) /\ s \in Seq(Nat) /\ q # << >>
      BY <1>1, QueueFacts DEF ChatInv, Pending
    <2> QED BY <2>1, TailFacts
  <1>4. Increasing(s) /\ Increasing(q) /\ Before(s, q)
    BY DEF OrderInv, InOrder
  <1>5. log[n].chat = chat_id[ch]
    <2>1. queue[ch] \in Seq(1 .. Len(log)) /\ queue[ch] # << >>
      BY <1>1, QueueFacts DEF ChatInv, Pending
    <2>2. n \in Range(queue[ch])
      BY <2>1, RangeFacts
    <2> QED BY <2>2 DEF ChatInv, QueuedInChat
  <1>6. n = q[1] /\ 1 \in DOMAIN q
    BY <1>3, TailFacts
  <1> HIDE DEF q, s, n
  <1>7. Increasing(Tail(q)) /\ \A j \in DOMAIN Tail(q) : n < Tail(q)[j]
    BY <1>3, <1>4, IncreasingTail DEF n, q
  <1>8. Before(s, Tail(q))
    <2>1. /\ Len(Tail(q)) = Len(q) - 1 /\ Len(q) \in Nat /\ Tail(q) \in Seq(Nat)
          /\ \A i \in 1 .. Len(Tail(q)) : Tail(q)[i] = q[i + 1]
      BY <1>3, TailFacts
    <2>2. DOMAIN Tail(q) = 1 .. Len(Tail(q)) /\ DOMAIN q = 1 .. Len(q)
      BY <1>3, <2>1
    <2>3. \A i \in 1 .. Len(Tail(q)) : i + 1 \in 1 .. Len(q)
      BY <2>1
    <2> QED BY <1>4, <2>1, <2>2, <2>3 DEF Before
  <1>9. /\ Increasing(Append(s, n)) /\ Before(Append(s, n), Tail(q))
        /\ \A i \in DOMAIN Append(s, n) : (i \in DOMAIN s /\ Append(s, n)[i] = s[i])
                                          \/ Append(s, n)[i] = n
    <2>1. \A i \in DOMAIN s : s[i] < n
      BY <1>4, <1>6 DEF Before
    <2>2. Increasing(Append(s, n))
      BY <1>3, <1>4, <2>1, IncreasingAppend
    <2>3. /\ DOMAIN s = 1 .. Len(s) /\ DOMAIN Append(s, n) = 1 .. (Len(s) + 1)
          /\ Len(s) \in Nat
      BY <1>3
    <2>4. /\ \A i \in 1 .. Len(s) : Append(s, n)[i] = s[i]
          /\ Append(s, n)[Len(s) + 1] = n
      BY <1>3, AppendFacts
    <2>5. \A i \in 1 .. (Len(s) + 1) : i \in 1 .. Len(s) \/ i = Len(s) + 1
      BY <2>3
    <2>6. \A i \in DOMAIN Append(s, n) : (i \in DOMAIN s /\ Append(s, n)[i] = s[i])
                                         \/ Append(s, n)[i] = n
      BY <2>3, <2>4, <2>5
    <2> QED BY <1>7, <1>8, <2>2, <2>6 DEF Before
  <1>10. InOrder'
    <2>1. ASSUME NEW k \in Channel
          PROVE  /\ Increasing(sent'[k]) /\ Increasing(queue'[k])
                 /\ Before(sent'[k], queue'[k])
      <3>1. CASE k = ch
        BY <1>2, <1>4, <1>7, <1>8, <1>9, <3>1
      <3>2. CASE k # ch
        BY <1>2, <3>2 DEF OrderInv, InOrder
      <3> QED BY <3>1, <3>2
    <2> QED BY <2>1 DEF InOrder
  <1>11. SentInChat'
    <2>1. ASSUME NEW k \in Channel
          PROVE  /\ phase'[k] = "connected" =>
                      \A i \in DOMAIN sent'[k] : log[sent'[k][i]].chat = chat_id[k]
                 /\ phase'[k] = "unused" => sent'[k] = << >>
      <3>1. CASE k = ch
        <4>1. \A i \in DOMAIN s : log[s[i]].chat = chat_id[ch]
          BY <1>2 DEF OrderInv, SentInChat, s
        <4>2. phase'[ch] # "unused"
          BY <1>2
        <4>3. \A i \in DOMAIN sent'[ch] : log[sent'[ch][i]].chat = chat_id[ch]
          BY <1>2, <1>5, <1>9, <4>1
        <4> QED BY <3>1, <4>2, <4>3
      <3>2. CASE k # ch
        BY <1>2, <3>2 DEF OrderInv, SentInChat
      <3> QED BY <3>1, <3>2
    <2> QED BY <1>1, <2>1 DEF SentInChat
  <1> QED BY <1>10, <1>11 DEF OrderInv

\* No other step lengthens what was sent or what waits.
LEMMA OrderStep == ChatInv /\ OrderInv /\ [Next]_vars => OrderInv'
PROOF
  <1> SUFFICES ASSUME ChatInv, OrderInv, [Next]_vars PROVE OrderInv'
    OBVIOUS
  <1> USE DEF tables, consumers, layer
  <1>1. ASSUME NEW ch \in Channel, NEW user \in User, NEW c \in Chat, Connect(ch, user, c)
        PROVE  OrderInv'
    <2>1. /\ UNCHANGED <<queue, sent, log>>
          /\ sent[ch] = << >>
          /\ phase'[ch] = "connected"
          /\ \A k \in Channel \ {ch} : phase'[k] = phase[k] /\ chat_id'[k] = chat_id[k]
      BY <1>1 DEF Connect, OrderInv, SentInChat, ChatInv, TypeInv, TypeOK
    <2>2. DOMAIN << >> = {}
      OBVIOUS
    <2> QED BY <2>1, <2>2 DEF OrderInv, InOrder, SentInChat
  <1>2. ASSUME NEW ch \in Channel, Disconnect(ch) \/ \E c \in Chat : RefuseConnect(ch, c)
        PROVE  OrderInv'
    <2>1. /\ UNCHANGED <<sent, log>>
          /\ phase'[ch] \in {"closed", "failed"}
          /\ queue'[ch] \in {queue[ch], << >>}
          /\ \A k \in Channel \ {ch} :
               phase'[k] = phase[k] /\ chat_id'[k] = chat_id[k] /\ queue'[k] = queue[k]
      BY <1>2 DEF Disconnect, RefuseConnect, ChatInv, TypeInv, TypeOK
    <2>2. DOMAIN << >> = {}
      OBVIOUS
    <2>3. InOrder'
      BY <2>1, <2>2 DEF OrderInv, InOrder, Increasing, Before
    <2>4. SentInChat'
      BY <2>1 DEF OrderInv, SentInChat
    <2> QED BY <2>3, <2>4 DEF OrderInv
  <1>3. CASE ServerStop
    <2>1. /\ UNCHANGED <<chat_id, queue, sent, log>>
          /\ \A k \in Channel : phase'[k] \in {phase[k], "failed"}
      BY <1>3 DEF ServerStop
    <2> QED BY <2>1 DEF OrderInv, InOrder, SentInChat
  <1>4. CASE UNCHANGED <<phase, chat_id, queue, sent, log>>
    BY <1>4 DEF OrderInv, InOrder, SentInChat
  <1> QED
    BY <1>1, <1>2, <1>3, <1>4, OrderReceive, OrderHandled
    DEF Next, Sockets, Administration, AdminCreateChat,
        AdminDeleteChat, AdminAddParticipant, AdminRemoveParticipant,
        AdminDeleteMessage, vars

\* Nothing is sent or waits at first.
LEMMA OrderInit == Init => OrderInv
PROOF
  <1>1. DOMAIN << >> = {}
    OBVIOUS
  <1> QED BY <1>1 DEF Init, OrderInv, InOrder, SentInChat, Increasing, Before

\* Together with what ChatInv says of groups and queues.
LEMMA OrderInvariant == Spec => [](ChatInv /\ OrderInv)
  BY OrderInit, OrderStep, ChatInvariant, PTL DEF Spec

\* What a consumer has sent, followed by what waits in its queue, is in order
\* and of its chat.
LEMMA OrderedIsHandledInOrder == ChatInv /\ OrderInv => HandledInOrder
PROOF
  <1> SUFFICES ASSUME ChatInv, OrderInv, NEW ch \in Channel
               PROVE  LET seen == sent[ch] \o queue[ch]
                      IN  /\ \A i, j \in DOMAIN seen : i < j => seen[i] < seen[j]
                          /\ phase[ch] = "connected" =>
                               \A i \in DOMAIN seen : log[seen[i]].chat = chat_id[ch]
    BY DEF HandledInOrder
  <1> DEFINE s == sent[ch]
             q == queue[ch]
             seen == s \o q
             m == Len(s)
  <1>1. s \in Seq(Nat) /\ q \in Seq(Nat)
    BY QueueFacts DEF ChatInv
  <1>2. Increasing(s) /\ Increasing(q) /\ Before(s, q)
    BY DEF OrderInv, InOrder
  <1>3. phase[ch] = "connected" =>
          /\ \A i \in DOMAIN s : log[s[i]].chat = chat_id[ch]
          /\ \A i \in DOMAIN q : log[q[i]].chat = chat_id[ch]
    <2>1. \A i \in DOMAIN q : q[i] \in Range(q)
      BY DEF Range
    <2> QED BY <2>1 DEF OrderInv, SentInChat, ChatInv, QueuedInChat
  <1> HIDE DEF s, q
  <1>4. /\ DOMAIN s = 1 .. m /\ DOMAIN q = 1 .. Len(q) /\ m \in Nat /\ Len(q) \in Nat
        /\ DOMAIN seen = 1 .. (m + Len(q))
        /\ \A i \in 1 .. m : seen[i] = s[i]
        /\ \A i \in (m + 1) .. (m + Len(q)) : seen[i] = q[i - m]
    BY <1>1
  <1> HIDE DEF seen, m
  <1>5. \A i \in DOMAIN seen :
          \/ i \in DOMAIN s /\ seen[i] = s[i]
          \/ i > m /\ i - m \in DOMAIN q /\ seen[i] = q[i - m]
    BY <1>4
  <1>6. ASSUME NEW i \in DOMAIN seen, NEW j \in DOMAIN seen, i < j
        PROVE  seen[i] < seen[j]
    <2>1. i \in Nat /\ j \in Nat
      BY <1>4
    <2>2. CASE j \in DOMAIN s
      <3>1. i \in DOMAIN s /\ seen[i] = s[i] /\ seen[j] = s[j]
        BY <1>4, <1>6, <2>1, <2>2
      <3> QED BY <1>2, <1>6, <2>2, <3>1 DEF Increasing
    <2>3. CASE i \in DOMAIN s /\ j > m
      <3>1. seen[i] = s[i] /\ j - m \in DOMAIN q /\ seen[j] = q[j - m]
        BY <1>4, <1>5, <2>3
      <3> QED BY <1>2, <2>3, <3>1 DEF Before
    <2>4. CASE i > m
      <3>1. /\ i - m \in DOMAIN q /\ seen[i] = q[i - m]
            /\ j - m \in DOMAIN q /\ seen[j] = q[j - m]
            /\ i - m < j - m
        BY <1>4, <1>6, <2>1, <2>4
      <3> QED BY <1>2, <3>1 DEF Increasing
    <2> QED BY <1>4, <1>5, <1>6, <2>1, <2>2, <2>3, <2>4
  <1> QED BY <1>3, <1>5, <1>6 DEF seen, s, q

\* A client is sent the events of its chat in the order of their publication
\* and none twice, and what waits comes later (receive, group_send, forwarding,
\* and every way a consumer or an event can get lost).
THEOREM DeliveredInOrder == Spec => []HandledInOrder
BY OrderInvariant, OrderedIsHandledInOrder, PTL

----------------------------------------------------------------------------
(* What a consumer has sent, and what the log says of identifiers.         *)

\* What waits for a consumer or was sent by it was published since it joined,
\* and what was sent is of other users.
SinceJoined ==
  \A ch \in Channel :
    /\ \A n \in Range(queue[ch]) : n > joinedAt[ch]
    /\ \A n \in Range(sent[ch]) : n > joinedAt[ch] /\ log[n].user # scope_user[ch]

\* No two new messages have one identifier.
NewOnce ==
  \A m, n \in DOMAIN log :
    (/\ IsNew(log[m].payload) /\ IsNew(log[n].payload)
     /\ log[m].payload.id = log[n].payload.id) => m = n

\* An edit or a deletion names a message that somebody has sent.
NamesKnown ==
  \A n \in DOMAIN log :
    IsEdit(log[n].payload) \/ IsDelete(log[n].payload) => log[n].payload.id \in Known

SentInv == SinceJoined /\ NewOnce /\ NamesKnown

\* A websocket that was opened once keeps its user, the moment it joined and,
\* while it is connected, its chat; one event at a time is sent.
LEMMA ChannelStep ==
  ASSUME TypeInv, [Next]_vars, NEW ch \in Channel, phase[ch] # "unused"
  PROVE  /\ phase'[ch] # "unused"
         /\ scope_user'[ch] = scope_user[ch]
         /\ joinedAt'[ch] = joinedAt[ch]
         /\ phase'[ch] = "connected" => phase[ch] = "connected" /\ chat_id'[ch] = chat_id[ch]
         /\ \/ sent'[ch] = sent[ch]
            \/ /\ Pending(ch) /\ ~OwnEvent(ch) /\ log' = log
               /\ sent'[ch] = Append(sent[ch], Head(queue[ch]))
PROOF
  <1> USE DEF tables, consumers, layer
  <1>0. /\ phase \in [Channel -> {"unused", "connected", "closed", "failed"}]
        /\ DOMAIN scope_user = Channel /\ DOMAIN chat_id = Channel
        /\ DOMAIN joinedAt = Channel /\ DOMAIN sent = Channel
    BY DEF TypeInv, TypeOK
  <1>1. ASSUME NEW k \in Channel, NEW user \in User, NEW c \in Chat, Connect(k, user, c)
        PROVE  /\ UNCHANGED <<phase[ch], scope_user[ch], joinedAt[ch], chat_id[ch], sent[ch]>>
    BY <1>0, <1>1 DEF Connect
  <1>2. ASSUME NEW k \in Channel, Disconnect(k) \/ \E c \in Chat : RefuseConnect(k, c)
        PROVE  /\ UNCHANGED <<scope_user[ch], joinedAt[ch], sent[ch]>>
               /\ \/ UNCHANGED <<phase[ch], chat_id[ch]>>
                  \/ phase'[ch] \in {"closed", "failed"}
    BY <1>0, <1>2 DEF Disconnect, RefuseConnect
  <1>3. CASE ServerStop
    BY <1>0, <1>3 DEF ServerStop
  <1>4. ASSUME NEW k \in Channel, OnHandleMessageEvent(k)
        PROVE  /\ UNCHANGED <<scope_user[ch], joinedAt[ch], chat_id[ch], log>>
               /\ \/ UNCHANGED phase[ch]
                  \/ phase'[ch] = "failed"
               /\ \/ sent'[ch] = sent[ch]
                  \/ /\ Pending(ch) /\ ~OwnEvent(ch)
                     /\ sent'[ch] = Append(sent[ch], Head(queue[ch]))
    BY <1>0, <1>4 DEF OnHandleMessageEvent, ProcessOwnEvent, FailOwnEvent, ForwardEvent
  <1>5. ASSUME NEW k \in Channel, NEW payload \in Payload, Receive(k, payload)
        PROVE  UNCHANGED <<phase, scope_user, joinedAt, chat_id, sent>>
    BY <1>5 DEF Receive
  <1>6. ASSUME Administration \/ UNCHANGED vars
        PROVE  UNCHANGED <<phase, scope_user, joinedAt, chat_id, sent>>
    BY <1>6 DEF Administration, AdminCreateChat, AdminDeleteChat, AdminAddParticipant,
                AdminRemoveParticipant, AdminDeleteMessage, vars
  <1> QED
    BY <1>0, <1>1, <1>2, <1>3, <1>4, <1>5, <1>6 DEF Next, Sockets

\* A queue gains no event but the one that is published, and an unused
\* websocket has no queue.
LEMMA QueueStep ==
  ASSUME ChatInv, [Next]_vars, NEW ch \in Channel
  PROVE  /\ Range(queue'[ch]) \subseteq Range(queue[ch]) \cup {Len(log) + 1}
         /\ phase[ch] = "unused" => queue'[ch] = << >>
PROOF
  <1> USE DEF tables, consumers, layer
  <1>1. /\ queue[ch] \in Seq(1 .. Len(log)) /\ DOMAIN queue = Channel /\ Len(log) \in Nat
        /\ queue[ch] \in Seq(Nat)
    BY QueueFacts DEF ChatInv, TypeInv, TypeOK
  <1>2. phase[ch] = "unused" => queue[ch] = << >> /\ \A c \in Chat : ch \notin group[c]
    BY DEF ChatInv, QueuedInChat, Subscribed
  <1>3. CASE UNCHANGED queue
    BY <1>2, <1>3
  <1>4. ASSUME NEW k \in Channel, Disconnect(k) PROVE queue'[ch] \in {queue[ch], << >>}
    BY <1>1, <1>4 DEF Disconnect
  <1>5. ASSUME NEW k \in Channel, OnHandleMessageEvent(k)
        PROVE  /\ queue'[ch] = queue[ch] \/ (queue[ch] # << >> /\ queue'[ch] = Tail(queue[ch]))
    BY <1>1, <1>5 DEF OnHandleMessageEvent, ProcessOwnEvent, FailOwnEvent, ForwardEvent, Pending
  <1>6. Range(<< >>) = {} /\ (queue[ch] # << >> => Range(Tail(queue[ch])) \subseteq Range(queue[ch]))
    BY <1>1, RangeFacts DEF Range
  <1>7. ASSUME NEW k \in Channel, NEW payload \in Payload, Receive(k, payload)
        PROVE  /\ Range(queue'[ch]) \subseteq Range(queue[ch]) \cup {Len(log) + 1}
               /\ phase[ch] = "unused" => queue'[ch] = << >>
    <2>1. chat_id[k] \in Chat /\ GroupSend(chat_id[k], Len(log) + 1) /\ Len(log) + 1 \in Nat
      <3>1. TypeInv
        BY DEF ChatInv
      <3>2. chat_id[k] \in Chat /\ GroupSend(chat_id[k], Len(log) + 1)
        BY <1>7, <3>1, ReceiveLog
      <3>3. Len(log) + 1 \in Nat
        BY <1>1
      <3> QED
        BY <3>2, <3>3
    <2>2. \/ queue'[ch] = queue[ch]
          \/ queue'[ch] = Append(queue[ch], Len(log) + 1) /\ ch \in group[chat_id[k]]
          \/ /\ queue[ch] # << >> /\ queue'[ch] = Append(Tail(queue[ch]), Len(log) + 1)
             /\ ch \in group[chat_id[k]]
      BY <2>1, GroupSendCases DEF ChatInv, TypeInv
    <2>3. /\ Range(Append(queue[ch], Len(log) + 1)) = Range(queue[ch]) \cup {Len(log) + 1}
          /\ queue[ch] # << >> =>
               Range(Append(Tail(queue[ch]), Len(log) + 1)) = Range(Tail(queue[ch])) \cup {Len(log) + 1}
      <3> DEFINE q == queue[ch]
                 n == Len(log) + 1
      <3>1. q \in Seq(Nat) /\ n \in Nat
        BY <1>1, <2>1
      <3>2. q # << >> => Tail(q) \in Seq(Nat)
        BY <3>1, TailFacts
      <3> HIDE DEF q, n
      <3>3. Range(Append(q, n)) = Range(q) \cup {n}
        BY <3>1, RangeAppend
      <3>4. \A r \in Seq(Nat) : Range(Append(r, n)) = Range(r) \cup {n}
        BY <3>1, RangeAppend
      <3> QED
        BY <3>2, <3>3, <3>4 DEF q, n
    <2> QED
      BY <1>2, <1>6, <2>1, <2>2, <2>3
  <1>8. CASE ServerStop \/ Administration \/ UNCHANGED vars
    BY <1>3, <1>8 DEF ServerStop, Administration, AdminCreateChat, AdminDeleteChat,
         AdminAddParticipant, AdminRemoveParticipant, AdminDeleteMessage, vars
  <1>9. ASSUME NEW k \in Channel, NEW user, NEW c,
               Connect(k, user, c) \/ RefuseConnect(k, c)
        PROVE  UNCHANGED queue
    BY <1>9 DEF Connect, RefuseConnect
  <1>10. ASSUME NEW k \in Channel, Disconnect(k) \/ OnHandleMessageEvent(k), phase[ch] = "unused"
         PROVE  queue'[ch] = << >>
    BY <1>2, <1>4, <1>5, <1>10
  <1> QED
    BY <1>3, <1>4, <1>5, <1>6, <1>7, <1>8, <1>9, <1>10 DEF Next, Sockets

\* Publication is the only step that changes the log.
LEMMA LogStep ==
  ASSUME TypeInv, [Next]_vars
  PROVE  \/ log' = log
         \/ \E ch \in Channel, payload \in Payload : Receive(ch, payload)
  BY DEF Next, Sockets, OnHandleMessageEvent, ProcessOwnEvent, FailOwnEvent, ForwardEvent,
         Administration, AdminCreateChat, AdminDeleteChat, AdminAddParticipant,
         AdminRemoveParticipant, AdminDeleteMessage, Connect, RefuseConnect, Disconnect,
         ServerStop, vars, tables, consumers, layer

\* SinceJoined is preserved: a consumer joins with nothing queued or sent, and
\* forwards events of others only.
LEMMA SinceJoinedStep ==
  ASSUME ChatInv, OrderInv, SinceJoined, [Next]_vars
  PROVE  SinceJoined'
PROOF
  <1>1. ASSUME NEW ch \in Channel
        PROVE  /\ \A n \in Range(queue'[ch]) : n > joinedAt'[ch]
               /\ \A n \in Range(sent'[ch]) : n > joinedAt'[ch] /\ log'[n].user # scope_user'[ch]
    <2>1. /\ queue[ch] \in Seq(1 .. Len(log)) /\ sent[ch] \in Seq(1 .. Len(log))
          /\ Len(log) \in Nat /\ joinedAt[ch] \in 0 .. Len(log) /\ DOMAIN log = 1 .. Len(log)
      BY QueueFacts DEF ChatInv, TypeInv, TypeOK
    <2>2. Range(<< >>) = {}
      BY DEF Range
    <2>3. CASE phase[ch] = "unused"
      <3>1. queue'[ch] = << >>
        BY <2>3, QueueStep
      <3>2. sent'[ch] = << >>
        <4>1. sent[ch] = << >>
          BY <2>3 DEF OrderInv, SentInChat
        <4>2. UNCHANGED sent[ch]
          <5>1. \A k \in Channel : ForwardEvent(k) => sent'[ch] = sent[ch]
            BY <2>3 DEF ForwardEvent, Pending, ChatInv, TypeInv, TypeOK
          <5> QED
            BY <5>1 DEF Next, Sockets, OnHandleMessageEvent, ProcessOwnEvent, FailOwnEvent,
                 Administration, AdminCreateChat, AdminDeleteChat, AdminAddParticipant,
                 AdminRemoveParticipant, AdminDeleteMessage, Connect, RefuseConnect, Disconnect,
                 ServerStop, Receive, vars, tables, consumers, layer
        <4> QED
          BY <4>1, <4>2
      <3> QED
        BY <2>2, <3>1, <3>2
    <2>4. CASE phase[ch] # "unused"
      <3>1. /\ scope_user'[ch] = scope_user[ch] /\ joinedAt'[ch] = joinedAt[ch]
            /\ \/ sent'[ch] = sent[ch]
               \/ /\ Pending(ch) /\ ~OwnEvent(ch)
                  /\ sent'[ch] = Append(sent[ch], Head(queue[ch]))
        BY <2>4, ChannelStep DEF ChatInv
      <3>2. \A n \in Range(queue'[ch]) : n > joinedAt'[ch]
        <4>1. Len(log) + 1 > joinedAt[ch]
          BY <2>1
        <4>2. Range(queue'[ch]) \subseteq Range(queue[ch]) \cup {Len(log) + 1}
          BY QueueStep
        <4> QED
          BY <3>1, <4>1, <4>2 DEF SinceJoined
      <3>3. \A n \in 1 .. Len(log) : log'[n] = log[n]
        BY <2>1, LogGrows DEF ChatInv
      <3>4. \A n \in Range(sent[ch]) :
              n \in 1 .. Len(log) /\ n > joinedAt[ch] /\ log[n].user # scope_user[ch]
        BY <2>1, RangeFacts DEF SinceJoined
      <3>5. CASE sent'[ch] = sent[ch]
        BY <3>1, <3>2, <3>3, <3>4, <3>5
      <3>6. CASE /\ Pending(ch) /\ ~OwnEvent(ch)
                 /\ sent'[ch] = Append(sent[ch], Head(queue[ch]))
        <4>1. Head(queue[ch]) \in Range(queue[ch]) /\ Head(queue[ch]) \in 1 .. Len(log)
          BY <2>1, <3>6, RangeFacts, TailFacts DEF Pending
        <4>2. Range(sent'[ch]) = Range(sent[ch]) \cup {Head(queue[ch])}
          BY <2>1, <3>6, <4>1, RangeFacts
        <4>3. Head(queue[ch]) > joinedAt[ch] /\ log[Head(queue[ch])].user # scope_user[ch]
          BY <3>6, <4>1 DEF SinceJoined, OwnEvent
        <4> QED
          BY <3>1, <3>2, <3>3, <3>4, <4>1, <4>2, <4>3
      <3> QED
        BY <3>1, <3>5, <3>6
    <2> QED
      BY <2>3, <2>4
  <1> QED
    BY <1>1 DEF SinceJoined

\* The guards of receive on identifiers, for the whole log.
LEMMA NamesStep ==
  ASSUME TypeInv, NewOnce, NamesKnown, [Next]_vars
  PROVE  NewOnce' /\ NamesKnown'
PROOF
  <1>1. CASE log' = log
    BY <1>1 DEF NewOnce, NamesKnown, Known
  <1>2. ASSUME NEW ch \in Channel, NEW payload \in Payload, Receive(ch, payload)
        PROVE  NewOnce' /\ NamesKnown'
    <2> DEFINE n == Len(log) + 1
    <2>1. /\ Len(log) \in Nat /\ DOMAIN log = 1 .. Len(log) /\ DOMAIN log' = 1 .. n
          /\ \A m \in 1 .. Len(log) : log'[m] = log[m]
          /\ log'[n].payload = payload
      <3>1. /\ Len(log) \in Nat /\ Len(log') = Len(log) + 1
            /\ \A m \in 1 .. Len(log) : log'[m] = log[m]
            /\ log'[Len(log) + 1] = [chat |-> chat_id[ch], user |-> scope_user[ch],
                                     payload |-> payload, channel |-> ch]
        BY <1>2, ReceiveLog
      <3>2. DOMAIN log = 1 .. Len(log) /\ DOMAIN log' = 1 .. Len(log')
        BY TypeStep DEF TypeInv, TypeOK
      <3> QED
        BY <3>1, <3>2
    <2>2. /\ IsNew(payload) => payload.id \notin Known
          /\ IsEdit(payload) \/ IsDelete(payload) => payload.id \in Known
      BY <1>2 DEF Receive
    <2>3. \A m \in DOMAIN log' : m \in 1 .. Len(log) \/ m = n
      BY <2>1
    <2> HIDE DEF n
    <2>4. \A m \in 1 .. Len(log) : IsNew(log[m].payload) => log[m].payload.id \in Known
      BY <2>1 DEF Known
    <2>5. Known \subseteq Known'
      <3>1. 1 .. Len(log) \subseteq DOMAIN log'
        BY <2>1 DEF n
      <3> QED
        BY <2>1, <3>1 DEF Known
    <2>6. NewOnce'
      BY <2>1, <2>2, <2>3, <2>4 DEF NewOnce
    <2>7. NamesKnown'
      BY <2>1, <2>2, <2>3, <2>5 DEF NamesKnown
    <2> QED
      BY <2>6, <2>7
  <1> QED
    BY <1>1, <1>2, LogStep

\* All of it is inductive, and holds at first.
LEMMA SentStep == ChatInv /\ OrderInv /\ SentInv /\ [Next]_vars => SentInv'
  BY SinceJoinedStep, NamesStep DEF SentInv, ChatInv

\* Nothing has been sent yet.
LEMMA SentInit == Init => SentInv
PROOF
  <1>1. DOMAIN << >> = {} /\ Range(<< >>) = {}
    BY DEF Range
  <1> QED BY <1>1 DEF Init, SentInv, SinceJoined, NewOnce, NamesKnown

----------------------------------------------------------------------------
(* When no user is connected twice to a chat.                              *)

\* A's and B's events are of one user in one chat.
SameSource(a, b) == log[a].user = log[b].user /\ log[a].chat = log[b].chat

\* What is carried out for a connected user in its chat comes before all that
\* waits in the queue of the user's consumer.
Ahead ==
  \A ch \in Channel : phase[ch] = "connected" =>
    \A i \in DOMAIN processed, j \in DOMAIN queue[ch] :
      (/\ log[processed[i]].user = scope_user[ch]
       /\ log[processed[i]].chat = chat_id[ch])
      => processed[i] < queue[ch][j]

\* No row is there whose event was not carried out.
Made(id) ==
  \E i \in DOMAIN processed :
    IsNew(log[processed[i]].payload) /\ log[processed[i]].payload.id = id

StoredWasMade == \A id \in MessageId : Stored(id) => Made(id)

AloneInv == ProcessedInOrder /\ Ahead /\ NewOnce /\ StoredWasMade

\* The state all steps of this part start from.
Alone == ChatInv /\ OrderInv /\ OneConnectionEach

\* What processed and log are sequences of.
LEMMA ProcessedFacts ==
  ASSUME TypeInv
  PROVE  /\ Len(log) \in Nat /\ DOMAIN log = 1 .. Len(log)
         /\ processed \in Seq(1 .. Len(log)) /\ Len(processed) \in Nat
         /\ DOMAIN processed = 1 .. Len(processed)
         /\ \A i \in DOMAIN processed : processed[i] \in 1 .. Len(log)
         /\ \A n \in DOMAIN log : log[n] \in Event
  BY DEF TypeInv, TypeOK

\* What the invariants say is not touched by a publication's new element.
LEMMA AloneReceive ==
  ASSUME Alone, AloneInv, NEW ch \in Channel, NEW payload \in Payload, Receive(ch, payload)
  PROVE  AloneInv'
PROOF
  <1> DEFINE n == Len(log) + 1
  <1>1. /\ Len(log) \in Nat /\ n \in Nat /\ chat_id[ch] \in Chat
        /\ DOMAIN log = 1 .. Len(log) /\ DOMAIN log' = 1 .. n
        /\ \A m \in 1 .. Len(log) : log'[m] = log[m]
        /\ log'[n].payload = payload
        /\ GroupSend(chat_id[ch], n)
    <2>1. /\ Len(log) \in Nat /\ Len(log') = Len(log) + 1 /\ chat_id[ch] \in Chat
          /\ \A m \in 1 .. Len(log) : log'[m] = log[m]
          /\ log'[Len(log) + 1] = [chat |-> chat_id[ch], user |-> scope_user[ch],
                                   payload |-> payload, channel |-> ch]
          /\ GroupSend(chat_id[ch], Len(log) + 1)
      BY ReceiveLog DEF Alone, ChatInv
    <2>2. TypeInv /\ TypeInv'
      BY TypeStep DEF Alone, ChatInv, Next
    <2>3. DOMAIN log = 1 .. Len(log) /\ DOMAIN log' = 1 .. Len(log')
      BY <2>2 DEF TypeInv, TypeOK
    <2> QED BY <2>1, <2>3
  <1>2. /\ UNCHANGED <<messages, phase, scope_user, chat_id, processed>>
        /\ IsNew(payload) => payload.id \notin Known
    BY DEF Receive, consumers, tables
  <1>3. /\ \A i \in DOMAIN processed : processed[i] \in 1 .. Len(log)
        /\ \A i \in DOMAIN processed : log'[processed[i]] = log[processed[i]]
        /\ \A i \in DOMAIN processed : processed[i] < n
    BY <1>1, ProcessedFacts DEF Alone, ChatInv
  <1> HIDE DEF n
  <1>4. ProcessedInOrder'
    BY <1>2, <1>3 DEF AloneInv, ProcessedInOrder
  <1>5. Ahead'
    <2> SUFFICES ASSUME NEW k \in Channel, phase[k] = "connected",
                        NEW i \in DOMAIN processed, NEW j \in DOMAIN queue'[k],
                        log[processed[i]].user = scope_user[k],
                        log[processed[i]].chat = chat_id[k]
                 PROVE  processed[i] < queue'[k][j]
      BY <1>2, <1>3 DEF Ahead
    <2> DEFINE q == queue[k]
    <2>1. q \in Seq(Nat) /\ \A m \in DOMAIN q : processed[i] < q[m]
      BY QueueFacts DEF Alone, ChatInv, AloneInv, Ahead
    <2>2. processed[i] < n
      BY <1>3
    <2> HIDE DEF q
    <2>3. ASSUME NEW t \in Seq(Nat), \A m \in DOMAIN t : processed[i] < t[m],
                 queue'[k] = Append(t, n)
          PROVE  processed[i] < queue'[k][j]
      <3>1. /\ DOMAIN t = 1 .. Len(t) /\ DOMAIN Append(t, n) = 1 .. (Len(t) + 1)
            /\ Len(t) \in Nat
        BY <2>3
      <3>2. /\ \A m \in 1 .. Len(t) : Append(t, n)[m] = t[m]
            /\ Append(t, n)[Len(t) + 1] = n
        BY <1>1, AppendFacts
      <3>3. j \in 1 .. Len(t) \/ j = Len(t) + 1
        BY <2>3, <3>1
      <3> QED BY <2>2, <2>3, <3>1, <3>2, <3>3
    <2>4. CASE queue'[k] = q
      BY <2>1, <2>4
    <2>5. CASE queue'[k] = Append(q, n)
      BY <2>1, <2>3, <2>5
    <2>6. CASE q # << >> /\ queue'[k] = Append(Tail(q), n)
      <3>1. /\ Tail(q) \in Seq(Nat) /\ Len(Tail(q)) = Len(q) - 1 /\ Len(q) \in Nat
            /\ \A m \in 1 .. Len(Tail(q)) : Tail(q)[m] = q[m + 1]
        BY <2>1, <2>6, TailFacts
      <3>2. /\ DOMAIN q = 1 .. Len(q) /\ DOMAIN Tail(q) = 1 .. Len(Tail(q))
            /\ \A m \in 1 .. Len(Tail(q)) : m + 1 \in 1 .. Len(q)
        BY <2>1, <3>1
      <3>3. \A m \in DOMAIN Tail(q) : processed[i] < Tail(q)[m]
        BY <2>1, <3>1, <3>2
      <3> QED BY <2>3, <2>6, <3>1, <3>3
    <2> QED BY <1>1, <2>4, <2>5, <2>6, GroupSendCases DEF q, Alone, ChatInv, TypeInv
  <1>6. NewOnce'
    <2>1. ASSUME NEW m \in 1 .. Len(log), IsNew(log[m].payload), IsNew(payload)
          PROVE  log[m].payload.id # payload.id
      BY <1>1, <1>2, <2>1 DEF Known
    <2>2. \A m \in DOMAIN log' : m \in 1 .. Len(log) \/ m = n
      BY <1>1 DEF n
    <2> QED BY <1>1, <2>1, <2>2 DEF NewOnce, AloneInv
  <1>7. StoredWasMade'
    BY <1>2, <1>3 DEF AloneInv, StoredWasMade, Stored, Made
  <1> QED BY <1>4, <1>5, <1>6, <1>7 DEF AloneInv

\* The first event in the queue of a connected consumer whose user published
\* it: it is not carried out yet, nothing of its source that is comes after it,
\* and no row has the identifier it makes.
LEMMA OwnHead ==
  ASSUME Alone, AloneInv, NEW ch \in Channel, phase[ch] = "connected",
         NEW j \in DOMAIN queue[ch], log[queue[ch][j]].user = scope_user[ch]
  PROVE  /\ queue[ch][j] \in 1 .. Len(log)
         /\ log[queue[ch][j]].chat = chat_id[ch]
         /\ \A i \in DOMAIN processed :
              SameSource(processed[i], queue[ch][j]) => processed[i] < queue[ch][j]
         /\ \A i \in DOMAIN processed : processed[i] # queue[ch][j]
         /\ \A id \in MessageId :
              (IsNew(log[queue[ch][j]].payload) /\ log[queue[ch][j]].payload.id = id)
                => ~Made(id)
PROOF
  <1> DEFINE n == queue[ch][j]
  <1>1. n \in 1 .. Len(log) /\ Len(log) \in Nat /\ DOMAIN log = 1 .. Len(log)
    BY QueueFacts, ProcessedFacts DEF Alone, ChatInv
  <1>2. log[n].chat = chat_id[ch]
    <2>1. n \in Range(queue[ch])
      BY DEF Range
    <2> QED BY <2>1 DEF Alone, ChatInv, QueuedInChat
  <1>3. \A i \in DOMAIN processed : SameSource(processed[i], n) => processed[i] < n
    BY <1>2 DEF AloneInv, Ahead, SameSource
  <1>4. \A i \in DOMAIN processed : processed[i] # n /\ processed[i] \in DOMAIN log
    <2>1. \A i \in DOMAIN processed : processed[i] \in 1 .. Len(log)
      BY ProcessedFacts DEF Alone, ChatInv
    <2>2. SameSource(n, n)
      BY DEF SameSource
    <2> QED BY <1>1, <1>3, <2>1, <2>2
  <1>5. ASSUME NEW id \in MessageId, IsNew(log[n].payload), log[n].payload.id = id, Made(id)
        PROVE  FALSE
    <2>1. PICK i \in DOMAIN processed :
            IsNew(log[processed[i]].payload) /\ log[processed[i]].payload.id = id
      BY <1>5 DEF Made
    <2>2. processed[i] = n
      BY <1>1, <1>4, <1>5, <2>1 DEF AloneInv, NewOnce
    <2> QED BY <1>4, <2>2
  <1> QED BY <1>1, <1>2, <1>3, <1>4, <1>5

\* Carrying out the first event: it comes after what was carried out of its
\* source and before what waits, and no other consumer has its source.
LEMMA AloneProcess ==
  ASSUME Alone, AloneInv, NEW ch \in Channel, ProcessOwnEvent(ch)
  PROVE  AloneInv'
PROOF
  <1> DEFINE q == queue[ch]
             n == Head(queue[ch])
             m == Len(processed)
  <1>1. /\ phase[ch] = "connected" /\ q # << >> /\ log[n].user = scope_user[ch]
        /\ processed' = Append(processed, n)
        /\ queue' = [queue EXCEPT ![ch] = Tail(@)]
        /\ Allowed(chat_id[ch], scope_user[ch], log[n].payload)
        /\ messages' = Processing(chat_id[ch], scope_user[ch], log[n].payload)
        /\ UNCHANGED <<phase, scope_user, chat_id, log>>
    BY DEF ProcessOwnEvent, Pending, OwnEvent, consumers
  <1>2. q \in Seq(Nat) /\ n = q[1] /\ 1 \in DOMAIN q /\ n \in Nat
    <2>1. q \in Seq(Nat) /\ q # << >>
      BY <1>1, QueueFacts DEF Alone, ChatInv
    <2> QED BY <2>1, TailFacts
  <1>3. /\ log[n].chat = chat_id[ch]
        /\ \A i \in DOMAIN processed : SameSource(processed[i], n) => processed[i] < n
    BY <1>1, <1>2, OwnHead
  <1>4. /\ queue'[ch] = Tail(q)
        /\ \A k \in Channel \ {ch} : queue'[k] = queue[k]
    BY <1>1 DEF Alone, ChatInv, TypeInv, TypeOK
  <1>5. \A j \in DOMAIN Tail(q) : n < Tail(q)[j]
    <2>1. Increasing(q)
      BY DEF Alone, OrderInv, InOrder
    <2> QED BY <1>1, <1>2, <2>1, IncreasingTail
  <1>6. \A j \in DOMAIN Tail(q) : \E i \in DOMAIN q : Tail(q)[j] = q[i]
    <2>1. /\ Tail(q) \in Seq(Nat) /\ Len(Tail(q)) = Len(q) - 1 /\ Len(q) \in Nat
          /\ \A j \in 1 .. Len(Tail(q)) : Tail(q)[j] = q[j + 1]
      BY <1>1, <1>2, TailFacts
    <2>2. /\ DOMAIN q = 1 .. Len(q) /\ DOMAIN Tail(q) = 1 .. Len(Tail(q))
          /\ \A j \in 1 .. Len(Tail(q)) : j + 1 \in 1 .. Len(q)
      BY <1>2, <2>1
    <2> QED BY <2>1, <2>2
  <1>7. /\ m \in Nat /\ DOMAIN processed = 1 .. m /\ DOMAIN processed' = 1 .. (m + 1)
        /\ \A i \in 1 .. m : processed'[i] = processed[i]
        /\ processed'[m + 1] = n
        /\ \A i \in 1 .. (m + 1) : i \in 1 .. m \/ i = m + 1
    <2>1. processed \in Seq(Nat) /\ m \in Nat
      <3>1. processed \in Seq(1 .. Len(log)) /\ Len(log) \in Nat /\ m \in Nat
        BY ProcessedFacts DEF Alone, ChatInv
      <3>2. 1 .. Len(log) \subseteq Nat
        BY <3>1
      <3> QED BY <3>1, <3>2, SeqOfWiderSet
    <2>2. /\ DOMAIN Append(processed, n) = 1 .. (m + 1) /\ DOMAIN processed = 1 .. m
          /\ \A i \in 1 .. m : Append(processed, n)[i] = processed[i]
          /\ Append(processed, n)[m + 1] = n
      BY <1>2, <2>1, AppendFacts
    <2>3. \A i \in 1 .. (m + 1) : i \in 1 .. m \/ i = m + 1
      BY <2>1
    <2> QED BY <1>1, <2>1, <2>2, <2>3
  <1> HIDE DEF q, n, m
  <1>8. ProcessedInOrder'
    <2> SUFFICES ASSUME NEW i \in DOMAIN processed', NEW j \in DOMAIN processed', i < j,
                        SameSource(processed'[i], processed'[j])
                 PROVE  processed'[i] < processed'[j]
      BY <1>1 DEF ProcessedInOrder, SameSource
    <2>1. i \in 1 .. m
      BY <1>7
    <2>2. CASE j \in 1 .. m
      BY <1>7, <2>1, <2>2 DEF AloneInv, ProcessedInOrder, SameSource
    <2>3. CASE j = m + 1
      BY <1>3, <1>7, <2>1, <2>3
    <2> QED BY <1>7, <2>2, <2>3
  <1>9. Ahead'
    <2> SUFFICES ASSUME NEW k \in Channel, phase[k] = "connected",
                        NEW i \in DOMAIN processed', NEW j \in DOMAIN queue'[k],
                        log[processed'[i]].user = scope_user[k],
                        log[processed'[i]].chat = chat_id[k]
                 PROVE  processed'[i] < queue'[k][j]
      BY <1>1 DEF Ahead
    <2>1. CASE i \in 1 .. m
      <3>1. PICK l \in DOMAIN queue[k] : queue'[k][j] = queue[k][l]
        <4>1. CASE k = ch
          BY <1>4, <1>6, <4>1 DEF q
        <4>2. CASE k # ch
          BY <1>4, <4>2
        <4> QED BY <4>1, <4>2
      <3>2. i \in DOMAIN processed /\ processed'[i] = processed[i]
        BY <1>7, <2>1
      <3>3. processed[i] < queue[k][l]
        BY <3>1, <3>2 DEF AloneInv, Ahead
      <3> QED BY <3>1, <3>2, <3>3
    <2>2. CASE i = m + 1
      <3>1. k = ch
        BY <1>1, <1>3, <1>7, <2>2 DEF Alone, OneConnectionEach
      <3> QED BY <1>4, <1>5, <1>7, <2>2, <3>1
    <2> QED BY <1>7, <2>1, <2>2
  <1>10. NewOnce'
    BY <1>1 DEF AloneInv, NewOnce
  <1>11. StoredWasMade'
    <2> SUFFICES ASSUME NEW id \in MessageId, messages'[id] # NoMessage PROVE Made(id)'
      BY DEF StoredWasMade, Stored
    <2>1. \A l \in MessageId : Made(l) => Made(l)'
      BY <1>1, <1>7 DEF Made
    <2>2. CASE IsNew(log[n].payload) /\ log[n].payload.id = id
      BY <1>1, <1>7, <2>2 DEF Made
    <2>3. CASE ~(IsNew(log[n].payload) /\ log[n].payload.id = id)
      <3>1. messages \in [MessageId -> Message \cup {NoMessage}]
        BY DEF Alone, ChatInv, TypeInv, TypeOK
      <3>2. Stored(id)
        BY <1>1, <2>3, <3>1 DEF Processing, Allowed, Stored
      <3> QED BY <2>1, <3>2 DEF AloneInv, StoredWasMade
    <2> QED BY <2>2, <2>3
  <1> QED BY <1>8, <1>9, <1>10, <1>11 DEF AloneInv

\* A consumer that connects has nothing waiting; the others lose events, if
\* anything; the administrator only takes rows away.
LEMMA AloneStep ==
  Alone /\ AloneInv /\ [Next]_vars => AloneInv'
PROOF
  <1> SUFFICES ASSUME Alone, AloneInv, [Next]_vars PROVE AloneInv'
    OBVIOUS
  <1> USE DEF tables, consumers, layer
  <1>0. messages \in [MessageId -> Message \cup {NoMessage}]
    BY DEF Alone, ChatInv, TypeInv, TypeOK
  <1>1. ASSUME UNCHANGED <<log, processed>>,
               \A id \in MessageId : messages'[id] \in {messages[id], NoMessage},
               \A k \in Channel : phase'[k] = "connected" =>
                 /\ phase[k] = "connected"
                 /\ scope_user'[k] = scope_user[k] /\ chat_id'[k] = chat_id[k]
                 /\ \A j \in DOMAIN queue'[k] :
                      \E i \in DOMAIN queue[k] : queue'[k][j] = queue[k][i]
        PROVE  AloneInv'
    <2>1. ProcessedInOrder' /\ NewOnce'
      BY <1>1 DEF AloneInv, ProcessedInOrder, NewOnce
    <2>2. Ahead'
      BY <1>1 DEF AloneInv, Ahead
    <2>3. StoredWasMade'
      BY <1>1 DEF AloneInv, StoredWasMade, Stored, Made
    <2> QED BY <2>1, <2>2, <2>3 DEF AloneInv
  <1>2. ASSUME NEW ch \in Channel, NEW user \in User, NEW c \in Chat, Connect(ch, user, c)
        PROVE  AloneInv'
    <2>1. /\ UNCHANGED <<messages, log, processed, queue>>
          /\ queue[ch] = << >>
          /\ \A k \in Channel \ {ch} :
               phase'[k] = phase[k] /\ scope_user'[k] = scope_user[k] /\ chat_id'[k] = chat_id[k]
      BY <1>2 DEF Connect, Alone, ChatInv, QueuedInChat, TypeInv, TypeOK
    <2>2. DOMAIN << >> = {}
      OBVIOUS
    <2>3. Ahead'
      BY <2>1, <2>2 DEF AloneInv, Ahead
    <2> QED
      BY <2>1, <2>3 DEF AloneInv, ProcessedInOrder, NewOnce, StoredWasMade, Stored, Made
  <1>3. ASSUME NEW ch \in Channel, NEW c \in Chat, RefuseConnect(ch, c)
        PROVE  AloneInv'
    <2>1. /\ UNCHANGED <<messages, log, processed, queue, scope_user>>
          /\ phase'[ch] = "failed"
          /\ \A k \in Channel \ {ch} : phase'[k] = phase[k] /\ chat_id'[k] = chat_id[k]
      BY <1>3 DEF RefuseConnect, Alone, ChatInv, TypeInv, TypeOK
    <2> QED BY <1>1, <2>1
  <1>4. ASSUME NEW ch \in Channel, Disconnect(ch)
        PROVE  AloneInv'
    <2>1. /\ UNCHANGED <<messages, log, processed, scope_user>>
          /\ phase'[ch] = "closed"
          /\ \A k \in Channel \ {ch} :
               phase'[k] = phase[k] /\ chat_id'[k] = chat_id[k] /\ queue'[k] = queue[k]
      BY <1>4 DEF Disconnect, Alone, ChatInv, TypeInv, TypeOK
    <2> QED BY <1>1, <2>1
  <1>5. CASE ServerStop
    <2>1. /\ UNCHANGED <<messages, log, processed, scope_user, chat_id, queue>>
          /\ \A k \in Channel : phase'[k] \in {phase[k], "failed"}
      BY <1>5 DEF ServerStop
    <2> QED BY <1>1, <2>1
  <1>6. ASSUME NEW ch \in Channel, FailOwnEvent(ch) \/ ForwardEvent(ch)
        PROVE  AloneInv'
    <2> DEFINE q == queue[ch]
    <2>1. /\ UNCHANGED <<messages, log, processed, scope_user, chat_id>>
          /\ phase[ch] = "connected" /\ q # << >>
          /\ \A k \in Channel : phase'[k] \in {phase[k], "failed"}
          /\ queue'[ch] = Tail(q)
          /\ \A k \in Channel \ {ch} : queue'[k] = queue[k]
      BY <1>6 DEF FailOwnEvent, ForwardEvent, Pending, Alone, ChatInv, TypeInv, TypeOK
    <2>2. \A j \in DOMAIN Tail(q) : \E i \in DOMAIN q : Tail(q)[j] = q[i]
      <3>1. q \in Seq(Nat)
        BY QueueFacts DEF Alone, ChatInv
      <3>2. /\ Tail(q) \in Seq(Nat) /\ Len(Tail(q)) = Len(q) - 1 /\ Len(q) \in Nat
            /\ \A j \in 1 .. Len(Tail(q)) : Tail(q)[j] = q[j + 1]
        BY <2>1, <3>1, TailFacts
      <3>3. /\ DOMAIN q = 1 .. Len(q) /\ DOMAIN Tail(q) = 1 .. Len(Tail(q))
            /\ \A j \in 1 .. Len(Tail(q)) : j + 1 \in 1 .. Len(q)
        BY <3>1, <3>2
      <3> QED BY <3>2, <3>3
    <2>3. ASSUME NEW k \in Channel, NEW j \in DOMAIN queue'[k]
          PROVE  \E i \in DOMAIN queue[k] : queue'[k][j] = queue[k][i]
      <3>1. CASE k = ch
        BY <2>1, <2>2, <2>3, <3>1
      <3>2. CASE k # ch
        BY <2>1, <2>3, <3>2
      <3> QED BY <3>1, <3>2
    <2> HIDE DEF q
    <2> QED BY <1>1, <2>1, <2>3
  <1>7. CASE Administration
    <2>1. UNCHANGED <<log, processed, phase, scope_user, chat_id, queue>>
      BY <1>7 DEF Administration, AdminCreateChat, AdminDeleteChat, AdminAddParticipant,
                  AdminRemoveParticipant, AdminDeleteMessage
    <2>2. \A id \in MessageId : messages'[id] \in {messages[id], NoMessage}
      BY <1>0, <1>7 DEF Administration, AdminCreateChat, AdminDeleteChat, AdminAddParticipant,
                  AdminRemoveParticipant, AdminDeleteMessage, Row
    <2> QED BY <1>1, <2>1, <2>2
  <1>8. CASE UNCHANGED vars
    BY <1>1, <1>8 DEF vars
  <1> QED
    BY <1>2, <1>3, <1>4, <1>5, <1>6, <1>7, <1>8, AloneReceive, AloneProcess
    DEF Next, Sockets, OnHandleMessageEvent

\* Nothing is carried out, stored or published at first.
LEMMA AloneInit == Init => AloneInv
PROOF
  <1>1. DOMAIN << >> = {}
    OBVIOUS
  <1> QED BY <1>1 DEF Init, AloneInv, ProcessedInOrder, Ahead, NewOnce, StoredWasMade, Stored

\* The inductive invariant holds while no user is connected twice to a chat.
LEMMA AloneInvariant == Spec /\ []OneConnectionEach => [](Alone /\ AloneInv)
PROOF
  <1>1. Spec => [](ChatInv /\ OrderInv)
    BY OrderInvariant
  <1>2. ChatInv /\ OrderInv /\ OneConnectionEach /\ AloneInv /\ [Next]_vars => AloneInv'
    BY AloneStep DEF Alone
  <1> QED BY AloneInit, <1>1, <1>2, PTL DEF Spec, Alone

\* A user's events in a chat are carried out in the order they were published
\* and none twice, whatever connections, overflows and failures come between
\* (the test on the publisher in on_handle_message_event).
THEOREM CarriedOutInOrder == Spec /\ []OneConnectionEach => []ProcessedInOrder
PROOF
  <1>1. AloneInv => ProcessedInOrder
    BY DEF AloneInv
  <1> QED BY <1>1, AloneInvariant, PTL

\* The create of a new message never meets a row with its identifier.
THEOREM NewIsFree == Spec /\ []OneConnectionEach => []NewNeverConflicts
PROOF
  <1>1. ASSUME Alone, AloneInv PROVE NewNeverConflicts
    <2> SUFFICES ASSUME NEW ch \in Channel, NEW n \in Range(queue[ch]),
                        phase[ch] = "connected", IsNew(log[n].payload),
                        log[n].user = scope_user[ch]
                 PROVE  ~Stored(log[n].payload.id)
      BY DEF NewNeverConflicts
    <2>1. PICK j \in DOMAIN queue[ch] : n = queue[ch][j]
      BY DEF Range
    <2>2. n \in 1 .. Len(log)
      BY <1>1, <2>1, OwnHead
    <2>3. log[n].payload.id \in MessageId
      BY <1>1, <2>2, ProcessedFacts DEF Alone, ChatInv, Event, Payload, IsNew
    <2>4. ~Made(log[n].payload.id)
      BY <1>1, <2>1, <2>3, OwnHead
    <2> QED BY <1>1, <2>3, <2>4 DEF AloneInv, StoredWasMade
  <1> QED BY <1>1, AloneInvariant, PTL

\* A message that was stored and then removed does not come back.
THEOREM RemovedForGood == Spec /\ []OneConnectionEach => DeletedStaysDeleted
PROOF
  <1> DEFINE Gone(id) == /\ ~Stored(id)
                         /\ \E n \in Range(processed) :
                              IsNew(log[n].payload) /\ log[n].payload.id = id
  <1>1. ASSUME Alone, AloneInv, [Next]_vars, NEW id \in MessageId, Gone(id)
        PROVE  messages'[id] = NoMessage
    <2>1. messages[id] = NoMessage
      BY <1>1 DEF Stored
    <2>2. CASE \A ch \in Channel : ~ProcessOwnEvent(ch)
      <3>1. messages'[id] \in {messages[id], NoMessage}
        BY <1>1, <2>2, OtherSteps DEF Alone
      <3> QED BY <2>1, <3>1
    <2>3. ASSUME NEW ch \in Channel, ProcessOwnEvent(ch)
          PROVE  messages'[id] = NoMessage
      <3> DEFINE n == Head(queue[ch])
                 p == log[n].payload
      <3>1. /\ phase[ch] = "connected" /\ queue[ch] # << >> /\ log[n].user = scope_user[ch]
            /\ Allowed(chat_id[ch], scope_user[ch], p)
            /\ messages' = Processing(chat_id[ch], scope_user[ch], p)
        BY <2>3 DEF ProcessOwnEvent, Pending, OwnEvent
      <3>2. n = queue[ch][1] /\ 1 \in DOMAIN queue[ch]
        <4>1. queue[ch] \in Seq(Nat)
          BY QueueFacts, <1>1 DEF Alone, ChatInv
        <4> QED BY <3>1, <4>1, TailFacts
      <3>3. Made(id)
        BY <1>1 DEF Range, Made
      <3>4. ~(IsNew(p) /\ p.id = id)
        BY <1>1, <3>1, <3>2, <3>3, OwnHead
      <3>5. messages \in [MessageId -> Message \cup {NoMessage}]
        BY <1>1 DEF Alone, ChatInv, TypeInv, TypeOK
      <3> HIDE DEF p, n
      <3> QED BY <2>1, <3>1, <3>4, <3>5 DEF Processing, Allowed, Stored
    <2> QED BY <2>2, <2>3
  <1>2. Alone /\ AloneInv /\ [Next]_vars =>
          [\A id \in MessageId :
             (~Stored(id) /\ \E n \in Range(processed) :
                                IsNew(log[n].payload) /\ log[n].payload.id = id)
             => messages'[id] = NoMessage]_vars
    BY <1>1
  <1> QED BY <1>2, AloneInvariant, PTL DEF Spec, DeletedStaysDeleted
=============================================================================
