----------------------- MODULE RealtimeMessengerProofs -----------------------
(***************************************************************************)
(* Theorems about the screens and the server together, for any number of   *)
(* screens, users, chats, websockets and messages: what a screen shows was *)
(* published, comes once, and is in its sender's order.  What the proofs   *)
(* need of the server is proved in MessagingConsumerProofs.                *)
(***************************************************************************)
EXTENDS RealtimeMessenger, SequenceFacts

ServerSide == INSTANCE MessagingConsumerProofs
ClientSide == INSTANCE MessagesScreenProofs

----------------------------------------------------------------------------
(* The server's part of a step is a step of the server, or none.           *)

\* What is assumed of the server's constants is assumed here.
LEMMA ServerAssumed == ServerSide!ConsumerAssumption /\ ServerSide!NoMessageAssumption
  BY MessengerAssumption, NoMessageAssumption
  DEF Server!ConsumerAssumption, ServerSide!ConsumerAssumption,
      ServerSide!NoMessageAssumption, Message, ServerSide!Message

\* The actions of the server, named through either instance of it.
LEMMA SameConnect ==
  ASSUME NEW ch, NEW user, NEW c
  PROVE  Server!Connect(ch, user, c) <=> ServerSide!Connect(ch, user, c)
  BY Zenon DEF Server!Connect, ServerSide!Connect, Server!tables, ServerSide!tables

\* A payload is handled in both, seen from here, in the same way.
LEMMA SameReceive ==
  ASSUME NEW ch, NEW payload
  PROVE  Server!Receive(ch, payload) <=> ServerSide!Receive(ch, payload)
PROOF
  <1>1. Server!Known = ServerSide!Known
    BY Zenon DEF Server!Known, ServerSide!Known, Server!IsNew, ServerSide!IsNew, IsNew
  <1>2. \A c, n : Server!GroupSend(c, n) <=> ServerSide!GroupSend(c, n)
    BY Zenon DEF Server!GroupSend, ServerSide!GroupSend
  <1> QED
    BY Zenon, <1>1, <1>2 DEF Server!Receive, ServerSide!Receive, Server!tables, ServerSide!tables,
         Server!consumers, ServerSide!consumers, Server!IsNew, ServerSide!IsNew, Server!IsEdit,
         ServerSide!IsEdit, Server!IsDelete, ServerSide!IsDelete, IsNew, IsEdit, IsDelete

\* Every step of the server here is a step of its own module.
LEMMA SameServerStep ==
  ServerStep =>
    \/ \E ch \in Channel : ServerSide!OnHandleMessageEvent(ch) \/ ServerSide!Disconnect(ch)
    \/ ServerSide!ServerStop
    \/ ServerSide!Administration
PROOF
  <1> USE DEF Server!tables, ServerSide!tables, Server!consumers, ServerSide!consumers,
        Server!layer, ServerSide!layer
  <1>1. \A c, user, payload :
          Server!Allowed(c, user, payload) <=> ServerSide!Allowed(c, user, payload)
    BY Zenon DEF Server!Allowed, ServerSide!Allowed, Server!Stored, ServerSide!Stored, Server!IsNew,
         ServerSide!IsNew, Server!IsEdit, ServerSide!IsEdit, Server!IsDelete, ServerSide!IsDelete,
         IsNew, IsEdit, IsDelete
  <1>2. \A c, user, payload :
          Server!Processing(c, user, payload) = ServerSide!Processing(c, user, payload)
    BY Zenon DEF Server!Processing, ServerSide!Processing, Server!IsNew,
         ServerSide!IsNew, Server!IsEdit, ServerSide!IsEdit, Server!IsDelete, ServerSide!IsDelete,
         IsNew, IsEdit, IsDelete
  <1>3. \A ch : /\ Server!Pending(ch) <=> ServerSide!Pending(ch)
                /\ Server!OwnEvent(ch) <=> ServerSide!OwnEvent(ch)
    BY Zenon DEF Server!Pending, ServerSide!Pending, Server!OwnEvent, ServerSide!OwnEvent
  <1>4. \A ch : /\ Server!ProcessOwnEvent(ch) <=> ServerSide!ProcessOwnEvent(ch)
                /\ Server!FailOwnEvent(ch) <=> ServerSide!FailOwnEvent(ch)
                /\ Server!ForwardEvent(ch) <=> ServerSide!ForwardEvent(ch)
    BY Zenon, <1>1, <1>2, <1>3 DEF Server!ProcessOwnEvent, ServerSide!ProcessOwnEvent,
         Server!FailOwnEvent, ServerSide!FailOwnEvent,
         Server!ForwardEvent, ServerSide!ForwardEvent
  <1>5. \A ch : Server!Disconnect(ch) <=> ServerSide!Disconnect(ch)
    BY Zenon DEF Server!Disconnect, ServerSide!Disconnect
  <1>6. Server!ServerStop <=> ServerSide!ServerStop
    BY Zenon DEF Server!ServerStop, ServerSide!ServerStop
  <1>7. Server!Administration <=> ServerSide!Administration
    BY Zenon DEF Server!Administration, ServerSide!Administration,
         Server!AdminCreateChat, ServerSide!AdminCreateChat,
         Server!AdminDeleteChat, ServerSide!AdminDeleteChat,
         Server!AdminAddParticipant, ServerSide!AdminAddParticipant,
         Server!AdminRemoveParticipant, ServerSide!AdminRemoveParticipant,
         Server!AdminDeleteMessage, ServerSide!AdminDeleteMessage,
         Server!Stored, ServerSide!Stored, Server!Row, ServerSide!Row
  <1> QED
    BY <1>4, <1>5, <1>6, <1>7 DEF ServerStep, Server!OnHandleMessageEvent,
         ServerSide!OnHandleMessageEvent

\* Both instances have one state, one type and one first state.
LEMMA SameState ==
  /\ Server!Init <=> ServerSide!Init
  /\ Server!TypeOK <=> ServerSide!TypeOK
  /\ UNCHANGED serverVars => UNCHANGED ServerSide!vars
PROOF
  <1>1. Server!Event = ServerSide!Event
    BY DEF Server!Event, ServerSide!Event, Server!Payload, ServerSide!Payload
  <1>2. Server!Message = ServerSide!Message
    BY DEF Server!Message, ServerSide!Message
  <1>3. Server!Init <=> ServerSide!Init
    BY Zenon DEF Server!Init, ServerSide!Init
  <1>4. Server!TypeOK <=> ServerSide!TypeOK
    BY Zenon, <1>1, <1>2 DEF Server!TypeOK, ServerSide!TypeOK
  <1>5. UNCHANGED serverVars => UNCHANGED ServerSide!vars
    BY DEF serverVars, ServerSide!vars, ServerSide!tables, ServerSide!consumers, ServerSide!layer
  <1> QED
    BY <1>3, <1>4, <1>5

----------------------------------------------------------------------------
(* The invariants of the server, the types of the client, and Matches.     *)

\* What is proved of the server on its own; and its log is bounded.
ServerInv ==
  /\ ServerSide!ChatInv /\ ServerSide!OrderInv /\ ServerSide!SentInv
  /\ ServerSide!StoredAsPublished
  /\ Len(log) <= MaxEvents

\* The state of the client, and how far the sockets are read.
Reading ==
  /\ dialing \in [Screen -> Channel \cup {NoChannel}]
  /\ taken \in [Channel -> Nat]
  /\ readPos \in [Channel -> Nat]
  /\ \A ch \in Channel : taken[ch] <= Len(written[ch]) /\ readPos[ch] <= Len(sent[ch])

\* Every step of Next is a step of the server or leaves the server alone.
LEMMA ServerTakesPart ==
  ASSUME written \in [Channel -> Seq(Payload)], Reading, [Next]_vars
  PROVE  [ServerSide!Next]_(ServerSide!vars)
PROOF
  <1> SUFFICES ASSUME ~UNCHANGED ServerSide!vars PROVE ServerSide!Next
    OBVIOUS
  <1>1. ~UNCHANGED serverVars /\ Next
    BY SameState DEF vars
  <1>2. ASSUME NEW ch \in Channel, NEW user \in User, NEW c \in Chat, Server!Connect(ch, user, c)
        PROVE  ServerSide!Next
    BY <1>2, SameConnect DEF ServerSide!Next, ServerSide!Sockets
  <1>3. ASSUME NEW ch \in Channel, NEW payload \in Payload, Server!Receive(ch, payload)
        PROVE  ServerSide!Next
    <2>1. Payload = ServerSide!Payload
      BY DEF Payload, ServerSide!Payload
    <2> QED
      BY <1>3, <2>1, SameReceive DEF ServerSide!Next
  <1>4. CASE \E s \in Screen, ch \in Channel : Dial(s, ch)
    BY <1>2, <1>4, MessengerAssumption DEF Dial, Client!ControllerAssumption
  <1>5. ASSUME NEW ch \in Channel, Uplink(ch) PROVE ServerSide!Next
    <2>1. taken[ch] + 1 \in DOMAIN written[ch] /\ written[ch] \in Seq(Payload)
      BY <1>5 DEF Uplink, Reading
    <2>2. written[ch][taken[ch] + 1] \in Payload
      BY <2>1
    <2> QED
      BY <1>3, <1>5, <2>2 DEF Uplink
  <1>6. CASE ServerStep
    BY <1>6, SameServerStep DEF ServerSide!Next, ServerSide!Sockets
  <1>7. CASE ScriptStep
    BY <1>2, <1>3, <1>7, MessengerAssumption DEF ScriptStep
  <1> QED
    BY <1>1, <1>4, <1>5, <1>6, <1>7
    DEF Next, Open, Load, LoadOrDialFails, SocketOpens, Leave, Send, Downlink, Answer,
        AnswerLost, Resume

\* What is proved of the server on its own holds here too.
LEMMA ServerInvStep ==
  ASSUME ServerInv, [ServerSide!Next]_(ServerSide!vars)
  PROVE  ServerInv'
PROOF
  <1> USE ServerAssumed DEF ServerInv
  <1>1. ServerSide!ChatInv'
    BY ServerSide!TypeStep, ServerSide!SubscribedStep, ServerSide!QueuedInChatStep
    DEF ServerSide!ChatInv
  <1>2. ServerSide!OrderInv'
    BY ServerSide!OrderStep
  <1>3. ServerSide!SentInv'
    BY ServerSide!SentStep
  <1>4. ServerSide!StoredAsPublished'
    BY ServerSide!StoredStep
  <1>5. Len(log)' <= MaxEvents
    <2>1. ServerSide!TypeInv
      BY DEF ServerSide!ChatInv
    <2>2. ASSUME NEW ch \in Channel, NEW payload \in ServerSide!Payload,
                 ServerSide!Receive(ch, payload)
          PROVE  Len(log)' <= MaxEvents
      <3>1. Len(log) \in Nat /\ Len(log') = Len(log) + 1 /\ Len(log) < MaxEvents
        BY <2>1, <2>2, ServerSide!ReceiveLog DEF ServerSide!Receive
      <3> QED
        BY <3>1, MessengerAssumption DEF Server!ConsumerAssumption
    <2> QED
      BY <2>1, <2>2, ServerSide!LogStep
  <1> QED
    BY <1>1, <1>2, <1>3, <1>4, <1>5

\* The server starts in its invariant.
LEMMA ServerInvInit == Init => ServerInv
PROOF
  <1> SUFFICES ASSUME Init PROVE ServerInv
    OBVIOUS
  <1>1. ServerSide!Init
    BY SameState DEF Init
  <1>2. ServerSide!ChatInv /\ ServerSide!SentInv
    BY <1>1, ServerAssumed, ServerSide!ChatInit, ServerSide!SentInit
  <1>3. ServerSide!OrderInv /\ ServerSide!StoredAsPublished
    BY <1>1, ServerAssumed, ServerSide!OrderInit, ServerSide!StoredInit
  <1>4. Len(log) <= MaxEvents
    BY <1>1, MessengerAssumption DEF ServerSide!Init, Server!ConsumerAssumption
  <1> QED
    BY <1>2, <1>3, <1>4 DEF ServerInv

----------------------------------------------------------------------------
(* What the invariants of the server say of log, sockets and answers.      *)

\* Events are what they should be, and a websocket has sent different events
\* of its chat, of others and since it joined, in order.
LEMMA ServerFacts ==
  ASSUME ServerInv
  PROVE  /\ Len(log) \in Nat /\ DOMAIN log = 1 .. Len(log) /\ Len(log) <= MaxArrivals
         /\ \A n \in DOMAIN log : log[n].payload \in Payload
         /\ \A ch \in Channel :
              /\ sent[ch] \in Seq(1 .. Len(log))
              /\ Len(sent[ch]) \in Nat /\ DOMAIN sent[ch] = 1 .. Len(sent[ch])
              /\ Len(sent[ch]) <= MaxArrivals
              /\ \A q \in DOMAIN sent[ch] :
                   /\ sent[ch][q] \in DOMAIN log
                   /\ sent[ch][q] > joinedAt[ch]
                   /\ log[sent[ch][q]].user # scope_user[ch]
              /\ \A q, r \in DOMAIN sent[ch] : q < r => sent[ch][q] < sent[ch][r]
              /\ phase[ch] = "unused" => sent[ch] = << >>
              /\ joinedAt[ch] \in 0 .. Len(log)
              /\ phase[ch] \in {"unused", "connected", "closed", "failed"}
         /\ sent = [ch \in Channel |-> sent[ch]]
PROOF
  <1> USE DEF ServerInv
  <1>1. ServerSide!TypeInv
    BY DEF ServerSide!ChatInv
  <1>2. /\ Len(log) \in Nat /\ DOMAIN log = 1 .. Len(log) /\ Len(log) <= MaxArrivals
    BY <1>1, MessengerAssumption DEF Server!ConsumerAssumption, Client!ControllerAssumption,
         ServerSide!TypeInv, ServerSide!TypeOK
  <1>3. \A n \in DOMAIN log : log[n].payload \in Payload
    <2>1. log \in Seq(ServerSide!Event)
      BY <1>1 DEF ServerSide!TypeInv, ServerSide!TypeOK
    <2>2. \A n \in DOMAIN log : log[n] \in ServerSide!Event
      BY <2>1
    <2>3. Payload = ServerSide!Payload
      BY DEF Payload, ServerSide!Payload
    <2> QED
      BY <2>2, <2>3 DEF ServerSide!Event
  <1>4. ASSUME NEW ch \in Channel
        PROVE  /\ sent[ch] \in Seq(1 .. Len(log))
               /\ Len(sent[ch]) \in Nat /\ DOMAIN sent[ch] = 1 .. Len(sent[ch])
               /\ Len(sent[ch]) <= MaxArrivals
               /\ \A q \in DOMAIN sent[ch] :
                    /\ sent[ch][q] \in DOMAIN log
                    /\ sent[ch][q] > joinedAt[ch]
                    /\ log[sent[ch][q]].user # scope_user[ch]
               /\ \A q, r \in DOMAIN sent[ch] : q < r => sent[ch][q] < sent[ch][r]
               /\ phase[ch] = "unused" => sent[ch] = << >>
               /\ joinedAt[ch] \in 0 .. Len(log)
               /\ phase[ch] \in {"unused", "connected", "closed", "failed"}
    <2>1. /\ sent[ch] \in Seq(1 .. Len(log)) /\ joinedAt[ch] \in 0 .. Len(log)
          /\ phase[ch] \in {"unused", "connected", "closed", "failed"}
      BY <1>1 DEF ServerSide!TypeInv, ServerSide!TypeOK
    <2>2. \A q \in DOMAIN sent[ch] : sent[ch][q] \in Range(sent[ch])
      BY DEF Range
    <2>3. \A n \in Range(sent[ch]) : n > joinedAt[ch] /\ log[n].user # scope_user[ch]
      BY DEF ServerSide!SentInv, ServerSide!SinceJoined, Range, ServerSide!Range
    <2>4. \A q, r \in DOMAIN sent[ch] : q < r => sent[ch][q] < sent[ch][r]
      BY DEF ServerSide!OrderInv, ServerSide!InOrder, ServerSide!Increasing
    <2>5. Len(sent[ch]) <= Len(log)
      BY <1>2, <2>1, <2>4, IncreasingLength DEF Increasing
    <2>6. phase[ch] = "unused" => sent[ch] = << >>
      BY DEF ServerSide!OrderInv, ServerSide!SentInChat
    <2>7. /\ Len(sent[ch]) \in Nat /\ DOMAIN sent[ch] = 1 .. Len(sent[ch])
          /\ \A q \in DOMAIN sent[ch] : sent[ch][q] \in 1 .. Len(log)
      BY <2>1
    <2>8. Len(sent[ch]) <= MaxArrivals
      BY <1>2, <2>5, <2>7, MessengerAssumption DEF Client!ControllerAssumption
    <2> QED
      BY <1>2, <2>1, <2>2, <2>3, <2>4, <2>6, <2>7, <2>8
  <1>5. sent = [ch \in Channel |-> sent[ch]]
    BY <1>1 DEF ServerSide!TypeInv, ServerSide!TypeOK
  <1> QED
    BY <1>2, <1>3, <1>4, <1>5

\* An identifier is published once, and before it is edited or deleted.
LEMMA PublishedFacts ==
  ASSUME ServerInv
  PROVE  /\ \A id : PublishedAs(id) \subseteq DOMAIN log
         /\ \A id : \A m, n \in PublishedAs(id) : m = n
         /\ \A n \in DOMAIN log :
              log[n].payload.event_name \in {"new_message", "edit_message", "delete_message"}
                => PublishedAs(log[n].payload.id) # {}
         /\ \A id : PublishedAs(id) = {} <=> id \notin ServerSide!Known
PROOF
  <1> USE DEF PublishedAs, ServerSide!IsNew, ServerSide!IsEdit, ServerSide!IsDelete
  <1>1. \A id : PublishedAs(id) = {} <=> id \notin ServerSide!Known
    BY DEF ServerSide!Known
  <1>2. \A id : \A m, n \in PublishedAs(id) : m = n
    BY DEF ServerInv, ServerSide!SentInv, ServerSide!NewOnce
  <1>3. ASSUME NEW n \in DOMAIN log,
               log[n].payload.event_name \in {"new_message", "edit_message", "delete_message"}
        PROVE  PublishedAs(log[n].payload.id) # {}
    <2>1. CASE log[n].payload.event_name = "new_message"
      BY <2>1
    <2>2. CASE log[n].payload.event_name # "new_message"
      <3>1. log[n].payload.id \in ServerSide!Known
        BY <1>3, <2>2 DEF ServerInv, ServerSide!SentInv, ServerSide!NamesKnown
      <3> QED
        BY <1>1, <3>1
    <2> QED
      BY <2>1, <2>2
  <1> QED
    BY <1>1, <1>2, <1>3

\* A stored message is what was published of it.
LEMMA StoredFacts ==
  ASSUME ServerInv, NEW id \in MessageId, messages[id] # NoMessage
  PROVE  /\ BubbleOf(id) \in Client!Bubble
         /\ BubbleOf(id).id = id
         /\ PublishedAs(id) # {}
         /\ \A n \in PublishedAs(id) :
              log[n].user = BubbleOf(id).author /\ log[n].chat = messages[id].chat
         /\ \E n \in DOMAIN log :
              Writes(log[n].payload, id) /\ log[n].payload.content = BubbleOf(id).content
PROOF
  <1>1. messages[id] \in Message
    BY DEF ServerInv, ServerSide!ChatInv, ServerSide!TypeInv, ServerSide!TypeOK,
           ServerSide!Message, Message
  <1>2. BubbleOf(id) \in Client!Bubble /\ BubbleOf(id).id = id
    BY <1>1 DEF BubbleOf, Client!Bubble, Message
  <1>3. \E n \in PublishedAs(id) : log[n].chat = messages[id].chat /\ log[n].user = messages[id].author
    BY DEF ServerInv, ServerSide!StoredAsPublished, ServerSide!Stored, ServerSide!Row,
           ServerSide!IsNew, PublishedAs
  <1>4. \E n \in DOMAIN log :
          Writes(log[n].payload, id) /\ log[n].payload.content = messages[id].content
    BY DEF ServerInv, ServerSide!StoredAsPublished, ServerSide!Stored, ServerSide!Row,
           ServerSide!Writes, ServerSide!IsNew, ServerSide!IsEdit, Writes, IsNew, IsEdit
  <1>5. BubbleOf(id).author = messages[id].author /\ BubbleOf(id).content = messages[id].content
    BY DEF BubbleOf
  <1>6. \A n \in PublishedAs(id) : log[n].user = BubbleOf(id).author /\ log[n].chat = messages[id].chat
    BY <1>3, <1>5, PublishedFacts
  <1> QED
    BY <1>2, <1>3, <1>4, <1>5, <1>6

\* The place in processed of the message that comes kth in a chat's history.
PlaceOf(c, k) == Ascending(Rows(c))[Cardinality(Rows(c)) + 1 - k]

\* A history lists rows of its chat, the last created first.
LEMMA HistoryPlaces ==
  ASSUME ServerInv, NEW c
  PROVE  /\ \E size \in Nat : HistoryOf(c) = [k \in 1 .. size |-> RowAt(PlaceOf(c, k))]
         /\ \A k \in DOMAIN HistoryOf(c) :
              PlaceOf(c, k) \in Rows(c) /\ HistoryOf(c)[k] = RowAt(PlaceOf(c, k))
         /\ \A k, l \in DOMAIN HistoryOf(c) : k < l => PlaceOf(c, l) < PlaceOf(c, k)
         /\ Rows(c) \subseteq DOMAIN processed
         /\ processed \in Seq(1 .. Len(log))
PROOF
  <1> DEFINE rows == Rows(c)
             count == Cardinality(rows)
             size == IF count < HistoryLimit THEN count ELSE HistoryLimit
             order == Ascending(rows)
  <1>1. processed \in Seq(1 .. Len(log))
    BY DEF ServerInv, ServerSide!ChatInv, ServerSide!TypeInv, ServerSide!TypeOK
  <1>2. rows \in SUBSET DOMAIN processed /\ DOMAIN processed = 1 .. Len(processed)
        /\ Len(processed) \in Nat
    BY <1>1 DEF Rows
  <1>3. rows \in SUBSET Nat /\ IsFiniteSet(rows)
    <2>1. IsFiniteSet(1 .. Len(processed))
      BY <1>2, FS_Interval
    <2> QED
      BY <1>2, <2>1, FS_Subset
  <1>4. /\ count \in Nat
        /\ \A n \in 1 .. count : order[n] \in rows
        /\ \A m, n \in 1 .. count : m < n => order[m] < order[n]
    BY <1>3, AscendingFacts DEF Bijection, Injection
  <1>5. size \in Nat /\ size <= count
    BY <1>4, MessengerAssumption
  <1>6. HistoryOf(c) = [k \in 1 .. size |-> RowAt(PlaceOf(c, k))]
    BY DEF HistoryOf, PlaceOf
  <1> HIDE DEF size
  <1>7. DOMAIN HistoryOf(c) = 1 .. size
    BY <1>6
  <1>8. \A k \in 1 .. size : count + 1 - k \in 1 .. count /\ PlaceOf(c, k) = order[count + 1 - k]
    BY <1>4, <1>5 DEF PlaceOf
  <1>9. ASSUME NEW k \in 1 .. size, NEW l \in 1 .. size, k < l
        PROVE  PlaceOf(c, l) < PlaceOf(c, k)
    <2>1. count + 1 - l < count + 1 - k
      BY <1>4, <1>9
    <2> QED
      BY <1>4, <1>8, <2>1
  <1> QED
    BY <1>1, <1>2, <1>4, <1>5, <1>6, <1>7, <1>8, <1>9

\* The messages of a history are stored ones, each once.
LEMMA HistoryFacts ==
  ASSUME ServerInv, NEW c
  PROVE  /\ HistoryOf(c) \in Seq(Client!Bubble)
         /\ \A k \in DOMAIN HistoryOf(c) :
              LET m == HistoryOf(c)[k]
              IN  m.id \in MessageId /\ messages[m.id] # NoMessage /\ messages[m.id].chat = c
                  /\ m = BubbleOf(m.id)
         /\ \A k, l \in DOMAIN HistoryOf(c) : HistoryOf(c)[k].id = HistoryOf(c)[l].id => k = l
PROOF
  <1> DEFINE idAt(i) == log[processed[i]].payload.id
  <1>1. \A i \in DOMAIN processed : processed[i] \in DOMAIN log
    BY HistoryPlaces, ServerFacts
  <1>2. ASSUME NEW i \in Rows(c)
        PROVE  /\ idAt(i) \in MessageId /\ messages[idAt(i)] # NoMessage
               /\ messages[idAt(i)].chat = c
               /\ RowAt(i) = BubbleOf(idAt(i)) /\ RowAt(i).id = idAt(i)
               /\ processed[i] \in PublishedAs(idAt(i))
               /\ \A j \in DOMAIN processed : j > i => processed[j] # processed[i]
               /\ RowAt(i) \in Client!Bubble
    <2>1. /\ log[processed[i]].payload.event_name = "new_message"
          /\ messages[idAt(i)] # NoMessage /\ messages[idAt(i)].chat = c
          /\ \A j \in DOMAIN processed : j > i => processed[j] # processed[i]
          /\ i \in DOMAIN processed
      BY DEF Rows
    <2>2. processed[i] \in DOMAIN log /\ log[processed[i]].payload \in Payload
      BY <1>1, <2>1, ServerFacts
    <2>3. idAt(i) \in MessageId
      BY <2>1, <2>2 DEF Payload
    <2>4. RowAt(i) = BubbleOf(idAt(i)) /\ RowAt(i).id = idAt(i)
      BY DEF RowAt, BubbleOf
    <2>5. BubbleOf(idAt(i)) \in Client!Bubble
      BY <2>1, <2>3, StoredFacts
    <2> QED
      BY <2>1, <2>2, <2>3, <2>4, <2>5 DEF PublishedAs
  <1> HIDE DEF idAt
  <1>3. HistoryOf(c) \in Seq(Client!Bubble)
    <2>1. PICK size \in Nat : HistoryOf(c) = [k \in 1 .. size |-> RowAt(PlaceOf(c, k))]
      BY HistoryPlaces
    <2>2. \A k \in 1 .. size : RowAt(PlaceOf(c, k)) \in Client!Bubble
      BY <1>2, <2>1, HistoryPlaces
    <2> QED
      BY <2>1, <2>2
  <1>4. ASSUME NEW k \in DOMAIN HistoryOf(c), NEW l \in DOMAIN HistoryOf(c),
               HistoryOf(c)[k].id = HistoryOf(c)[l].id
        PROVE  k = l
    <2>1. /\ PlaceOf(c, k) \in Rows(c) /\ PlaceOf(c, l) \in Rows(c)
          /\ idAt(PlaceOf(c, k)) = idAt(PlaceOf(c, l))
      BY <1>2, <1>4, HistoryPlaces
    <2>2. processed[PlaceOf(c, k)] = processed[PlaceOf(c, l)]
      BY <1>2, <2>1, PublishedFacts
    <2>3. ~(PlaceOf(c, l) < PlaceOf(c, k)) /\ ~(PlaceOf(c, k) < PlaceOf(c, l))
      BY <1>2, <2>1, <2>2, HistoryPlaces
    <2>4. k \in Nat /\ l \in Nat
      BY <1>3
    <2> QED
      BY <2>3, <2>4, HistoryPlaces
  <1> QED
    BY <1>2, <1>3, <1>4, HistoryPlaces

----------------------------------------------------------------------------
(* The client's part of a step.                                            *)

\* What the module of the screen assumes of its constants holds here.
LEMMA ClientAssumed == ClientSide!ControllerAssumption /\ ClientSide!NoMessageAssumption
  BY MessengerAssumption, NoMessageAssumption
  DEF Client!ControllerAssumption, ClientSide!ControllerAssumption,
      ClientSide!NoMessageAssumption, Message, ClientSide!Message

\* The filter of the client, through either instance of it.
LEMMA SameWithout == \A list, id : Client!Without(list, id) = ClientSide!Without(list, id)
PROOF
  <1> USE DEF Client!Cardinality, ClientSide!Cardinality, Client!IsFiniteSet,
        ClientSide!IsFiniteSet
  <1>1. \A upto : Client!Sorted(upto) = ClientSide!Sorted(upto)
    BY Zenon DEF Client!Sorted, ClientSide!Sorted
  <1>2. \A S : Client!Ascending(S) = ClientSide!Ascending(S)
    BY Zenon, <1>1 DEF Client!Ascending, ClientSide!Ascending
  <1>3. \A list, S : Client!SelectAt(list, S) = ClientSide!SelectAt(list, S)
    BY Zenon, <1>2 DEF Client!SelectAt, ClientSide!SelectAt
  <1> QED
    BY Zenon, <1>3 DEF Client!Without, ClientSide!Without

\* The actions of the client, named through either instance of it.
LEMMA SameClient ==
  ASSUME NEW s
  PROVE  /\ Client!Initialize(s) => ClientSide!Initialize(s)
         /\ Client!InitializeFails(s) => ClientSide!InitializeFails(s)
         /\ \A list : Client!HistoryArrives(s, list) => ClientSide!HistoryArrives(s, list)
         /\ \A ch : Client!SocketOpens(s, ch) => ClientSide!SocketOpens(s, ch)
         /\ \A id, content :
              Client!SendTextMessage(s, id, content) => ClientSide!SendTextMessage(s, id, content)
         /\ \A id : Client!OnDelete(s, id) => ClientSide!OnDelete(s, id)
         /\ \A n, event_name, id :
              Client!OnNewOrEdit(s, n, event_name, id) => ClientSide!OnNewOrEdit(s, n, event_name, id)
         /\ \A h, reply : Client!MessageAnswered(s, h, reply) => ClientSide!MessageAnswered(s, h, reply)
         /\ \A h : Client!Resume(s, h) => ClientSide!Resume(s, h)
         /\ Client!Close(s) => ClientSide!Close(s)
         /\ Client!FinishClose(s) => ClientSide!FinishClose(s)
PROOF
  <1>1. Client!Closed(s) <=> ClientSide!Closed(s)
    BY DEF Client!Closed, ClientSide!Closed
  <1>2. \A x, list : Client!Emit(s, x, list) <=> ClientSide!Emit(s, x, list)
    BY Zenon, <1>1 DEF Client!Emit, ClientSide!Emit
  <1>3. \A list, id : Client!Without(list, id) = ClientSide!Without(list, id)
    BY SameWithout
  <1>4. \A list : Client!Ids(list) = ClientSide!Ids(list)
    BY Zenon DEF Client!Ids, ClientSide!Ids
  <1>5. \A list, id : Client!IndexOf(list, id) = ClientSide!IndexOf(list, id)
    BY Zenon DEF Client!IndexOf, ClientSide!IndexOf
  <1>6. \A h : Client!Updated(h) = ClientSide!Updated(h)
    BY Zenon, <1>5 DEF Client!Updated, ClientSide!Updated
  <1>7. /\ Client!Initialize(s) => ClientSide!Initialize(s)
        /\ Client!InitializeFails(s) => ClientSide!InitializeFails(s)
        /\ \A list : Client!HistoryArrives(s, list) => ClientSide!HistoryArrives(s, list)
        /\ \A ch : Client!SocketOpens(s, ch) => ClientSide!SocketOpens(s, ch)
    BY Zenon, <1>1, <1>2 DEF Client!Initialize, ClientSide!Initialize, Client!InitializeFails,
         ClientSide!InitializeFails, Client!HistoryArrives, ClientSide!HistoryArrives,
         Client!SocketOpens, ClientSide!SocketOpens
  <1>8. /\ \A id, content :
             Client!SendTextMessage(s, id, content) => ClientSide!SendTextMessage(s, id, content)
        /\ \A n, event_name, id :
             Client!OnNewOrEdit(s, n, event_name, id) => ClientSide!OnNewOrEdit(s, n, event_name, id)
        /\ \A h, reply : Client!MessageAnswered(s, h, reply) => ClientSide!MessageAnswered(s, h, reply)
    BY Zenon DEF Client!SendTextMessage, ClientSide!SendTextMessage,
         Client!OnNewOrEdit, ClientSide!OnNewOrEdit,
         Client!MessageAnswered, ClientSide!MessageAnswered
  <1>9. /\ \A id : Client!OnDelete(s, id) => ClientSide!OnDelete(s, id)
        /\ \A h : Client!Resume(s, h) => ClientSide!Resume(s, h)
    BY Zenon, <1>2, <1>3, <1>4, <1>6 DEF Client!OnDelete, ClientSide!OnDelete,
         Client!Resume, ClientSide!Resume
  <1>10. /\ Client!Close(s) => ClientSide!Close(s)
         /\ Client!FinishClose(s) => ClientSide!FinishClose(s)
    BY Zenon DEF Client!Close, ClientSide!Close, Client!FinishClose, ClientSide!FinishClose
  <1> QED
    BY <1>7, <1>8, <1>9, <1>10

\* The states of the screens are the same, seen from here and from the proofs
\* about the screen.
LEMMA SameClientState ==
  /\ Client!Init => ClientSide!Init
  /\ Client!TypeOK <=> ClientSide!TypeOK
  /\ Client!Bubble = ClientSide!Bubble
  /\ Payload = ClientSide!Payload
PROOF
  <1>1. Client!Bubble = ClientSide!Bubble /\ Client!Payload = ClientSide!Payload
        /\ Payload = ClientSide!Payload
    BY DEF Client!Bubble, ClientSide!Bubble, Client!Payload, ClientSide!Payload, Payload
  <1>2. Client!Handler = ClientSide!Handler
    BY <1>1 DEF Client!Handler, ClientSide!Handler
  <1>3. Client!TypeOK <=> ClientSide!TypeOK
    BY Zenon, <1>1, <1>2 DEF Client!TypeOK, ClientSide!TypeOK
  <1>4. Client!Init => ClientSide!Init
    BY DEF Client!Init, ClientSide!Init
  <1> QED
    BY <1>1, <1>3, <1>4

\* The variables of the composition that are not the server's, and what each
\* screen awaits; all of it with what is known of the server.
Typed == ServerInv /\ Reading /\ Client!TypeOK /\ ClientSide!ScreenInv

\* An event that a screen reads is the next one its consumer sent.
NextEvent(s) == sent[webSocket[s]][readPos[webSocket[s]] + 1]

\* Downlink by the kind of its event.
LEMMA DownlinkCases ==
  ASSUME Typed, NEW s \in Screen, Downlink(s)
  PROVE  /\ webSocket[s] \in Channel
         /\ readPos[webSocket[s]] + 1 \in DOMAIN sent[webSocket[s]]
         /\ readPos[webSocket[s]] + 1 \in 1 .. MaxArrivals
         /\ NextEvent(s) \in DOMAIN log
         /\ readPos' = [readPos EXCEPT ![webSocket[s]] = @ + 1]
         /\ UNCHANGED <<serverVars, dialing, taken>>
         /\ LET payload == log[NextEvent(s)].payload
            IN  \/ /\ payload.event_name \in {"new_message", "edit_message"}
                   /\ payload.id \in MessageId
                   /\ Client!OnNewOrEdit(s, readPos[webSocket[s]] + 1, payload.event_name, payload.id)
                \/ /\ payload.event_name = "delete_message"
                   /\ Client!OnDelete(s, payload.id)
                \/ UNCHANGED clientVars
PROOF
  <1> DEFINE ch == webSocket[s]
             payload == log[sent[ch][readPos[ch] + 1]].payload
  <1>1. /\ ch # NoChannel /\ readPos[ch] < Len(sent[ch])
        /\ readPos' = [readPos EXCEPT ![ch] = @ + 1]
        /\ UNCHANGED <<serverVars, dialing, taken>>
        /\ \/ /\ payload.event_name \in {"new_message", "edit_message"}
              /\ Client!OnNewOrEdit(s, readPos[ch] + 1, payload.event_name, payload.id)
           \/ /\ payload.event_name = "delete_message"
              /\ Client!OnDelete(s, payload.id)
           \/ UNCHANGED clientVars
    BY Zenon DEF Downlink
  <1>2. ch \in Channel
    BY <1>1 DEF Typed, Client!TypeOK
  <1>3. readPos[ch] + 1 \in DOMAIN sent[ch] /\ readPos[ch] + 1 \in 1 .. MaxArrivals
    <2>1. /\ Len(sent[ch]) \in Nat /\ DOMAIN sent[ch] = 1 .. Len(sent[ch])
          /\ Len(sent[ch]) <= MaxArrivals
      BY <1>2, ServerFacts DEF Typed
    <2>2. readPos[ch] \in Nat
      BY <1>2 DEF Typed, Reading
    <2>3. MaxArrivals \in Nat
      BY MessengerAssumption DEF Client!ControllerAssumption
    <2> QED
      BY <1>1, <2>1, <2>2, <2>3
  <1>4. sent[ch][readPos[ch] + 1] \in DOMAIN log /\ payload \in Payload
    BY <1>2, <1>3, ServerFacts DEF Typed
  <1>5. payload.event_name \in {"new_message", "edit_message"} => payload.id \in MessageId
    BY <1>4 DEF Payload
  <1> QED
    BY Zenon, <1>1, <1>2, <1>3, <1>4, <1>5 DEF NextEvent

\* What getMessage answers is the message asked for, or an error.
LEMMA AnswerType ==
  ASSUME ServerInv, NEW user, NEW id \in MessageId
  PROVE  /\ MessageFor(user, id) \in Client!Bubble \cup {NoMessage}
         /\ MessageFor(user, id) # NoMessage =>
              messages[id] # NoMessage /\ MessageFor(user, id) = BubbleOf(id)
  BY StoredFacts DEF MessageFor

\* The client's types and Matches hold after any step.
LEMMA ClientStep ==
  ASSUME Typed, [Next]_vars
  PROVE  Client!TypeOK' /\ ClientSide!ScreenInv'
PROOF
  <1> USE ClientAssumed
  <1>1. ClientSide!TypeOK /\ ClientSide!ScreenInv
    BY SameClientState DEF Typed
  <1> SUFFICES ClientSide!TypeOK' /\ ClientSide!ScreenInv'
    BY SameClientState DEF Client!TypeOK, ClientSide!TypeOK, Client!Bubble, ClientSide!Bubble,
       Client!Payload, ClientSide!Payload, Client!Handler, ClientSide!Handler
  <1> DEFINE Kept == ClientSide!TypeOK' /\ ClientSide!ScreenInv'
  <1> SUFFICES Kept
    OBVIOUS
  <1>2. CASE UNCHANGED clientVars
    BY <1>1, <1>2 DEF clientVars, ClientSide!TypeOK, ClientSide!ScreenInv, ClientSide!Shape,
       ClientSide!Matches, ClientSide!Closed
  <1>3. ASSUME NEW s \in Screen, Open(s) \/ LoadOrDialFails(s) PROVE Kept
    BY <1>1, <1>3, SameClient, ClientSide!InitializeType, ClientSide!InitializeScreen,
       ClientSide!InitializeFailsScreen DEF Open, LoadOrDialFails
  <1>4. ASSUME NEW s \in Screen, Load(s) PROVE Kept
    <2>1. HistoryOf(chat[s]) \in Seq(ClientSide!Bubble)
      BY HistoryFacts, SameClientState DEF Typed
    <2>2. ClientSide!HistoryArrives(s, HistoryOf(chat[s]))
      BY <1>4, SameClient DEF Load
    <2> QED
      BY <1>1, <2>1, <2>2, ClientSide!InitializeType, ClientSide!HistoryArrivesScreen
  <1>5. ASSUME NEW s \in Screen, SocketOpens(s) PROVE Kept
    <2>1. dialing[s] \in Channel /\ ClientSide!SocketOpens(s, dialing[s])
      BY <1>5, SameClient DEF SocketOpens, Typed, Reading
    <2> QED
      BY <1>1, <2>1, ClientSide!InitializeType, ClientSide!SocketOpensScreen
  <1>6. ASSUME NEW s \in Screen, Leave(s) PROVE Kept
    BY <1>1, <1>6, SameClient, ClientSide!CloseType, ClientSide!CloseScreen DEF Leave
  <1>7. ASSUME NEW s \in Screen, NEW id \in MessageId, NEW content \in Content,
               Send(s, id, content)
        PROVE  Kept
    <2>1. ClientSide!SendTextMessage(s, id, content)
      BY <1>7, SameClient DEF Send
    <2> QED
      BY <1>1, <2>1, ClientSide!SendType, ClientSide!SendScreen
  <1>8. ASSUME NEW s \in Screen, Downlink(s) PROVE Kept
    <2> DEFINE n == readPos[webSocket[s]] + 1
               payload == log[NextEvent(s)].payload
    <2>1. /\ n \in 1 .. MaxArrivals
          /\ \/ /\ payload.event_name \in {"new_message", "edit_message"}
                /\ payload.id \in MessageId
                /\ Client!OnNewOrEdit(s, n, payload.event_name, payload.id)
             \/ Client!OnDelete(s, payload.id)
             \/ UNCHANGED clientVars
      BY <1>8, DownlinkCases
    <2> HIDE DEF n, payload
    <2>2. CASE /\ payload.event_name \in {"new_message", "edit_message"}
               /\ payload.id \in MessageId
               /\ Client!OnNewOrEdit(s, n, payload.event_name, payload.id)
      <3>1. ClientSide!OnNewOrEdit(s, n, payload.event_name, payload.id)
        BY <2>2, SameClient
      <3>2. ClientSide!TypeOK'
        BY <1>1, <2>1, <2>2, <3>1, ClientSide!ArrivalType
      <3> QED
        BY <1>1, <3>1, <3>2, ClientSide!OnNewOrEditScreen
    <2>3. CASE Client!OnDelete(s, payload.id)
      BY <1>1, <2>3, SameClient, ClientSide!DeleteType, ClientSide!OnDeleteScreen
    <2> QED
      BY <1>2, <2>1, <2>2, <2>3
  <1>9. ASSUME NEW s \in Screen, NEW h \in handlers[s], Answer(s, h) \/ AnswerLost(s, h)
        PROVE  Kept
    <2>1. h.id \in MessageId
      BY DEF Typed, Client!TypeOK, Client!Handler
    <2>2. PICK reply \in ClientSide!Bubble \cup {NoMessage} : ClientSide!MessageAnswered(s, h, reply)
      BY <1>9, <2>1, AnswerType, SameClient, SameClientState DEF Answer, AnswerLost, Typed
    <2> QED
      BY <1>1, <2>2, ClientSide!HandlerType, ClientSide!MessageAnsweredScreen
  <1>10. ASSUME NEW s \in Screen, NEW h \in handlers[s], Resume(s, h) PROVE Kept
    <2>1. ClientSide!Resume(s, h)
      BY <1>10, SameClient DEF Resume
    <2> QED
      BY <1>1, <2>1, ClientSide!HandlerType, ClientSide!ResumeScreen
  <1> HIDE DEF Kept
  <1>11. CASE \/ \E ch \in Channel : Uplink(ch) \/ \E s \in Screen : Dial(s, ch)
              \/ ServerStep \/ ScriptStep \/ UNCHANGED vars
    <2>1. CASE UNCHANGED vars
      BY <1>2, <2>1 DEF vars
    <2>2. \A ch : Uplink(ch) => UNCHANGED clientVars
      BY Zenon DEF Uplink
    <2>3. \A s, ch : Dial(s, ch) => UNCHANGED clientVars
      BY Zenon DEF Dial
    <2>4. ServerStep \/ ScriptStep => UNCHANGED clientVars
      BY Zenon DEF ServerStep, ScriptStep
    <2> QED
      BY Zenon, <1>2, <1>11, <2>1, <2>2, <2>3, <2>4
  <1>12. ASSUME NEW s \in Screen,
                \/ Open(s) \/ Load(s) \/ LoadOrDialFails(s) \/ SocketOpens(s) \/ Leave(s)
                \/ \E id \in MessageId, content \in Content : Send(s, id, content)
                \/ Downlink(s)
                \/ \E h \in handlers[s] : Answer(s, h) \/ AnswerLost(s, h) \/ Resume(s, h)
         PROVE  Kept
    BY <1>3, <1>4, <1>5, <1>6, <1>7, <1>8, <1>9, <1>10, <1>12
  <1> QED
    BY <1>11, <1>12 DEF Next

\* What a consumer has sent stays sent; the log only grows.
LEMMA SentGrows ==
  ASSUME Typed, [Next]_vars
  PROVE  /\ ServerInv'
         /\ \A n \in DOMAIN log : n \in DOMAIN log' /\ log'[n] = log[n]
         /\ \A ch \in Channel :
              /\ \A q \in DOMAIN sent[ch] : q \in DOMAIN sent'[ch] /\ sent'[ch][q] = sent[ch][q]
              /\ Len(sent[ch]) <= Len(sent'[ch])
PROOF
  <1> USE ServerAssumed
  <1>1. [ServerSide!Next]_(ServerSide!vars)
    BY ServerTakesPart DEF Typed, Client!TypeOK, Client!Payload, Payload
  <1>2. ServerInv'
    BY <1>1, ServerInvStep DEF Typed
  <1>3. ServerSide!TypeInv
    BY DEF Typed, ServerInv, ServerSide!ChatInv
  <1>4. \A n \in DOMAIN log : n \in DOMAIN log' /\ log'[n] = log[n]
    BY <1>1, <1>3, ServerSide!LogGrows
  <1>5. ASSUME NEW ch \in Channel
        PROVE  /\ \A q \in DOMAIN sent[ch] : q \in DOMAIN sent'[ch] /\ sent'[ch][q] = sent[ch][q]
               /\ Len(sent[ch]) <= Len(sent'[ch])
    <2>1. /\ sent[ch] \in Seq(1 .. Len(log)) /\ Len(sent[ch]) \in Nat
          /\ phase[ch] = "unused" => sent[ch] = << >>
      BY ServerFacts DEF Typed
    <2>2. Len(sent'[ch]) \in Nat
      BY <1>2, ServerFacts
    <2>3. CASE phase[ch] = "unused"
      BY <2>1, <2>2, <2>3
    <2>4. CASE sent'[ch] = sent[ch]
      BY <2>1, <2>4
    <2>5. CASE phase[ch] # "unused" /\ sent'[ch] # sent[ch]
      <3>1. /\ ServerSide!Pending(ch)
            /\ sent'[ch] = Append(sent[ch], Head(queue[ch]))
        BY <1>1, <1>3, <2>5, ServerSide!ChannelStep
      <3>2. Head(queue[ch]) \in 1 .. Len(log)
        BY <1>3, <3>1, ServerSide!PendingFacts
      <3> QED
        BY <2>1, <3>1, <3>2, AppendFacts
    <2> QED
      BY <2>3, <2>4, <2>5
  <1> QED
    BY <1>2, <1>4, <1>5

\* What a controller has written stays written, but taken and read may grow.
LEMMA WrittenGrows ==
  ASSUME Typed, [Next]_vars
  PROVE  /\ \A ch \in Channel :
              /\ \A i \in DOMAIN written[ch] :
                   i \in DOMAIN written'[ch] /\ written'[ch][i] = written[ch][i]
              /\ Len(written[ch]) <= Len(written'[ch])
         /\ \/ written' = written
            \/ /\ \E s \in Screen, id \in MessageId, content \in Content : Send(s, id, content)
PROOF
  <1>1. \A ch \in Channel : written[ch] \in Seq(Payload)
    BY DEF Typed, Client!TypeOK, Client!Payload, Payload
  <1>2. ASSUME NEW s \in Screen, NEW id \in MessageId, NEW content \in Content,
               Send(s, id, content), NEW ch \in Channel
        PROVE  /\ \A i \in DOMAIN written[ch] :
                    i \in DOMAIN written'[ch] /\ written'[ch][i] = written[ch][i]
               /\ Len(written[ch]) <= Len(written'[ch])
    <2> DEFINE payload == [event_name |-> "new_message", id |-> id, content |-> content]
    <2>1. payload \in Payload
      BY DEF Payload
    <2> HIDE DEF payload
    <2>2. \/ written'[ch] = written[ch]
          \/ written'[ch] = Append(written[ch], payload)
      BY <1>2 DEF Send, Client!SendTextMessage, Typed, Client!TypeOK, payload
    <2>3. /\ written[ch] \in Seq(Payload) /\ Len(written[ch]) \in Nat
          /\ DOMAIN written[ch] = 1 .. Len(written[ch])
      BY <1>1
    <2>4. CASE written'[ch] = Append(written[ch], payload)
      BY <2>1, <2>3, <2>4, AppendFacts
    <2> QED
      BY <2>2, <2>3, <2>4
  <1>3. \/ written' = written
        \/ \E s \in Screen, id \in MessageId, content \in Content : Send(s, id, content)
    <2>1. ASSUME NEW s \in Screen, Downlink(s) PROVE written' = written
      BY <2>1, DownlinkCases DEF clientVars, Client!OnNewOrEdit, Client!OnDelete
    <2>2. CASE UNCHANGED vars
      BY <2>2 DEF vars, clientVars
    <2>3. CASE ServerStep \/ ScriptStep \/ \E ch \in Channel : Uplink(ch) \/ \E s \in Screen : Dial(s, ch)
      BY <2>3 DEF ServerStep, ScriptStep, Uplink, Dial, clientVars
    <2>4. ASSUME NEW s \in Screen,
                 \/ Open(s) \/ Load(s) \/ LoadOrDialFails(s) \/ SocketOpens(s) \/ Leave(s)
                 \/ \E h \in handlers[s] : Answer(s, h) \/ AnswerLost(s, h) \/ Resume(s, h)
          PROVE  written' = written
      BY <2>4 DEF Open, Load, LoadOrDialFails, SocketOpens, Leave, Answer, AnswerLost, Resume,
           Client!Initialize, Client!HistoryArrives, Client!InitializeFails, Client!SocketOpens,
           Client!Close, Client!FinishClose, Client!MessageAnswered, Client!Resume
    <2> QED
      BY <2>1, <2>2, <2>3, <2>4 DEF Next
  <1>4. \A ch \in Channel : Len(written[ch]) \in Nat
    BY <1>1
  <1> QED
    BY <1>2, <1>3, <1>4

\* No step reads further than what has been written.
LEMMA ReadingStep ==
  ASSUME Typed, [Next]_vars
  PROVE  Reading'
PROOF
  <1>1. /\ dialing \in [Screen -> Channel \cup {NoChannel}]
        /\ taken \in [Channel -> Nat] /\ readPos \in [Channel -> Nat]
        /\ \A ch \in Channel : taken[ch] <= Len(written[ch]) /\ readPos[ch] <= Len(sent[ch])
    BY DEF Typed, Reading
  <1>2. /\ \A ch \in Channel : Len(written[ch]) \in Nat /\ Len(sent[ch]) \in Nat
        /\ \A ch \in Channel : Len(written'[ch]) \in Nat /\ Len(sent'[ch]) \in Nat
    <2>1. \A ch \in Channel : written[ch] \in Seq(Payload) /\ written'[ch] \in Seq(Payload)
      BY ClientStep DEF Typed, Client!TypeOK, Client!Payload, Payload
    <2>2. \A ch \in Channel : Len(sent[ch]) \in Nat /\ Len(sent'[ch]) \in Nat
      BY SentGrows, ServerFacts DEF Typed
    <2> QED
      BY <2>1, <2>2
  <1>3. \A ch \in Channel : Len(written[ch]) <= Len(written'[ch]) /\ Len(sent[ch]) <= Len(sent'[ch])
    BY SentGrows, WrittenGrows
  <1>4. CASE UNCHANGED <<taken, readPos>> /\ dialing' \in [Screen -> Channel \cup {NoChannel}]
    BY <1>1, <1>2, <1>3, <1>4 DEF Reading
  <1>5. ASSUME NEW ch \in Channel, Uplink(ch) PROVE Reading'
    <2>1. /\ taken[ch] + 1 <= Len(written[ch]) /\ taken' = [taken EXCEPT ![ch] = @ + 1]
          /\ UNCHANGED <<dialing, readPos>>
      BY <1>1, <1>2, <1>5 DEF Uplink
    <2>2. taken' \in [Channel -> Nat] /\ \A k \in Channel : taken'[k] <= Len(written[k])
      BY <1>1, <2>1
    <2> QED
      BY <1>1, <1>2, <1>3, <2>1, <2>2 DEF Reading
  <1>6. ASSUME NEW s \in Screen, Downlink(s) PROVE Reading'
    <2>1. /\ webSocket[s] \in Channel
          /\ readPos[webSocket[s]] + 1 <= Len(sent[webSocket[s]])
          /\ readPos' = [readPos EXCEPT ![webSocket[s]] = @ + 1]
          /\ UNCHANGED <<dialing, taken>>
      BY <1>6, DownlinkCases, ServerFacts DEF Typed
    <2>2. readPos' \in [Channel -> Nat] /\ \A k \in Channel : readPos'[k] <= Len(sent[k])
      BY <1>1, <2>1
    <2> QED
      BY <1>1, <1>2, <1>3, <2>1, <2>2 DEF Reading
  <1>7. ASSUME NEW s \in Screen, NEW ch \in Channel, Dial(s, ch) PROVE Reading'
    BY <1>1, <1>4, <1>7 DEF Dial
  <1>8. ASSUME NEW s \in Screen, LoadOrDialFails(s) \/ SocketOpens(s) PROVE Reading'
    <2>1. dialing' \in [Screen -> Channel \cup {NoChannel}] /\ UNCHANGED <<taken, readPos>>
      BY <1>1, <1>8 DEF LoadOrDialFails, SocketOpens
    <2> QED
      BY <1>4, <2>1
  <1>9. CASE UNCHANGED <<dialing, taken, readPos>>
    BY <1>1, <1>4, <1>9
  <1>10. ASSUME NEW s \in Screen,
                \/ Open(s) \/ Load(s) \/ Leave(s)
                \/ \E id \in MessageId, content \in Content : Send(s, id, content)
                \/ \E h \in handlers[s] : Answer(s, h) \/ AnswerLost(s, h) \/ Resume(s, h)
         PROVE  Reading'
    BY <1>9, <1>10 DEF Open, Load, Leave, Send, Answer, AnswerLost, Resume
  <1>11. CASE ServerStep \/ ScriptStep \/ UNCHANGED vars
    BY <1>9, <1>11 DEF ServerStep, ScriptStep, vars
  <1> QED
    BY <1>5, <1>6, <1>7, <1>8, <1>10, <1>11 DEF Next

\* Every step preserves the types.
LEMMA TypedStep == Typed /\ [Next]_vars => Typed'
  BY SentGrows, ReadingStep, ClientStep DEF Typed

\* The types hold at first.
LEMMA TypedInit == Init => Typed
PROOF
  <1> SUFFICES ASSUME Init PROVE Typed
    OBVIOUS
  <1>1. ServerInv
    BY ServerInvInit
  <1>2. ClientSide!TypeOK /\ ClientSide!ScreenInv
    BY SameClientState, ClientAssumed, ClientSide!InitType, ClientSide!InitScreen DEF Init
  <1>3. Reading
    BY DEF Init, Reading, Client!Init, Server!Init
  <1> QED
    BY <1>1, <1>2, <1>3, SameClientState DEF Typed

\* The server, the client and what lies between them keep their types, and
\* nothing is read that was not sent: the bounds on handlers follow from the
\* bound on what is published.
THEOREM MessengerTypeCorrect == Spec => []TypeOK
PROOF
  <1>1. Typed => TypeOK
    BY SameState DEF Typed, Reading, TypeOK, ServerInv, ServerSide!ChatInv, ServerSide!TypeInv
  <1> QED
    BY <1>1, TypedInit, TypedStep, PTL DEF Spec

\* Every behaviour of the whole is, for the server, one of its own: all that
\* is proved of the server alone holds of it in the hands of this client.
THEOREM ServerWithin == Spec => ServerSide!Spec
PROOF
  <1>1. Init => ServerSide!Init
    BY SameState DEF Init
  <1>2. Typed /\ [Next]_vars => [ServerSide!Next]_(ServerSide!vars)
    BY ServerTakesPart DEF Typed, Client!TypeOK, Client!Payload, Payload
  <1> QED
    BY <1>1, <1>2, TypedInit, TypedStep, PTL DEF Spec, ServerSide!Spec

----------------------------------------------------------------------------
(* What is on the lists of the screens.                                    *)

\* The lists of a screen: the one it shows, and those its handlers captured
\* before they were suspended, any of which may be shown again.
Lists(s) == {shown[s]} \cup {h.base : h \in handlers[s]}

\* A screen's websocket, or the one it is opening.
Serves(ch, s) == ch # NoChannel /\ (webSocket[s] = ch \/ dialing[s] = ch)

\* A new message is on its way from its controller to its consumer.
Waits(ch, i) == i \in DOMAIN written[ch] /\ i > taken[ch]

\* What ShownAsPublished says of one message m on a list of screen s.
Told(s, m) ==
  \/ m.author = author[s] /\ PublishedAs(m.id) = {}
  \/ /\ \A n \in PublishedAs(m.id) : log[n].user = m.author /\ log[n].chat = chat[s]
     /\ \E n \in DOMAIN log :
          Writes(log[n].payload, m.id) /\ log[n].payload.content = m.content

\* Event p came to screen s before the one at this position of its socket: the
\* consumer joined after it, or sent it before.
SeenBefore(ch, position, p) ==
  p <= joinedAt[ch] \/ \E q \in DOMAIN sent[ch] : q < position /\ sent[ch][q] = p

\* The messages of others on a list have come before.
OldList(s, ch, list, position) ==
  \A i \in DOMAIN list : \A p \in PublishedAs(list[i].id) :
    log[p].user = author[s] \/ SeenBefore(ch, position, p)

DistinctIds(list) == \A i, j \in DOMAIN list : list[i].id = list[j].id => i = j

\* A message that was neither written to a socket nor published is on every
\* list of its screen or on none: the identifier is not free for another.
KeptLocally(s) ==
  \A a, b \in Lists(s) : \A i \in DOMAIN a :
    \/ PublishedAs(a[i].id) # {}
    \/ \E ch \in Channel : \E k \in DOMAIN written[ch] : written[ch][k].id = a[i].id
    \/ a[i].id \in Client!Ids(b)

\* The consumer of a screen's websocket serves the screen's user in its chat,
\* and has sent it events of others there, published since it joined.
ChannelOf(s, ch) ==
  /\ phase[ch] # "unused"
  /\ scope_user[ch] = author[s]
  /\ phase[ch] = "connected" => chat_id[ch] = chat[s]
  /\ \A q \in DOMAIN sent[ch] :
       log[sent[ch][q]].chat = chat[s] /\ log[sent[ch][q]].user # author[s]
  /\ OldList(s, ch, shown[s], readPos[ch] + 1)

\* A suspended handler: what its list has seen, the event it is for, and the
\* answer it has got.
HandlerOf(s, h) ==
  /\ ~Client!Closed(s) => webSocket[s] # NoChannel
  /\ webSocket[s] # NoChannel =>
       LET ch == webSocket[s]
       IN  /\ h.n \in DOMAIN sent[ch] /\ h.n <= readPos[ch]
           /\ log[sent[ch][h.n]].payload.event_name = h.event_name
           /\ log[sent[ch][h.n]].payload.id = h.id
           /\ OldList(s, ch, h.base, h.n)
  /\ PublishedAs(h.id) # {}
  /\ h.reply # NoMessage =>
       /\ h.reply.id = h.id
       /\ \A n \in PublishedAs(h.id) : log[n].user = h.reply.author
       /\ \E n \in DOMAIN log :
            Writes(log[n].payload, h.id) /\ log[n].payload.content = h.reply.content

\* What a message that waits on its way up meets: nobody has published it, and
\* where it is shown, it is by its user, in its chat, with its text.
WaitingOf(ch, i) ==
  /\ IsNew(written[ch][i])
  /\ PublishedAs(written[ch][i].id) = {}
  /\ \A s \in Screen : \A list \in Lists(s) : \A k \in DOMAIN list :
       list[k].id = written[ch][i].id =>
         /\ scope_user[ch] = author[s]
         /\ phase[ch] = "connected" => chat_id[ch] = chat[s]
         /\ list[k].content = written[ch][i].content

WrittenOnce ==
  \A a, b \in Channel : \A i \in DOMAIN written[a], j \in DOMAIN written[b] :
    written[a][i].id = written[b][j].id => a = b /\ i = j

ScreenLists(s) ==
  /\ \A list \in Lists(s) :
       DistinctIds(list) /\ \A i \in DOMAIN list : Told(s, list[i])
  /\ KeptLocally(s)
  /\ dialing[s] # NoChannel => awaiting[s] = "socket"
  /\ \A ch \in Channel : Serves(ch, s) => ChannelOf(s, ch)
  /\ \A h \in handlers[s] : HandlerOf(s, h)

ChannelLists(ch) ==
  /\ \A i \in DOMAIN written[ch] : Waits(ch, i) => WaitingOf(ch, i)
  /\ phase[ch] = "unused" => written[ch] = << >>

ListsInv ==
  /\ Typed
  /\ \A s \in Screen : ScreenLists(s)
  /\ \A ch \in Channel : ChannelLists(ch)
  /\ WrittenOnce

----------------------------------------------------------------------------
(* What a step leaves as it was.                                           *)

\* The part of the client's state that belongs to one screen.
View(s) == <<shown[s], handlers[s], awaiting[s], closing[s], webSocket[s], dialing[s]>>

\* No position goes back.
LEMMA ReadGrows ==
  ASSUME Typed, [Next]_vars, NEW ch \in Channel
  PROVE  readPos[ch] \in Nat /\ readPos'[ch] \in Nat /\ readPos[ch] <= readPos'[ch]
PROOF
  <1>1. readPos \in [Channel -> Nat]
    BY DEF Typed, Reading
  <1>2. CASE UNCHANGED readPos
    BY <1>1, <1>2
  <1>3. ASSUME NEW s \in Screen, Downlink(s)
        PROVE  readPos'[ch] \in Nat /\ readPos[ch] <= readPos'[ch]
    <2>1. readPos' = [readPos EXCEPT ![webSocket[s]] = @ + 1]
      BY <1>3, DownlinkCases
    <2> QED
      BY <1>1, <2>1
  <1>4. Next => UNCHANGED readPos \/ \E s \in Screen : Downlink(s)
    BY DEF Next, Open, Load, LoadOrDialFails, SocketOpens, Leave, Dial, Send, Answer, AnswerLost,
         Resume, Uplink, ServerStep, ScriptStep
  <1> QED
    BY <1>1, <1>2, <1>3, <1>4 DEF vars

\* A step of the server, as its own lemmas want it.
LEMMA ServerMoves ==
  ASSUME Typed, [Next]_vars
  PROVE  /\ [ServerSide!Next]_(ServerSide!vars)
         /\ ServerSide!TypeInv
         /\ ServerSide!ChatInv
  BY ServerTakesPart DEF Typed, Client!TypeOK, Client!Payload, Payload, ServerInv, ServerSide!ChatInv

\* A websocket that was opened keeps its user, its chat while it is connected,
\* and sends on events of others in that chat.
LEMMA Forwarded ==
  ASSUME Typed, [Next]_vars, NEW ch \in Channel, phase[ch] # "unused", NEW user, NEW c,
         scope_user[ch] = user, phase[ch] = "connected" => chat_id[ch] = c,
         \A q \in DOMAIN sent[ch] : log[sent[ch][q]].chat = c /\ log[sent[ch][q]].user # user
  PROVE  /\ phase'[ch] # "unused" /\ joinedAt'[ch] = joinedAt[ch]
         /\ scope_user'[ch] = user
         /\ phase'[ch] = "connected" => chat_id'[ch] = c
         /\ \A q \in DOMAIN sent'[ch] :
              log'[sent'[ch][q]].chat = c /\ log'[sent'[ch][q]].user # user
PROOF
  <1> USE ServerAssumed
  <1>1. /\ phase'[ch] # "unused"
        /\ scope_user'[ch] = scope_user[ch]
        /\ joinedAt'[ch] = joinedAt[ch]
        /\ phase'[ch] = "connected" => phase[ch] = "connected" /\ chat_id'[ch] = chat_id[ch]
        /\ \/ sent'[ch] = sent[ch]
           \/ /\ ServerSide!Pending(ch) /\ ~ServerSide!OwnEvent(ch) /\ log' = log
              /\ sent'[ch] = Append(sent[ch], Head(queue[ch]))
    BY ServerMoves, ServerSide!ChannelStep
  <1>2. \A q \in DOMAIN sent[ch] : sent[ch][q] \in DOMAIN log /\ log'[sent[ch][q]] = log[sent[ch][q]]
    BY ServerFacts, SentGrows DEF Typed
  <1>3. CASE sent'[ch] = sent[ch]
    BY <1>1, <1>2, <1>3
  <1>4. CASE /\ ServerSide!Pending(ch) /\ ~ServerSide!OwnEvent(ch) /\ log' = log
             /\ sent'[ch] = Append(sent[ch], Head(queue[ch]))
    <2>1. /\ Head(queue[ch]) \in 1 .. Len(log) /\ queue[ch] # << >>
          /\ queue[ch] \in Seq(1 .. Len(log))
      BY <1>4, ServerMoves, ServerSide!PendingFacts
      DEF ServerSide!Pending, ServerSide!TypeInv, ServerSide!TypeOK
    <2>2. Head(queue[ch]) \in ServerSide!Range(queue[ch])
      BY <2>1, RangeFacts DEF Range, ServerSide!Range
    <2>3. log[Head(queue[ch])].chat = c /\ log[Head(queue[ch])].user # user
      BY <1>4, <2>2, ServerMoves
      DEF ServerSide!ChatInv, ServerSide!QueuedInChat, ServerSide!Pending, ServerSide!OwnEvent
    <2>4. sent[ch] \in Seq(1 .. Len(log)) /\ DOMAIN sent[ch] = 1 .. Len(sent[ch])
      BY ServerFacts DEF Typed
    <2>5. \A q \in DOMAIN sent'[ch] :
            \/ q \in DOMAIN sent[ch] /\ sent'[ch][q] = sent[ch][q]
            \/ sent'[ch][q] = Head(queue[ch])
      BY <1>4, <2>1, <2>4
    <2> QED
      BY <1>1, <1>2, <1>4, <2>3, <2>5
  <1> QED
    BY <1>1, <1>3, <1>4

\* What has come before still has when more is sent, read and published.
LEMMA OldStaysOld ==
  ASSUME Typed, [Next]_vars, log' = log, NEW s \in Screen, NEW ch \in Channel,
         phase[ch] # "unused", NEW list, NEW m \in Nat, NEW n \in Nat, m <= n,
         OldList(s, ch, list, m)
  PROVE  OldList(s, ch, list, n)'
PROOF
  <1>1. /\ joinedAt'[ch] = joinedAt[ch]
        /\ \A q \in DOMAIN sent[ch] : q \in DOMAIN sent'[ch] /\ sent'[ch][q] = sent[ch][q]
    BY ServerAssumed, ServerMoves, ServerSide!ChannelStep, SentGrows
  <1>2. DOMAIN sent[ch] \subseteq Nat
    BY ServerFacts DEF Typed
  <1>3. \A p : SeenBefore(ch, m, p) => SeenBefore(ch, n, p)'
    BY <1>1, <1>2 DEF SeenBefore
  <1>4. \A id : PublishedAs(id)' = PublishedAs(id)
    BY DEF PublishedAs
  <1> QED
    BY <1>3, <1>4 DEF OldList

\* The lists of a screen whose own part does not change, while nothing is
\* published.
LEMMA QuietScreen ==
  ASSUME ListsInv, [Next]_vars, log' = log, NEW s \in Screen, UNCHANGED View(s)
  PROVE  ScreenLists(s)'
PROOF
  <1>1. Typed /\ ScreenLists(s)
    BY DEF ListsInv
  <1>2. UNCHANGED <<shown[s], handlers[s], awaiting[s], closing[s], webSocket[s], dialing[s]>>
    BY DEF View
  <1>3. Lists(s)' = Lists(s)
    BY <1>2 DEF Lists
  <1>4. \A id : PublishedAs(id)' = PublishedAs(id)
    BY DEF PublishedAs
  <1>5. \A m : Told(s, m) => Told(s, m)'
    BY <1>4 DEF Told
  <1>6. \A list \in Lists(s)' : DistinctIds(list) /\ \A i \in DOMAIN list : Told(s, list[i])'
    BY <1>1, <1>3, <1>5 DEF ScreenLists
  <1>7. KeptLocally(s)'
    <2>1. \A ch \in Channel : \A i \in DOMAIN written[ch] :
            i \in DOMAIN written'[ch] /\ written'[ch][i] = written[ch][i]
      BY <1>1, WrittenGrows
    <2> QED
      BY <1>1, <1>3, <1>4, <2>1 DEF ScreenLists, KeptLocally
  <1>8. ASSUME NEW ch \in Channel, Serves(ch, s)' PROVE ChannelOf(s, ch)'
    <2>1. Serves(ch, s)
      BY <1>2, <1>8 DEF Serves
    <2>2. ChannelOf(s, ch)
      BY <1>1, <2>1 DEF ScreenLists
    <2>3. /\ phase'[ch] # "unused" /\ scope_user'[ch] = author[s]
          /\ phase'[ch] = "connected" => chat_id'[ch] = chat[s]
          /\ \A q \in DOMAIN sent'[ch] :
               log'[sent'[ch][q]].chat = chat[s] /\ log'[sent'[ch][q]].user # author[s]
      BY <1>1, <2>2, Forwarded DEF ChannelOf
    <2>4. OldList(s, ch, shown[s], readPos[ch] + 1)
      BY <2>2 DEF ChannelOf
    <2>5. phase[ch] # "unused"
      BY <2>2 DEF ChannelOf
    <2>6. ASSUME NEW list, NEW m \in Nat, NEW n \in Nat, m <= n, OldList(s, ch, list, m)
          PROVE  OldList(s, ch, list, n)'
      BY <1>1, <2>5, <2>6, OldStaysOld
    <2>7. /\ readPos[ch] + 1 \in Nat /\ readPos'[ch] + 1 \in Nat
          /\ readPos[ch] + 1 <= readPos'[ch] + 1
      BY <1>1, ReadGrows
    <2>8. OldList(s, ch, shown[s], readPos[ch] + 1)'
      <3>1. PICK list, n : list = shown[s] /\ n = readPos'[ch] + 1
        OBVIOUS
      <3>2. OldList(s, ch, list, n)'
        BY <2>4, <2>6, <2>7, <3>1
      <3>3. shown'[s] = list
        BY <1>2, <3>1
      <3> QED
        BY <3>1, <3>2, <3>3 DEF OldList, SeenBefore
    <2> QED
      BY <2>3, <2>8 DEF ChannelOf
  <1>9. ASSUME NEW h \in handlers[s] PROVE HandlerOf(s, h)'
    <2>1. HandlerOf(s, h)
      BY <1>1 DEF ScreenLists
    <2>2. Client!Closed(s)' <=> Client!Closed(s)
      BY <1>2 DEF Client!Closed
    <2>3. ASSUME webSocket[s] # NoChannel, NEW ch, ch = webSocket[s]
          PROVE  /\ h.n \in DOMAIN sent'[ch] /\ h.n <= readPos'[ch]
                 /\ log'[sent'[ch][h.n]].payload.event_name = h.event_name
                 /\ log'[sent'[ch][h.n]].payload.id = h.id
                 /\ OldList(s, ch, h.base, h.n)'
      <3>1. ch \in Channel /\ Serves(ch, s)
        BY <1>1, <2>3 DEF Typed, Client!TypeOK, Serves
      <3>2. phase[ch] # "unused"
        BY <1>1, <3>1 DEF ScreenLists, ChannelOf
      <3>3. /\ h.n \in DOMAIN sent[ch] /\ h.n <= readPos[ch]
            /\ log[sent[ch][h.n]].payload.event_name = h.event_name
            /\ log[sent[ch][h.n]].payload.id = h.id
            /\ OldList(s, ch, h.base, h.n)
        BY <2>1, <2>3 DEF HandlerOf
      <3>4. h.n \in Nat
        BY <1>1, <3>1, <3>3, ServerFacts DEF Typed
      <3> DEFINE n == h.n
                 list == h.base
      <3> HIDE DEF n, list
      <3>5. OldList(s, ch, list, n)'
        <4>1. OldList(s, ch, list, n) /\ n \in Nat /\ n <= n
          BY <3>3, <3>4 DEF n, list
        <4> QED
          BY <1>1, <3>1, <3>2, <4>1, OldStaysOld
      <3>6. h.n <= readPos'[ch]
        <4>1. readPos[ch] \in Nat /\ readPos'[ch] \in Nat /\ readPos[ch] <= readPos'[ch]
          BY <1>1, <3>1, ReadGrows
        <4> QED
          BY <3>3, <3>4, <4>1
      <3> QED
        BY <1>1, <3>1, <3>3, <3>5, <3>6, SentGrows DEF n, list
    <2> QED
      BY <1>2, <1>4, <2>1, <2>2, <2>3 DEF HandlerOf
  <1> QED
    BY <1>1, <1>2, <1>6, <1>7, <1>8, <1>9 DEF ScreenLists

\* The messages of a list were on a list of the screen before, or have been
\* published.
Descends(s, list) ==
  \A k \in DOMAIN list :
    \/ PublishedAs(list[k].id) # {}
    \/ \E old \in Lists(s) : \E i \in DOMAIN old :
         old[i].id = list[k].id /\ old[i].content = list[k].content

\* What waits on its way up, while nothing is published or written.
LEMMA QuietChannels ==
  ASSUME ListsInv, [Next]_vars, UNCHANGED <<log, written, taken>>,
         \A s \in Screen : \A list \in Lists(s)' : Descends(s, list)
  PROVE  (\A ch \in Channel : ChannelLists(ch)') /\ WrittenOnce'
PROOF
  <1>1. WrittenOnce'
    BY DEF ListsInv, WrittenOnce
  <1>2. \A id : PublishedAs(id)' = PublishedAs(id)
    BY DEF PublishedAs
  <1>3. ASSUME NEW ch \in Channel PROVE ChannelLists(ch)'
    <2>1. ChannelLists(ch)
      BY DEF ListsInv
    <2>2. phase[ch] # "unused" =>
            /\ phase'[ch] # "unused" /\ scope_user'[ch] = scope_user[ch]
            /\ phase'[ch] = "connected" => phase[ch] = "connected" /\ chat_id'[ch] = chat_id[ch]
      BY ServerMoves, ServerAssumed, ServerSide!ChannelStep DEF ListsInv
    <2>3. phase'[ch] = "unused" => written'[ch] = << >>
      BY <2>1, <2>2 DEF ChannelLists
    <2>4. ASSUME NEW i \in DOMAIN written[ch], Waits(ch, i)' PROVE WaitingOf(ch, i)'
      <3>1. Waits(ch, i)
        BY <2>4 DEF Waits
      <3>2. WaitingOf(ch, i)
        BY <2>1, <3>1 DEF ChannelLists
      <3>3. phase[ch] # "unused"
        <4>1. written[ch] # << >>
          BY <2>4
        <4> QED
          BY <2>1, <4>1 DEF ChannelLists
      <3>4. ASSUME NEW s \in Screen, NEW list \in Lists(s)', NEW k \in DOMAIN list,
                   list[k].id = written[ch][i].id
            PROVE  /\ scope_user'[ch] = author[s]
                   /\ phase'[ch] = "connected" => chat_id'[ch] = chat[s]
                   /\ list[k].content = written[ch][i].content
        <4>1. PublishedAs(list[k].id) = {}
          BY <3>2, <3>4 DEF WaitingOf
        <4>2. PICK old \in Lists(s) : \E j \in DOMAIN old :
                old[j].id = list[k].id /\ old[j].content = list[k].content
          BY <4>1 DEF Descends
        <4> QED
          BY <2>2, <3>2, <3>3, <3>4, <4>2 DEF WaitingOf
      <3> QED
        BY <1>2, <3>2, <3>4 DEF WaitingOf
    <2> QED
      BY <2>3, <2>4 DEF ChannelLists
  <1> QED
    BY <1>1, <1>3

\* A step in which nobody publishes and one screen takes part, if any: what is
\* left to show is what the screen's lists are after it.
LEMMA ScreenMoves ==
  ASSUME ListsInv, [Next]_vars, UNCHANGED <<log, written, taken>>, NEW s \in Screen,
         \A z \in Screen \ {s} : UNCHANGED View(z),
         ScreenLists(s)', \A list \in Lists(s)' : Descends(s, list)
  PROVE  ListsInv'
PROOF
  <1>1. Typed'
    BY TypedStep DEF ListsInv
  <1>2. ASSUME NEW z \in Screen PROVE ScreenLists(z)' /\ \A list \in Lists(z)' : Descends(z, list)
    <2>1. CASE z = s
      BY <2>1
    <2>2. CASE z # s
      <3>1. UNCHANGED View(z)
        BY <2>2
      <3>2. Lists(z)' = Lists(z)
        BY <3>1 DEF Lists, View
      <3> QED
        BY <3>1, <3>2, QuietScreen DEF Descends
    <2> QED
      BY <2>1, <2>2
  <1> QED
    BY <1>1, <1>2, QuietChannels DEF ListsInv

\* The server on its own.
LEMMA ServerListsStep ==
  ASSUME ListsInv, [Next]_vars, UNCHANGED <<log, clientVars, dialing, taken>>
  PROVE  ListsInv'
PROOF
  <1>1. Typed'
    BY TypedStep DEF ListsInv
  <1>2. \A s \in Screen : UNCHANGED View(s)
    BY DEF View, clientVars
  <1>3. \A s \in Screen : ScreenLists(s)'
    BY <1>2, QuietScreen
  <1>4. \A s \in Screen : Lists(s)' = Lists(s)
    BY DEF Lists, clientVars
  <1>5. \A s \in Screen : \A list \in Lists(s)' : Descends(s, list)
    BY <1>4 DEF Descends
  <1>6. UNCHANGED <<log, written, taken>>
    BY DEF clientVars
  <1> QED
    BY <1>1, <1>3, <1>5, <1>6, QuietChannels DEF ListsInv

----------------------------------------------------------------------------
(* A screen that has no handlers: it is opened, loads and connects.        *)

\* A screen that awaits something, or has nothing to show, has no handlers and
\* no websocket.
LEMMA IdleScreen ==
  ASSUME Typed, NEW s \in Screen,
         awaiting[s] # "nothing" \/ state[s] \in {"uninitialized", "fatal"}
  PROVE  handlers[s] = {} /\ webSocket[s] = NoChannel
  BY DEF Typed, Client!TypeOK, ClientSide!ScreenInv, ClientSide!Matches

\* Without handlers there is one list to look at.
LEMMA LoneList ==
  ASSUME NEW s \in Screen, handlers'[s] = {}, DistinctIds(shown'[s]),
         \A i \in DOMAIN shown'[s] : Told(s, shown[s][i])',
         dialing'[s] # NoChannel => awaiting'[s] = "socket",
         \A ch \in Channel : Serves(ch, s)' => ChannelOf(s, ch)'
  PROVE  ScreenLists(s)' /\ Lists(s)' = {shown'[s]}
PROOF
  <1>1. Lists(s)' = {shown'[s]}
    BY DEF Lists
  <1>2. KeptLocally(s)'
    BY <1>1 DEF KeptLocally, Client!Ids
  <1>3. \A list \in Lists(s)' : DistinctIds(list) /\ \A i \in DOMAIN list : Told(s, list[i])'
    BY <1>1 DEF Told, PublishedAs
  <1> QED
    BY <1>1, <1>2, <1>3 DEF ScreenLists

\* The empty list.
LEMMA NoList ==
  ASSUME NEW s \in Screen, handlers'[s] = {}, shown'[s] = << >>,
         dialing'[s] = NoChannel, webSocket'[s] = NoChannel
  PROVE  ScreenLists(s)' /\ \A list \in Lists(s)' : Descends(s, list)
PROOF
  <1>1. DOMAIN << >> = {}
    OBVIOUS
  <1>2. \A ch \in Channel : ~Serves(ch, s)'
    BY DEF Serves
  <1>3. ScreenLists(s)' /\ Lists(s)' = {shown'[s]}
    BY <1>1, <1>2, LoneList DEF DistinctIds
  <1> QED
    BY <1>1, <1>3 DEF Descends

\* A screen is opened: its list is emptied, and its history is asked for.
LEMMA OpenLists ==
  ASSUME ListsInv, [Next]_vars, NEW s \in Screen, Open(s)
  PROVE  ListsInv'
PROOF
  <1>1. Typed /\ ScreenLists(s)
    BY DEF ListsInv
  <1>2. /\ ~Client!Closed(s) /\ state[s] \in {"uninitialized", "fatal"}
        /\ shown' = [shown EXCEPT ![s] = << >>]
        /\ awaiting' = [awaiting EXCEPT ![s] = "history"]
        /\ UNCHANGED <<closing, webSocket, handlers, written, log, dialing, taken>>
    BY DEF Open, Client!Initialize, Client!Emit, Client!Closed, serverVars
  <1>3. handlers[s] = {} /\ webSocket[s] = NoChannel
    BY <1>1, <1>2, IdleScreen
  <1>4. dialing[s] = NoChannel
    BY <1>1, <1>2 DEF ScreenLists, Typed, ClientSide!ScreenInv, ClientSide!Matches
  <1>5. shown'[s] = << >> /\ \A z \in Screen \ {s} : UNCHANGED View(z)
    BY <1>1, <1>2 DEF View, Typed, Client!TypeOK
  <1>6. ScreenLists(s)' /\ \A list \in Lists(s)' : Descends(s, list)
    BY <1>2, <1>3, <1>4, <1>5, NoList
  <1> QED
    BY <1>2, <1>5, <1>6, ScreenMoves

\* The history or the socket fails: the list is as it was, or is emptied.
LEMMA FailsLists ==
  ASSUME ListsInv, [Next]_vars, NEW s \in Screen, LoadOrDialFails(s)
  PROVE  ListsInv'
PROOF
  <1>1. Typed /\ ScreenLists(s)
    BY DEF ListsInv
  <1>2. /\ awaiting[s] # "nothing"
        /\ shown' = shown \/ shown' = [shown EXCEPT ![s] = << >>]
        /\ awaiting' = [awaiting EXCEPT ![s] = "nothing"]
        /\ dialing' = [dialing EXCEPT ![s] = NoChannel]
        /\ UNCHANGED <<closing, webSocket, handlers, written, log, taken>>
    BY DEF LoadOrDialFails, Client!InitializeFails, Client!Emit, serverVars
  <1>3. handlers[s] = {} /\ webSocket[s] = NoChannel
    BY <1>1, <1>2, IdleScreen
  <1>4. /\ shown'[s] \in {shown[s], << >>} /\ dialing'[s] = NoChannel
        /\ \A z \in Screen \ {s} : UNCHANGED View(z)
    BY <1>1, <1>2 DEF View, Typed, Client!TypeOK, Reading
  <1>5. CASE shown'[s] = << >>
    <2>1. ScreenLists(s)' /\ \A list \in Lists(s)' : Descends(s, list)
      BY <1>2, <1>3, <1>4, <1>5, NoList
    <2> QED
      BY <1>2, <1>4, <2>1, ScreenMoves
  <1>6. CASE shown'[s] = shown[s]
    <2>1. \A m : Told(s, m)' <=> Told(s, m)
      BY <1>2 DEF Told, PublishedAs
    <2>2. DistinctIds(shown[s]) /\ \A i \in DOMAIN shown[s] : Told(s, shown[s][i])
      BY <1>1 DEF ScreenLists, Lists
    <2>3. \A ch \in Channel : ~Serves(ch, s)'
      BY <1>2, <1>3, <1>4 DEF Serves
    <2>4. \A i \in DOMAIN shown'[s] : Told(s, shown[s][i])'
      BY <1>2, <1>6, <2>2 DEF Told, PublishedAs
    <2>5. ScreenLists(s)' /\ Lists(s)' = {shown'[s]}
      BY <1>2, <1>3, <1>4, <1>6, <2>2, <2>3, <2>4, LoneList
    <2>6. \A list \in Lists(s)' : Descends(s, list)
      BY <1>6, <2>5 DEF Descends, Lists
    <2> QED
      BY <1>2, <1>4, <2>5, <2>6, ScreenMoves
  <1> QED
    BY <1>4, <1>5, <1>6

\* The history: stored messages of the chat, each once.
LEMMA LoadLists ==
  ASSUME ListsInv, [Next]_vars, NEW s \in Screen, Load(s)
  PROVE  ListsInv'
PROOF
  <1> DEFINE list == HistoryOf(chat[s])
  <1>1. Typed /\ ScreenLists(s)
    BY DEF ListsInv
  <1>2. /\ awaiting[s] = "history"
        /\ shown' = shown \/ shown' = [shown EXCEPT ![s] = list]
        /\ \E x : awaiting' = [awaiting EXCEPT ![s] = x]
        /\ UNCHANGED <<closing, webSocket, handlers, written, log, dialing, taken, messages>>
    BY DEF Load, Client!HistoryArrives, Client!Emit, serverVars
  <1>3. handlers[s] = {} /\ webSocket[s] = NoChannel
    BY <1>1, <1>2, IdleScreen
  <1>4. /\ shown'[s] = shown[s] \/ shown'[s] = list
        /\ \A z \in Screen \ {s} : UNCHANGED View(z)
    BY <1>1, <1>2 DEF View, Typed, Client!TypeOK
  <1>5. dialing[s] = NoChannel
    BY <1>1, <1>2 DEF ScreenLists
  <1>6. \A ch \in Channel : ~Serves(ch, s)'
    BY <1>2, <1>3, <1>5 DEF Serves
  <1>7. ASSUME NEW k \in DOMAIN list
        PROVE  /\ PublishedAs(list[k].id) # {}
               /\ \A n \in PublishedAs(list[k].id) : log[n].user = list[k].author /\ log[n].chat = chat[s]
               /\ \E n \in DOMAIN log :
                    Writes(log[n].payload, list[k].id) /\ log[n].payload.content = list[k].content
    <2>1. /\ list[k].id \in MessageId /\ messages[list[k].id] # NoMessage
          /\ messages[list[k].id].chat = chat[s] /\ list[k] = BubbleOf(list[k].id)
      BY <1>1, HistoryFacts DEF Typed
    <2> DEFINE id == list[k].id
    <2>2. /\ PublishedAs(id) # {}
          /\ \A n \in PublishedAs(id) :
               log[n].user = BubbleOf(id).author /\ log[n].chat = messages[id].chat
          /\ \E n \in DOMAIN log :
               Writes(log[n].payload, id) /\ log[n].payload.content = BubbleOf(id).content
      <3> HIDE DEF id
      <3> QED
        BY <1>1, <2>1, StoredFacts DEF Typed, id
    <2> QED
      BY <2>1, <2>2
  <1>8. DistinctIds(list)
    BY <1>1, HistoryFacts DEF Typed, DistinctIds
  <1> HIDE DEF list
  <1>9. \A k \in DOMAIN list : Told(s, list[k])
    BY <1>7 DEF Told
  <1>10. DistinctIds(shown[s]) /\ \A i \in DOMAIN shown[s] : Told(s, shown[s][i])
    BY <1>1 DEF ScreenLists, Lists
  <1>11. DistinctIds(shown'[s]) /\ \A i \in DOMAIN shown'[s] : Told(s, shown[s][i])'
    BY <1>2, <1>4, <1>8, <1>9, <1>10 DEF Told, PublishedAs
  <1>12. ScreenLists(s)' /\ Lists(s)' = {shown'[s]}
    BY <1>2, <1>3, <1>5, <1>6, <1>11, LoneList
  <1>13. \A l \in Lists(s)' : Descends(s, l)
    BY <1>4, <1>7, <1>12 DEF Descends, Lists
  <1> QED
    BY <1>2, <1>4, <1>12, <1>13, ScreenMoves

\* A consumer that has just joined has sent nothing, and all that is known by
\* then comes before it.
LEMMA DialLists ==
  ASSUME ListsInv, [Next]_vars, NEW s \in Screen, NEW ch \in Channel, Dial(s, ch)
  PROVE  ListsInv'
PROOF
  <1>1. Typed /\ ScreenLists(s)
    BY DEF ListsInv
  <1>2. /\ awaiting[s] = "socket" /\ phase[ch] = "unused"
        /\ phase'[ch] = "connected" /\ scope_user'[ch] = author[s] /\ chat_id'[ch] = chat[s]
        /\ joinedAt'[ch] = Len(log) /\ sent' = sent
        /\ dialing' = [dialing EXCEPT ![s] = ch]
        /\ UNCHANGED <<shown, awaiting, closing, webSocket, handlers, written, log, taken>>
    <2>1. /\ DOMAIN phase = Channel /\ DOMAIN scope_user = Channel /\ DOMAIN chat_id = Channel
          /\ DOMAIN joinedAt = Channel
      BY <1>1, ServerMoves DEF ServerSide!TypeInv, ServerSide!TypeOK
    <2> QED
      BY <2>1 DEF Dial, Server!Connect, clientVars
  <1>3. handlers[s] = {} /\ webSocket[s] = NoChannel
    BY <1>1, <1>2, IdleScreen
  <1>4. dialing'[s] = ch /\ \A z \in Screen \ {s} : UNCHANGED View(z)
    BY <1>1, <1>2 DEF View, Typed, Reading
  <1>5. /\ DistinctIds(shown'[s]) /\ \A i \in DOMAIN shown'[s] : Told(s, shown[s][i])'
        /\ \A l \in {shown'[s]} : Descends(s, l)
    BY <1>1, <1>2 DEF ScreenLists, Lists, Told, PublishedAs, Descends
  <1>6. ASSUME NEW k \in Channel, Serves(k, s)' PROVE ChannelOf(s, k)'
    <2>1. k = ch
      BY <1>2, <1>3, <1>4, <1>6 DEF Serves
    <2>2. sent'[ch] = << >> /\ DOMAIN << >> = {}
      BY <1>1, <1>2, ServerFacts DEF Typed
    <2>3. \A p \in DOMAIN log : p <= joinedAt'[ch]
      BY <1>1, <1>2, ServerFacts DEF Typed
    <2>4. OldList(s, ch, shown[s], readPos[ch] + 1)'
      BY <1>2, <2>3 DEF OldList, SeenBefore, PublishedAs
    <2> QED
      BY <1>2, <2>1, <2>2, <2>4 DEF ChannelOf
  <1>7. ScreenLists(s)' /\ Lists(s)' = {shown'[s]}
    BY <1>2, <1>3, <1>5, <1>6, LoneList
  <1> QED
    BY <1>2, <1>4, <1>5, <1>7, ScreenMoves

\* The socket opens: its channel is the one that was dialed.
LEMMA SocketLists ==
  ASSUME ListsInv, [Next]_vars, NEW s \in Screen, SocketOpens(s)
  PROVE  ListsInv'
PROOF
  <1>1. Typed /\ ScreenLists(s)
    BY DEF ListsInv
  <1>2. /\ awaiting[s] = "socket" /\ dialing[s] # NoChannel
        /\ webSocket' = [webSocket EXCEPT ![s] = dialing[s]]
        /\ dialing' = [dialing EXCEPT ![s] = NoChannel]
        /\ \E x : awaiting' = [awaiting EXCEPT ![s] = x]
        /\ UNCHANGED <<shown, closing, handlers, written, log, taken, serverVars, readPos>>
    BY DEF SocketOpens, Client!SocketOpens, serverVars
  <1>3. handlers[s] = {} /\ webSocket[s] = NoChannel
    BY <1>1, <1>2, IdleScreen
  <1>4. /\ dialing'[s] = NoChannel /\ webSocket'[s] = dialing[s]
        /\ \A z \in Screen \ {s} : UNCHANGED View(z)
    BY <1>1, <1>2 DEF View, Typed, Reading, Client!TypeOK
  <1>5. /\ DistinctIds(shown'[s]) /\ \A i \in DOMAIN shown'[s] : Told(s, shown[s][i])'
        /\ \A l \in {shown'[s]} : Descends(s, l)
    BY <1>1, <1>2 DEF ScreenLists, Lists, Told, PublishedAs, Descends
  <1>6. ASSUME NEW k \in Channel, Serves(k, s)' PROVE ChannelOf(s, k)'
    <2>1. Serves(k, s)
      BY <1>2, <1>4, <1>6 DEF Serves
    <2>2. ChannelOf(s, k)
      BY <1>1, <2>1 DEF ScreenLists
    <2> QED
      BY <1>2, <2>2 DEF ChannelOf, OldList, SeenBefore, PublishedAs, serverVars
  <1>7. ScreenLists(s)' /\ Lists(s)' = {shown'[s]}
    BY <1>2, <1>3, <1>4, <1>5, <1>6, LoneList
  <1> QED
    BY <1>2, <1>4, <1>5, <1>7, ScreenMoves

----------------------------------------------------------------------------
(* A screen with a websocket.                                              *)

\* What came before one event of a socket came before a later one.
LEMMA EarlierList ==
  ASSUME Typed, NEW s, NEW ch \in Channel, NEW list, NEW m \in Nat, NEW n \in Nat, m <= n,
         OldList(s, ch, list, m)
  PROVE  OldList(s, ch, list, n)
PROOF
  <1>1. DOMAIN sent[ch] \subseteq Nat
    BY ServerFacts DEF Typed
  <1> QED
    BY <1>1 DEF OldList, SeenBefore

\* What there is to show of a screen whose socket, if it keeps it, is the same.
LEMMA ConnectedScreen ==
  ASSUME ListsInv, [Next]_vars, UNCHANGED serverVars, NEW s \in Screen,
         webSocket'[s] \in {webSocket[s], NoChannel}, UNCHANGED <<awaiting[s], dialing[s]>>,
         \A list \in Lists(s)' : DistinctIds(list) /\ \A i \in DOMAIN list : Told(s, list[i]),
         KeptLocally(s)',
         \A ch \in Channel : Serves(ch, s) => OldList(s, ch, shown'[s], readPos'[ch] + 1),
         \A h \in handlers'[s] : HandlerOf(s, h)'
  PROVE  ScreenLists(s)'
PROOF
  <1>1. Typed /\ ScreenLists(s)
    BY DEF ListsInv
  <1>2. UNCHANGED <<log, phase, scope_user, chat_id, joinedAt, sent>>
    BY DEF serverVars
  <1>3. \A list \in Lists(s)' : DistinctIds(list) /\ \A i \in DOMAIN list : Told(s, list[i])'
    BY <1>2 DEF Told, PublishedAs
  <1>4. dialing'[s] # NoChannel => awaiting'[s] = "socket"
    BY <1>1 DEF ScreenLists
  <1>5. ASSUME NEW ch \in Channel, Serves(ch, s)' PROVE ChannelOf(s, ch)'
    <2>1. Serves(ch, s)
      BY <1>5 DEF Serves
    <2>2. ChannelOf(s, ch) /\ OldList(s, ch, shown'[s], readPos'[ch] + 1)
      BY <1>1, <2>1 DEF ScreenLists
    <2> QED
      BY <1>2, <2>2 DEF ChannelOf, OldList, SeenBefore, PublishedAs
  <1> QED
    BY <1>3, <1>4, <1>5 DEF ScreenLists

\* A handler that is still suspended.
LEMMA SameHandler ==
  ASSUME ListsInv, [Next]_vars, UNCHANGED serverVars, NEW s \in Screen, NEW h \in handlers[s],
         \/ UNCHANGED <<closing[s], webSocket[s]>>
         \/ /\ webSocket'[s] \in {webSocket[s], NoChannel}
            /\ Client!Closed(s)' \/ webSocket'[s] # NoChannel
  PROVE  HandlerOf(s, h)'
PROOF
  <1>1. Typed /\ HandlerOf(s, h)
    BY DEF ListsInv, ScreenLists
  <1>2. UNCHANGED <<log, joinedAt, sent>>
    BY DEF serverVars
  <1>3. ~Client!Closed(s)' => webSocket'[s] # NoChannel
    BY <1>1 DEF HandlerOf, Client!Closed
  <1>4. ASSUME webSocket'[s] # NoChannel
        PROVE  /\ webSocket'[s] = webSocket[s] /\ webSocket[s] \in Channel
               /\ h.n <= readPos'[webSocket[s]]
    <2>1. webSocket'[s] = webSocket[s] /\ webSocket[s] \in Channel
      BY <1>1, <1>4 DEF Typed, Client!TypeOK
    <2>2. h.n \in DOMAIN sent[webSocket[s]] /\ h.n <= readPos[webSocket[s]]
      BY <1>1, <1>4, <2>1 DEF HandlerOf
    <2>3. h.n \in Nat
      BY <1>1, <2>1, <2>2, ServerFacts DEF Typed
    <2>4. /\ readPos[webSocket[s]] \in Nat /\ readPos'[webSocket[s]] \in Nat
          /\ readPos[webSocket[s]] <= readPos'[webSocket[s]]
      BY <1>1, <2>1, ReadGrows
    <2> QED
      BY <2>1, <2>2, <2>3, <2>4
  <1>5. webSocket'[s] # NoChannel =>
          LET ch == webSocket'[s]
          IN  /\ h.n \in DOMAIN sent'[ch] /\ h.n <= readPos'[ch]
              /\ log'[sent'[ch][h.n]].payload.event_name = h.event_name
              /\ log'[sent'[ch][h.n]].payload.id = h.id
              /\ OldList(s, ch, h.base, h.n)
    BY <1>1, <1>2, <1>4 DEF HandlerOf
  <1>6. PublishedAs(h.id)' # {} /\
        (h.reply # NoMessage =>
           /\ h.reply.id = h.id
           /\ \A n \in PublishedAs(h.id)' : log'[n].user = h.reply.author
           /\ \E n \in DOMAIN log' :
                Writes(log'[n].payload, h.id) /\ log'[n].payload.content = h.reply.content)
    BY <1>1, <1>2 DEF HandlerOf, PublishedAs
  <1>7. \A ch : OldList(s, ch, h.base, h.n) => OldList(s, ch, h.base, h.n)'
    BY <1>2 DEF OldList, SeenBefore, PublishedAs
  <1> QED
    BY <1>3, <1>5, <1>6, <1>7 DEF HandlerOf, OldList, SeenBefore, PublishedAs

\* The list of a screen has come before what its socket will bring.
LEMMA ShownIsOld ==
  ASSUME ListsInv, [Next]_vars, NEW s \in Screen, NEW ch \in Channel, Serves(ch, s)
  PROVE  /\ OldList(s, ch, shown[s], readPos'[ch] + 1)
         /\ phase[ch] # "unused"
PROOF
  <1>1. Typed /\ ChannelOf(s, ch)
    BY DEF ListsInv, ScreenLists
  <1>2. /\ readPos[ch] + 1 \in Nat /\ readPos'[ch] + 1 \in Nat
        /\ readPos[ch] + 1 <= readPos'[ch] + 1
    BY <1>1, ReadGrows
  <1> QED
    BY <1>1, <1>2, EarlierList DEF ChannelOf

\* The lists stay the same lists.
LEMMA SameLists ==
  ASSUME ListsInv, [Next]_vars, UNCHANGED serverVars, NEW s \in Screen, Lists(s)' \subseteq Lists(s)
  PROVE  /\ \A list \in Lists(s)' : DistinctIds(list) /\ \A i \in DOMAIN list : Told(s, list[i])
         /\ KeptLocally(s)'
         /\ \A list \in Lists(s)' : Descends(s, list)
PROOF
  <1>1. Typed /\ ScreenLists(s)
    BY DEF ListsInv
  <1>2. \A ch \in Channel : \A i \in DOMAIN written[ch] :
          i \in DOMAIN written'[ch] /\ written'[ch][i] = written[ch][i]
    BY <1>1, WrittenGrows
  <1>3. KeptLocally(s)'
    BY <1>1, <1>2 DEF ScreenLists, KeptLocally, PublishedAs, serverVars
  <1> QED
    BY <1>1, <1>3 DEF ScreenLists, Descends

\* A screen is left: its socket is closed.
LEMMA LeaveLists ==
  ASSUME ListsInv, [Next]_vars, NEW s \in Screen, Leave(s)
  PROVE  ListsInv'
PROOF
  <1>1. Typed /\ ScreenLists(s)
    BY DEF ListsInv
  <1>2. /\ UNCHANGED <<serverVars, log, shown, awaiting, handlers, written, dialing, taken>>
        /\ \E x : closing' = [closing EXCEPT ![s] = x]
        /\ \/ webSocket' = webSocket /\ (Client!Closed(s)' \/ webSocket[s] # NoChannel)
           \/ /\ webSocket' = [webSocket EXCEPT ![s] = NoChannel]
              /\ Client!Closed(s)'
    <2>1. DOMAIN closing = Screen
      BY <1>1 DEF Typed, Client!TypeOK
    <2> QED
      BY <2>1 DEF Leave, Client!Close, Client!FinishClose, Client!Closed, serverVars
  <1>3. /\ webSocket'[s] \in {webSocket[s], NoChannel}
        /\ Client!Closed(s)' \/ webSocket'[s] # NoChannel
        /\ \A z \in Screen \ {s} : UNCHANGED View(z)
    BY <1>1, <1>2 DEF View, Typed, Client!TypeOK
  <1>4. Lists(s)' = Lists(s)
    BY <1>2 DEF Lists
  <1>5. \A h \in handlers'[s] : HandlerOf(s, h)'
    BY <1>2, <1>3, SameHandler
  <1>6. \A ch \in Channel : Serves(ch, s) => OldList(s, ch, shown'[s], readPos'[ch] + 1)
    BY <1>2, ShownIsOld
  <1>7. ScreenLists(s)' /\ \A list \in Lists(s)' : Descends(s, list)
    BY <1>2, <1>3, <1>4, <1>5, <1>6, SameLists, ConnectedScreen
  <1> QED
    BY <1>2, <1>3, <1>7, ScreenMoves

\* An answer is what is stored of the message, or an error.
LEMMA AnswerLists ==
  ASSUME ListsInv, [Next]_vars, NEW s \in Screen, NEW h \in handlers[s],
         Answer(s, h) \/ AnswerLost(s, h)
  PROVE  ListsInv'
PROOF
  <1>1. Typed /\ ScreenLists(s) /\ h.id \in MessageId
    BY DEF ListsInv, Typed, Client!TypeOK, Client!Handler
  <1>2. PICK reply : /\ reply \in {MessageFor(author[s], h.id), NoMessage}
                     /\ Client!MessageAnswered(s, h, reply)
                     /\ UNCHANGED <<serverVars, dialing, taken, readPos>>
    BY Zenon DEF Answer, AnswerLost
  <1>3. reply # NoMessage =>
          /\ reply.id = h.id
          /\ \A n \in PublishedAs(h.id) : log[n].user = reply.author
          /\ \E n \in DOMAIN log : Writes(log[n].payload, h.id) /\ log[n].payload.content = reply.content
    BY <1>1, <1>2, AnswerType, StoredFacts DEF Typed
  <1>4. /\ UNCHANGED <<serverVars, log, shown, awaiting, closing, webSocket, written, dialing, taken>>
        /\ handlers' = [handlers EXCEPT ![s] = (@ \ {h}) \cup
             {[h EXCEPT !.answered = TRUE, !.reply = reply]}]
    BY <1>2 DEF Client!MessageAnswered, serverVars
  <1>5. \A z \in Screen \ {s} : UNCHANGED View(z)
    BY <1>1, <1>4 DEF View, Typed, Client!TypeOK
  <1>6. \A g \in handlers'[s] :
          \/ g \in handlers[s]
          \/ /\ g.n = h.n /\ g.event_name = h.event_name /\ g.id = h.id /\ g.base = h.base
             /\ g.reply = reply
    <2>1. h \in Client!Handler /\ DOMAIN handlers = Screen
      BY <1>1 DEF Typed, Client!TypeOK
    <2>2. LET g == [h EXCEPT !.answered = TRUE, !.reply = reply]
          IN  /\ g.n = h.n /\ g.event_name = h.event_name /\ g.id = h.id /\ g.base = h.base
              /\ g.reply = reply
      BY <2>1 DEF Client!Handler
    <2> QED
      BY <1>4, <2>1, <2>2
  <1>7. Lists(s)' \subseteq Lists(s)
    BY <1>4, <1>6 DEF Lists
  <1>8. ASSUME NEW g \in handlers'[s] PROVE HandlerOf(s, g)'
    <2>1. CASE g \in handlers[s]
      BY <1>4, <2>1, SameHandler
    <2>2. CASE g \notin handlers[s]
      <3>1. HandlerOf(s, h)'
        BY <1>4, SameHandler
      <3>2. /\ g.n = h.n /\ g.event_name = h.event_name /\ g.id = h.id /\ g.base = h.base
            /\ g.reply = reply
        BY <1>6, <2>2
      <3>3. g.reply # NoMessage =>
              /\ g.reply.id = g.id
              /\ \A n \in PublishedAs(g.id)' : log'[n].user = g.reply.author
              /\ \E n \in DOMAIN log' :
                   Writes(log'[n].payload, g.id) /\ log'[n].payload.content = g.reply.content
        BY <1>3, <1>4, <3>2 DEF PublishedAs
      <3> QED
        BY <3>1, <3>2, <3>3 DEF HandlerOf, OldList, SeenBefore, PublishedAs
    <2> QED
      BY <2>1, <2>2
  <1>9. \A ch \in Channel : Serves(ch, s) => OldList(s, ch, shown'[s], readPos'[ch] + 1)
    BY <1>4, ShownIsOld
  <1>10. ScreenLists(s)' /\ \A list \in Lists(s)' : Descends(s, list)
    BY <1>4, <1>7, <1>8, <1>9, SameLists, ConnectedScreen
  <1> QED
    BY <1>4, <1>5, <1>10, ScreenMoves

\* A deletion takes from the list a message that was published.
LEMMA DeletedLists ==
  ASSUME ListsInv, [Next]_vars, UNCHANGED serverVars, NEW s \in Screen,
         NEW id, PublishedAs(id) # {},
         shown'[s] = Client!Without(shown[s], id), UNCHANGED <<handlers[s], written>>
  PROVE  /\ \A list \in Lists(s)' : DistinctIds(list) /\ \A i \in DOMAIN list : Told(s, list[i])
         /\ KeptLocally(s)'
         /\ \A list \in Lists(s)' : Descends(s, list)
         /\ \A ch \in Channel : Serves(ch, s) => OldList(s, ch, shown'[s], readPos'[ch] + 1)
PROOF
  <1> DEFINE list == shown[s]
             rest == shown'[s]
  <1>1. Typed /\ ScreenLists(s) /\ list \in Seq(Client!Bubble) /\ list \in Lists(s)
    BY DEF ListsInv, Typed, Client!TypeOK, Lists
  <1>2. PICK place \in [DOMAIN rest -> DOMAIN list] :
          /\ \A n \in DOMAIN rest : rest[n] = list[place[n]]
          /\ \A m, n \in DOMAIN rest : m < n => place[m] < place[n]
          /\ \A i \in DOMAIN list : list[i].id # id => \E n \in DOMAIN rest : rest[n] = list[i]
          /\ rest \in Seq(Client!Bubble)
    <2>1. rest = ClientSide!Without(list, id) /\ list \in Seq(ClientSide!Bubble)
      BY <1>1, SameWithout, SameClientState
    <2>2. \A given \in Seq(ClientSide!Bubble) : \A x :
            ClientSide!IsPart(ClientSide!Without(given, x), given, x)
      BY Zenon, ClientAssumed, ClientSide!WithoutFacts
    <2> HIDE DEF list, rest
    <2>3. ClientSide!IsPart(rest, list, id)
      BY <2>1, <2>2
    <2> QED
      BY <2>3, SameClientState DEF ClientSide!IsPart
  <1>3. Lists(s)' \subseteq Lists(s) \cup {rest}
    BY DEF Lists
  <1>4. \A a \in Lists(s)' : a \in Lists(s) \/ a = rest
    BY <1>3
  <1>5. DistinctIds(list) /\ \A i \in DOMAIN list : Told(s, list[i])
    BY <1>1 DEF ScreenLists
  <1>6. \A a, b \in Lists(s) : \A i \in DOMAIN a :
          \/ PublishedAs(a[i].id) # {}
          \/ \E ch \in Channel : \E k \in DOMAIN written[ch] : written[ch][k].id = a[i].id
          \/ a[i].id \in Client!Ids(b)
    BY <1>1 DEF ScreenLists, KeptLocally
  <1>7. DOMAIN rest \subseteq Nat /\ \A m, n \in DOMAIN rest : m < n \/ n < m \/ m = n
    BY <1>2
  <1>8. DOMAIN list \subseteq Nat
    BY <1>1
  <1> HIDE DEF list, rest
  <1>9. ASSUME NEW m \in DOMAIN rest, NEW n \in DOMAIN rest, rest[m].id = rest[n].id
        PROVE  m = n
    <2>1. place[m] = place[n]
      BY <1>2, <1>5, <1>9 DEF DistinctIds
    <2>2. ~(m < n) /\ ~(n < m)
      BY <1>2, <1>8, <2>1
    <2> QED
      BY <1>7, <2>2
  <1>10. DistinctIds(rest) /\ \A i \in DOMAIN rest : Told(s, rest[i])
    BY <1>2, <1>5, <1>9 DEF DistinctIds
  <1>11. \A a \in Lists(s)' : DistinctIds(a) /\ \A i \in DOMAIN a : Told(s, a[i])
    BY <1>1, <1>4, <1>10 DEF ScreenLists
  <1>12. \A a \in Lists(s)' : \A i \in DOMAIN a :
           \E old \in Lists(s) : \E k \in DOMAIN old : old[k] = a[i]
    BY <1>1, <1>2, <1>4
  <1>13. KeptLocally(s)'
    <2>1. ASSUME NEW a \in Lists(s)', NEW b \in Lists(s)', NEW i \in DOMAIN a,
                 PublishedAs(a[i].id) = {},
                 \A ch \in Channel : \A k \in DOMAIN written[ch] : written[ch][k].id # a[i].id
          PROVE  a[i].id \in Client!Ids(b)
      <3>1. PICK old \in Lists(s) : \E k \in DOMAIN old : old[k] = a[i]
        BY <1>12
      <3>2. \A c \in Lists(s) : a[i].id \in Client!Ids(c)
        BY <1>6, <2>1, <3>1
      <3>3. CASE b \in Lists(s)
        BY <3>2, <3>3
      <3>4. CASE b = rest
        <4>1. PICK k \in DOMAIN list : list[k].id = a[i].id
          BY <1>1, <3>2 DEF Client!Ids
        <4>2. a[i].id # id
          BY <2>1
        <4>3. PICK n \in DOMAIN rest : rest[n] = list[k]
          BY <1>2, <4>1, <4>2
        <4> QED
          BY <3>4, <4>1, <4>3 DEF Client!Ids
      <3> QED
        BY <1>4, <3>3, <3>4
    <2> QED
      BY <2>1 DEF KeptLocally, PublishedAs, serverVars, Client!Ids
  <1>14. \A ch \in Channel : Serves(ch, s) => OldList(s, ch, rest, readPos'[ch] + 1)
    <2>1. \A ch \in Channel : Serves(ch, s) => OldList(s, ch, list, readPos'[ch] + 1)
      BY ShownIsOld DEF list
    <2> QED
      BY <1>2, <2>1 DEF OldList
  <1>15. \A a \in Lists(s)' : Descends(s, a)
    BY <1>12 DEF Descends
  <1> QED
    BY <1>11, <1>13, <1>14, <1>15 DEF rest

\* An event: a deletion filters, a new or edited message suspends a handler
\* that has seen what the screen has.
LEMMA DownlinkLists ==
  ASSUME ListsInv, [Next]_vars, NEW s \in Screen, Downlink(s)
  PROVE  ListsInv'
PROOF
  <1> DEFINE ch == webSocket[s]
             n == readPos[ch] + 1
             payload == log[NextEvent(s)].payload
  <1>1. Typed /\ ScreenLists(s)
    BY DEF ListsInv
  <1>2. /\ ch \in Channel /\ n \in DOMAIN sent[ch] /\ NextEvent(s) \in DOMAIN log
        /\ readPos' = [readPos EXCEPT ![ch] = @ + 1]
        /\ UNCHANGED <<serverVars, dialing, taken>>
        /\ \/ /\ payload.event_name \in {"new_message", "edit_message"}
              /\ Client!OnNewOrEdit(s, n, payload.event_name, payload.id)
           \/ /\ payload.event_name = "delete_message"
              /\ Client!OnDelete(s, payload.id)
           \/ UNCHANGED clientVars
    BY <1>1, DownlinkCases
  <1>3. /\ ch # NoChannel /\ Serves(ch, s) /\ readPos[ch] \in Nat /\ readPos'[ch] = n
        /\ ChannelOf(s, ch)
    <2>1. ch # NoChannel /\ readPos \in [Channel -> Nat]
      BY <1>1, <1>2, MessengerAssumption DEF Client!ControllerAssumption, Typed, Reading
    <2>2. Serves(ch, s)
      BY <2>1 DEF Serves
    <2> QED
      BY <1>1, <1>2, <2>1, <2>2 DEF ScreenLists
  <1>4. UNCHANGED <<log, sent, joinedAt>>
    BY <1>2 DEF serverVars
  <1>5. ASSUME NEW h \in handlers[s], UNCHANGED <<closing, webSocket>> PROVE HandlerOf(s, h)'
    BY <1>2, <1>5, SameHandler
  <1>6. CASE UNCHANGED clientVars
    <2>1. UNCHANGED <<shown, handlers, awaiting, closing, webSocket, written>>
      BY <1>6 DEF clientVars
    <2>2. Lists(s)' \subseteq Lists(s)
      BY <2>1 DEF Lists
    <2>3. \A k \in Channel : Serves(k, s) => OldList(s, k, shown'[s], readPos'[k] + 1)
      BY <2>1, ShownIsOld
    <2>4. ScreenLists(s)' /\ \A list \in Lists(s)' : Descends(s, list)
      BY <1>2, <1>5, <2>1, <2>2, <2>3, SameLists, ConnectedScreen
    <2> QED
      BY <1>2, <1>4, <2>1, <2>4, ScreenMoves DEF View
  <1>7. CASE /\ payload.event_name \in {"new_message", "edit_message"}
             /\ Client!OnNewOrEdit(s, n, payload.event_name, payload.id)
    <2> DEFINE g == [n |-> n, event_name |-> payload.event_name, id |-> payload.id,
                     base |-> shown[s], answered |-> FALSE, reply |-> NoMessage]
    <2>1. /\ handlers' = [handlers EXCEPT ![s] = @ \cup {g}]
          /\ UNCHANGED <<shown, awaiting, closing, webSocket, written>>
      BY <1>7 DEF Client!OnNewOrEdit
    <2>2. /\ g.n = n /\ g.event_name = payload.event_name /\ g.id = payload.id
          /\ g.base = shown[s] /\ g.reply = NoMessage
      OBVIOUS
    <2>3. \A h \in handlers'[s] :
            \/ h \in handlers[s]
            \/ /\ h.n = n /\ h.event_name = payload.event_name /\ h.id = payload.id
               /\ h.base = shown[s] /\ h.reply = NoMessage
      <3>1. DOMAIN handlers = Screen
        BY <1>1 DEF Typed, Client!TypeOK
      <3> HIDE DEF g
      <3> QED
        BY <2>1, <2>2, <3>1
    <2> HIDE DEF g
    <2>4. Lists(s)' \subseteq Lists(s)
      BY <2>1, <2>3 DEF Lists
    <2>5. ASSUME NEW h \in handlers'[s] PROVE HandlerOf(s, h)'
      <3>1. CASE h \in handlers[s]
        BY <1>5, <2>1, <3>1
      <3>2. CASE h \notin handlers[s]
        <4>1. /\ h.n = n /\ h.event_name = payload.event_name /\ h.id = payload.id
              /\ h.base = shown[s] /\ h.reply = NoMessage
          BY <2>3, <3>2
        <4>2. OldList(s, ch, shown[s], n)
          BY <1>3 DEF ChannelOf
        <4>3. PublishedAs(payload.id) # {}
          BY <1>1, <1>2, <1>7, PublishedFacts DEF Typed
        <4>4. \A k : OldList(s, k, h.base, h.n) => OldList(s, k, h.base, h.n)'
          BY <1>4 DEF OldList, SeenBefore, PublishedAs
        <4>5. PublishedAs(h.id)' # {}
          BY <1>4, <4>1, <4>3 DEF PublishedAs
        <4>6. /\ h.n \in DOMAIN sent'[ch] /\ h.n <= readPos'[ch]
              /\ log'[sent'[ch][h.n]].payload.event_name = h.event_name
              /\ log'[sent'[ch][h.n]].payload.id = h.id
          BY <1>2, <1>3, <1>4, <4>1 DEF NextEvent
        <4>7. webSocket' = webSocket /\ webSocket[s] # NoChannel
          BY <1>3, <2>1
        <4>8. \A k : k = webSocket[s] =>
                 /\ h.n \in DOMAIN sent'[k] /\ h.n <= readPos'[k]
                 /\ log'[sent'[k][h.n]].payload.event_name = h.event_name
                 /\ log'[sent'[k][h.n]].payload.id = h.id
                 /\ OldList(s, k, h.base, h.n)'
          BY <4>1, <4>2, <4>4, <4>6
        <4> HIDE DEF ch
        <4> QED
          BY <4>1, <4>5, <4>7, <4>8 DEF HandlerOf
      <3> QED
        BY <3>1, <3>2
    <2>6. \A k \in Channel : Serves(k, s) => OldList(s, k, shown'[s], readPos'[k] + 1)
      BY <2>1, ShownIsOld
    <2>7. ScreenLists(s)' /\ \A list \in Lists(s)' : Descends(s, list)
      BY <1>2, <2>1, <2>4, <2>5, <2>6, SameLists, ConnectedScreen
    <2>8. \A z \in Screen \ {s} : UNCHANGED View(z)
      BY <1>1, <1>2, <2>1 DEF View, Typed, Client!TypeOK
    <2> QED
      BY <1>2, <1>4, <2>1, <2>7, <2>8, ScreenMoves
  <1>8. CASE payload.event_name = "delete_message" /\ Client!OnDelete(s, payload.id)
    <2>1. /\ \/ shown' = shown
             \/ shown' = [shown EXCEPT ![s] = Client!Without(shown[s], payload.id)]
          /\ UNCHANGED <<handlers, awaiting, closing, webSocket, written>>
      BY <1>8 DEF Client!OnDelete, Client!Emit
    <2>2. PublishedAs(payload.id) # {}
      BY <1>1, <1>2, <1>8, PublishedFacts DEF Typed
    <2>3. /\ shown'[s] = shown[s] \/ shown'[s] = Client!Without(shown[s], payload.id)
          /\ \A z \in Screen \ {s} : UNCHANGED View(z)
      BY <1>1, <1>2, <2>1 DEF View, Typed, Client!TypeOK
    <2>4. \A h \in handlers'[s] : HandlerOf(s, h)'
      BY <1>5, <2>1
    <2>5. CASE shown'[s] = shown[s]
      <3>1. Lists(s)' \subseteq Lists(s)
        BY <2>1, <2>5 DEF Lists
      <3>2. \A k \in Channel : Serves(k, s) => OldList(s, k, shown'[s], readPos'[k] + 1)
        BY <2>5, ShownIsOld
      <3>3. ScreenLists(s)' /\ \A list \in Lists(s)' : Descends(s, list)
        BY <1>2, <2>1, <2>4, <3>1, <3>2, SameLists, ConnectedScreen
      <3> QED
        BY <1>2, <1>4, <2>1, <2>3, <3>3, ScreenMoves
    <2>6. CASE shown'[s] = Client!Without(shown[s], payload.id)
      <3>1. /\ \A list \in Lists(s)' : DistinctIds(list) /\ \A i \in DOMAIN list : Told(s, list[i])
            /\ KeptLocally(s)'
            /\ \A list \in Lists(s)' : Descends(s, list)
            /\ \A k \in Channel : Serves(k, s) => OldList(s, k, shown'[s], readPos'[k] + 1)
        BY <1>2, <2>1, <2>2, <2>6, DeletedLists
      <3>2. ScreenLists(s)'
        BY <1>2, <2>1, <2>4, <3>1, ConnectedScreen
      <3> QED
        BY <1>2, <1>4, <2>1, <2>3, <3>1, <3>2, ScreenMoves
    <2> QED
      BY <2>3, <2>5, <2>6
  <1> QED
    BY <1>2, <1>6, <1>7, <1>8

----------------------------------------------------------------------------
(* A handler goes on.                                                      *)

\* A handler of a controller that is not closed, and its event: what its list
\* shows of others has come before, so a new message is not on it.
LEMMA HandlerFacts ==
  ASSUME ListsInv, NEW s \in Screen, NEW h \in handlers[s], ~Client!Closed(s),
         NEW ch, ch = webSocket[s]
  PROVE  /\ ch \in Channel /\ Serves(ch, s)
         /\ h.n \in Nat /\ h.n \in DOMAIN sent[ch]
         /\ readPos[ch] \in Nat /\ h.n <= readPos[ch]
         /\ sent[ch][h.n] \in DOMAIN log /\ log[sent[ch][h.n]].chat = chat[s]
         /\ log[sent[ch][h.n]].user # author[s]
         /\ OldList(s, ch, h.base, h.n)
         /\ h.event_name = "new_message" =>
              sent[ch][h.n] \in PublishedAs(h.id) /\ h.id \notin Client!Ids(h.base)
PROOF
  <1>1. Typed /\ ScreenLists(s) /\ HandlerOf(s, h)
    BY DEF ListsInv, ScreenLists
  <1>2. ch \in Channel /\ Serves(ch, s)
    BY <1>1 DEF Typed, Client!TypeOK, HandlerOf, Serves
  <1>3. /\ h.n \in DOMAIN sent[ch] /\ h.n <= readPos[ch]
        /\ log[sent[ch][h.n]].payload.event_name = h.event_name
        /\ log[sent[ch][h.n]].payload.id = h.id
        /\ OldList(s, ch, h.base, h.n)
    BY <1>1, <1>2 DEF HandlerOf, Serves
  <1>4. h.n \in Nat /\ sent[ch][h.n] \in DOMAIN log /\ sent[ch][h.n] > joinedAt[ch]
    BY <1>1, <1>2, <1>3, ServerFacts DEF Typed
  <1>5. log[sent[ch][h.n]].chat = chat[s] /\ log[sent[ch][h.n]].user # author[s]
    BY <1>1, <1>2, <1>3 DEF ScreenLists, ChannelOf
  <1>6. readPos[ch] \in Nat
    BY <1>1, <1>2 DEF Typed, Reading
  <1>7. ASSUME h.event_name = "new_message"
        PROVE  sent[ch][h.n] \in PublishedAs(h.id) /\ h.id \notin Client!Ids(h.base)
    <2>1. sent[ch][h.n] \in PublishedAs(h.id)
      BY <1>3, <1>4, <1>7 DEF PublishedAs
    <2>2. ASSUME NEW i \in DOMAIN h.base, h.base[i].id = h.id PROVE FALSE
      <3>1. SeenBefore(ch, h.n, sent[ch][h.n])
        BY <1>3, <1>5, <2>1, <2>2 DEF OldList
      <3>2. sent[ch][h.n] \in Nat /\ joinedAt[ch] \in Nat
        BY <1>1, <1>2, <1>3, ServerFacts DEF Typed
      <3>3. PICK q \in DOMAIN sent[ch] : q < h.n /\ sent[ch][q] = sent[ch][h.n]
        BY <1>4, <3>1, <3>2 DEF SeenBefore
      <3>4. sent[ch][q] < sent[ch][h.n]
        BY <1>1, <1>2, <1>3, <3>3, ServerFacts DEF Typed
      <3> QED
        BY <3>2, <3>3, <3>4
    <2> QED
      BY <2>1, <2>2 DEF Client!Ids
  <1> QED
    BY <1>2, <1>3, <1>4, <1>5, <1>6, <1>7

\* indexWhere finds the first place of a message that is there.
LEMMA IndexOfFacts ==
  ASSUME NEW list \in Seq(Client!Bubble), NEW id \in Client!Ids(list)
  PROVE  Client!IndexOf(list, id) \in DOMAIN list /\ list[Client!IndexOf(list, id)].id = id
PROOF
  <1> DEFINE T == {i \in DOMAIN list : list[i].id = id}
  <1>1. T \subseteq Nat /\ T # {}
    BY DEF Client!Ids
  <1>2. PICK i \in T : \A j \in T : i <= j
    BY <1>1, LeastElement
  <1>3. i \in DOMAIN list /\ list[i].id = id /\ \A j \in 1 .. (i - 1) : list[j].id # id
    BY <1>2
  <1> QED
    BY <1>3 DEF Client!IndexOf

\* What a handler shows: its list with the answer in front, or in the place of
\* the message that was edited.
LEMMA UpdatedFacts ==
  ASSUME NEW h \in Client!Handler, h.reply # NoMessage, h.reply.id = h.id,
         h.event_name = "edit_message" => h.id \in Client!Ids(h.base)
  PROVE  /\ h.base \in Seq(Client!Bubble)
         /\ h.event_name = "new_message" => Client!Updated(h) = <<h.reply>> \o h.base
         /\ h.event_name = "edit_message" =>
              \E i \in DOMAIN h.base :
                h.base[i].id = h.id /\ Client!Updated(h) = [h.base EXCEPT ![i] = h.reply]
         /\ h.event_name \in {"new_message", "edit_message"}
PROOF
  <1>1. h.base \in Seq(Client!Bubble) /\ h.event_name \in {"new_message", "edit_message"}
    BY DEF Client!Handler
  <1> QED
    BY <1>1, IndexOfFacts DEF Client!Updated

\* A list with a message of another identifier in front.
LEMMA InFront ==
  ASSUME NEW list \in Seq(Client!Bubble), NEW m, DistinctIds(list), m.id \notin Client!Ids(list)
  PROVE  /\ DistinctIds(<<m>> \o list)
         /\ DOMAIN (<<m>> \o list) = 1 .. (1 + Len(list))
         /\ (<<m>> \o list)[1] = m
         /\ \A i \in DOMAIN list : i + 1 \in DOMAIN (<<m>> \o list) /\ (<<m>> \o list)[i + 1] = list[i]
         /\ \A k \in DOMAIN (<<m>> \o list) :
              k # 1 => k - 1 \in DOMAIN list /\ (<<m>> \o list)[k] = list[k - 1]
PROOF
  <1> DEFINE new == <<m>> \o list
  <1>1. /\ DOMAIN list = 1 .. Len(list) /\ Len(list) \in Nat
        /\ DOMAIN new = 1 .. (1 + Len(list)) /\ new[1] = m
        /\ \A k \in DOMAIN new : k # 1 => new[k] = list[k - 1]
    OBVIOUS
  <1> HIDE DEF new
  <1>2. /\ \A k \in DOMAIN new : k # 1 => k - 1 \in DOMAIN list /\ new[k] = list[k - 1]
        /\ \A i \in DOMAIN list : i + 1 \in DOMAIN new /\ new[i + 1] = list[i]
    BY <1>1
  <1>3. \A i \in DOMAIN list : list[i].id # m.id
    BY DEF Client!Ids
  <1>4. DistinctIds(new)
    BY <1>1, <1>2, <1>3 DEF DistinctIds
  <1> QED
    BY <1>1, <1>2, <1>4 DEF new

\* An answer is what ShownAsPublished asks for, and of an event that has come.
LEMMA ReplyFacts ==
  ASSUME ListsInv, NEW s \in Screen, NEW h \in handlers[s], ~Client!Closed(s),
         h.reply # NoMessage, h.event_name = "edit_message" => h.id \in Client!Ids(h.base),
         NEW ch, ch = webSocket[s]
  PROVE  /\ h.reply.id = h.id /\ PublishedAs(h.id) # {}
         /\ Told(s, h.reply)
         /\ \A p \in PublishedAs(h.id) : log[p].user = author[s] \/ SeenBefore(ch, readPos[ch] + 1, p)
PROOF
  <1>1. Typed /\ ScreenLists(s) /\ HandlerOf(s, h) /\ h \in Client!Handler /\ h.base \in Lists(s)
    BY DEF ListsInv, ScreenLists, Typed, Client!TypeOK, Lists
  <1>2. /\ ch \in Channel /\ Serves(ch, s)
        /\ h.n \in Nat /\ h.n \in DOMAIN sent[ch]
        /\ readPos[ch] \in Nat /\ h.n <= readPos[ch]
        /\ log[sent[ch][h.n]].chat = chat[s]
        /\ OldList(s, ch, h.base, h.n)
        /\ h.event_name = "new_message" => sent[ch][h.n] \in PublishedAs(h.id)
    BY HandlerFacts
  <1>3. /\ h.reply.id = h.id /\ PublishedAs(h.id) # {}
        /\ \A n \in PublishedAs(h.id) : log[n].user = h.reply.author
        /\ \E n \in DOMAIN log :
             Writes(log[n].payload, h.id) /\ log[n].payload.content = h.reply.content
    BY <1>1 DEF HandlerOf
  <1>4. ASSUME h.event_name = "new_message", NEW p \in PublishedAs(h.id)
        PROVE  log[p].chat = chat[s] /\ SeenBefore(ch, readPos[ch] + 1, p)
    <2>1. p = sent[ch][h.n]
      BY <1>1, <1>2, <1>4, PublishedFacts DEF Typed
    <2> QED
      BY <1>2, <2>1 DEF SeenBefore
  <1>5. ASSUME h.event_name = "edit_message", NEW p \in PublishedAs(h.id)
        PROVE  /\ log[p].chat = chat[s]
               /\ log[p].user = author[s] \/ SeenBefore(ch, readPos[ch] + 1, p)
    <2>1. PICK i \in DOMAIN h.base : h.base[i].id = h.id
      BY <1>5 DEF Client!Ids
    <2>2. Told(s, h.base[i])
      BY <1>1 DEF ScreenLists
    <2>3. log[p].chat = chat[s]
      BY <1>5, <2>1, <2>2 DEF Told
    <2>4. OldList(s, ch, h.base, readPos[ch] + 1)
      <3>1. readPos[ch] + 1 \in Nat /\ h.n <= readPos[ch] + 1
        BY <1>2
      <3> QED
        BY <1>1, <1>2, <3>1, EarlierList
    <2> QED
      BY <1>5, <2>1, <2>3, <2>4 DEF OldList
  <1>6. h.event_name \in {"new_message", "edit_message"}
    BY <1>1 DEF Client!Handler
  <1>7. Told(s, h.reply)
    BY <1>3, <1>4, <1>5, <1>6 DEF Told
  <1> QED
    BY <1>3, <1>4, <1>5, <1>6, <1>7

\* A handler shows its list with a message that was published.
LEMMA UpdatedLists ==
  ASSUME ListsInv, [Next]_vars, UNCHANGED serverVars, NEW s \in Screen, NEW h \in handlers[s],
         ~Client!Closed(s), h.reply # NoMessage,
         h.event_name = "edit_message" => h.id \in Client!Ids(h.base),
         shown'[s] = Client!Updated(h), handlers'[s] \subseteq handlers[s],
         UNCHANGED <<written, readPos>>
  PROVE  /\ \A list \in Lists(s)' : DistinctIds(list) /\ \A i \in DOMAIN list : Told(s, list[i])
         /\ KeptLocally(s)'
         /\ \A list \in Lists(s)' : Descends(s, list)
         /\ \A ch \in Channel : Serves(ch, s) => OldList(s, ch, shown'[s], readPos'[ch] + 1)
PROOF
  <1> DEFINE base == h.base
             list == shown'[s]
  <1>1. Typed /\ ScreenLists(s) /\ h \in Client!Handler /\ base \in Lists(s)
    BY DEF ListsInv, Typed, Client!TypeOK, Lists
  <1>2. /\ h.reply.id = h.id /\ PublishedAs(h.id) # {}
        /\ Told(s, h.reply)
        /\ \A ch : ch = webSocket[s] =>
             \A p \in PublishedAs(h.id) :
               log[p].user = author[s] \/ SeenBefore(ch, readPos[ch] + 1, p)
    BY ReplyFacts
  <1>3. DistinctIds(base) /\ \A i \in DOMAIN base : Told(s, base[i])
    BY <1>1 DEF ScreenLists
  <1>4. base \in Seq(Client!Bubble) /\ h.event_name \in {"new_message", "edit_message"}
    BY <1>1, <1>2, UpdatedFacts
  <1>5. /\ DistinctIds(list)
        /\ \A k \in DOMAIN list : list[k] = h.reply \/ \E i \in DOMAIN base : list[k] = base[i]
        /\ \A i \in DOMAIN base : \E k \in DOMAIN list : list[k].id = base[i].id
    <2>1. CASE h.event_name = "new_message"
      <3>1. list = <<h.reply>> \o base
        BY <1>1, <1>2, <2>1, UpdatedFacts
      <3>2. h.reply.id \notin Client!Ids(base)
        BY <1>2, <2>1, HandlerFacts
      <3>3. /\ DistinctIds(list) /\ DOMAIN list = 1 .. (1 + Len(base)) /\ list[1] = h.reply
            /\ \A i \in DOMAIN base : i + 1 \in DOMAIN list /\ list[i + 1] = base[i]
            /\ \A k \in DOMAIN list : k # 1 => k - 1 \in DOMAIN base /\ list[k] = base[k - 1]
        <4> HIDE DEF base, list
        <4> QED
          BY <1>3, <1>4, <3>1, <3>2, InFront
      <3> QED
        BY <3>3
    <2>2. CASE h.event_name = "edit_message"
      <3>1. PICK i \in DOMAIN base : base[i].id = h.id /\ list = [base EXCEPT ![i] = h.reply]
        BY <1>1, <1>2, <2>2, UpdatedFacts
      <3> HIDE DEF base, list
      <3>2. /\ DOMAIN list = DOMAIN base /\ list[i] = h.reply
            /\ \A k \in DOMAIN base : k # i => list[k] = base[k]
        BY <1>4, <3>1
      <3>3. \A k \in DOMAIN base : list[k].id = base[k].id
        BY <1>2, <3>1, <3>2
      <3> QED
        BY <1>3, <3>2, <3>3 DEF DistinctIds
    <2> QED
      BY <1>4, <2>1, <2>2
  <1>6. \A a \in Lists(s)' : a \in Lists(s) \/ a = list
    BY DEF Lists
  <1> HIDE DEF base, list
  <1>7. \A i \in DOMAIN list : Told(s, list[i])
    BY <1>2, <1>3, <1>5
  <1>8. \A a \in Lists(s)' : DistinctIds(a) /\ \A i \in DOMAIN a : Told(s, a[i])
    BY <1>1, <1>5, <1>6, <1>7 DEF ScreenLists
  <1>9. \A a \in Lists(s)' : \A i \in DOMAIN a :
          \/ a[i] = h.reply
          \/ \E old \in Lists(s) : \E k \in DOMAIN old : old[k] = a[i]
    BY <1>1, <1>5, <1>6
  <1>10. \A a \in Lists(s)' : Descends(s, a)
    BY <1>2, <1>9 DEF Descends
  <1>11. \A a, b \in Lists(s) : \A i \in DOMAIN a :
           \/ PublishedAs(a[i].id) # {}
           \/ \E ch \in Channel : \E k \in DOMAIN written[ch] : written[ch][k].id = a[i].id
           \/ a[i].id \in Client!Ids(b)
    BY <1>1 DEF ScreenLists, KeptLocally
  <1>12. KeptLocally(s)'
    <2>1. ASSUME NEW a \in Lists(s)', NEW b \in Lists(s)', NEW i \in DOMAIN a,
                 PublishedAs(a[i].id) = {},
                 \A ch \in Channel : \A k \in DOMAIN written[ch] : written[ch][k].id # a[i].id
          PROVE  a[i].id \in Client!Ids(b)
      <3>1. PICK old \in Lists(s) : \E k \in DOMAIN old : old[k] = a[i]
        BY <1>2, <1>9, <2>1
      <3>2. \A c \in Lists(s) : a[i].id \in Client!Ids(c)
        BY <1>11, <2>1, <3>1
      <3>3. CASE b = list
        <4>1. PICK k \in DOMAIN base : base[k].id = a[i].id
          BY <1>1, <3>2 DEF Client!Ids
        <4>2. PICK n \in DOMAIN list : list[n].id = base[k].id
          BY <1>5
        <4> QED
          BY <3>3, <4>1, <4>2 DEF Client!Ids
      <3> QED
        BY <1>6, <3>2, <3>3
    <2> QED
      BY <2>1 DEF KeptLocally, PublishedAs, serverVars, Client!Ids
  <1>13. ASSUME NEW ch \in Channel, Serves(ch, s)
         PROVE  OldList(s, ch, list, readPos'[ch] + 1)
    <2>1. /\ webSocket[s] \in Channel /\ webSocket[s] # NoChannel
          /\ h.n \in Nat /\ readPos[webSocket[s]] \in Nat /\ h.n <= readPos[webSocket[s]]
          /\ OldList(s, webSocket[s], base, h.n)
      BY HandlerFacts DEF base, Serves
    <2>2. dialing[s] = NoChannel
      BY <1>1, <2>1 DEF ScreenLists, Typed, ClientSide!ScreenInv, ClientSide!Matches
    <2>3. ch = webSocket[s]
      BY <1>13, <2>2 DEF Serves
    <2>4. OldList(s, ch, base, readPos[ch] + 1)
      <3>1. readPos[ch] + 1 \in Nat /\ h.n <= readPos[ch] + 1
        BY <2>1, <2>3
      <3> QED
        BY <1>1, <2>1, <2>3, <3>1, EarlierList
    <2>5. \A p \in PublishedAs(h.id) : log[p].user = author[s] \/ SeenBefore(ch, readPos[ch] + 1, p)
      BY <1>2, <2>3
    <2> QED
      BY <1>2, <1>5, <2>4, <2>5 DEF OldList
  <1> QED
    BY <1>8, <1>10, <1>12, <1>13 DEF list

\* A handler ends, with a new list or without.
LEMMA ResumeLists ==
  ASSUME ListsInv, [Next]_vars, NEW s \in Screen, NEW h \in handlers[s], Resume(s, h)
  PROVE  ListsInv'
PROOF
  <1>1. Typed /\ ScreenLists(s)
    BY DEF ListsInv
  <1>2. /\ handlers' = [handlers EXCEPT ![s] = @ \ {h}]
        /\ UNCHANGED <<serverVars, awaiting, closing, webSocket, written, dialing, taken, readPos>>
        /\ \/ shown' = shown
           \/ /\ ~Client!Closed(s) /\ h.reply # NoMessage
              /\ h.event_name = "edit_message" => h.id \in Client!Ids(h.base)
              /\ shown' = [shown EXCEPT ![s] = Client!Updated(h)]
    BY DEF Resume, Client!Resume, Client!Emit
  <1>3. /\ handlers'[s] \subseteq handlers[s]
        /\ shown' = shown \/ shown'[s] = Client!Updated(h)
        /\ \A z \in Screen \ {s} : UNCHANGED View(z)
    BY <1>1, <1>2 DEF View, Typed, Client!TypeOK
  <1>4. log' = log
    BY <1>2 DEF serverVars
  <1>5. \A g \in handlers'[s] : HandlerOf(s, g)'
    BY <1>2, <1>3, SameHandler
  <1>6. CASE shown' = shown
    <2>1. Lists(s)' \subseteq Lists(s)
      BY <1>3, <1>6 DEF Lists
    <2>2. \A k \in Channel : Serves(k, s) => OldList(s, k, shown'[s], readPos'[k] + 1)
      BY <1>6, ShownIsOld
    <2>3. ScreenLists(s)' /\ \A list \in Lists(s)' : Descends(s, list)
      BY <1>2, <1>5, <2>1, <2>2, SameLists, ConnectedScreen
    <2> QED
      BY <1>2, <1>3, <1>4, <2>3, ScreenMoves
  <1>7. CASE shown' # shown
    <2>1. /\ \A list \in Lists(s)' : DistinctIds(list) /\ \A i \in DOMAIN list : Told(s, list[i])
          /\ KeptLocally(s)'
          /\ \A list \in Lists(s)' : Descends(s, list)
          /\ \A k \in Channel : Serves(k, s) => OldList(s, k, shown'[s], readPos'[k] + 1)
      BY <1>2, <1>3, <1>7, UpdatedLists
    <2>2. ScreenLists(s)'
      BY <1>2, <1>5, <2>1, ConnectedScreen
    <2> QED
      BY <1>2, <1>3, <1>4, <2>1, <2>2, ScreenMoves
  <1> QED
    BY <1>6, <1>7

----------------------------------------------------------------------------
(* A message is written.                                                   *)

\* An identifier that Fresh allows is in no list, nor on its way: KeptLocally
\* rules out a list that only a suspended handler has.
LEMMA FreshNowhere ==
  ASSUME ListsInv, NEW id, Fresh(id)
  PROVE  /\ PublishedAs(id) = {}
         /\ \A ch \in Channel : \A i \in DOMAIN written[ch] : written[ch][i].id # id
         /\ \A s \in Screen : \A list \in Lists(s) : \A k \in DOMAIN list : list[k].id # id
PROOF
  <1>1. PublishedAs(id) = {}
    BY DEF Fresh, PublishedAs
  <1>2. \A ch \in Channel : \A i \in DOMAIN written[ch] : written[ch][i].id # id
    BY DEF Fresh
  <1>3. ASSUME NEW s \in Screen, NEW list \in Lists(s), NEW k \in DOMAIN list, list[k].id = id
        PROVE  FALSE
    <2>1. shown[s] \in Lists(s) /\ KeptLocally(s)
      BY DEF Lists, ListsInv, ScreenLists
    <2>2. id \in Client!Ids(shown[s])
      BY <1>1, <1>2, <1>3, <2>1 DEF KeptLocally
    <2> QED
      BY <2>2 DEF Fresh
  <1> QED
    BY <1>1, <1>2, <1>3

\* The local copy of a message, which is also written to the websocket if there
\* is one; without one, there is no handler whose list would lack it.
LEMMA SendLists ==
  ASSUME ListsInv, [Next]_vars, NEW s \in Screen, NEW id \in MessageId, NEW content \in Content,
         Send(s, id, content)
  PROVE  ListsInv'
PROOF
  <1> DEFINE m == [id |-> id, author |-> author[s], content |-> content]
             e == [event_name |-> "new_message", id |-> id, content |-> content]
             list == shown'[s]
  <1>1. Typed /\ Typed' /\ ScreenLists(s) /\ shown[s] \in Seq(Client!Bubble) /\ shown[s] \in Lists(s)
    BY TypedStep DEF ListsInv, Typed, Client!TypeOK, Lists
  <1>2. /\ Fresh(id) /\ ~Client!Closed(s)
        /\ shown' = [shown EXCEPT ![s] = <<m>> \o @]
        /\ written' = IF webSocket[s] = NoChannel THEN written
                      ELSE [written EXCEPT ![webSocket[s]] = Append(@, e)]
        /\ UNCHANGED <<serverVars, awaiting, closing, webSocket, handlers, dialing, taken, readPos>>
    BY DEF Send, Client!SendTextMessage, Client!Closed
  <1>3. /\ PublishedAs(id) = {}
        /\ \A ch \in Channel : \A i \in DOMAIN written[ch] : written[ch][i].id # id
        /\ \A z \in Screen : \A l \in Lists(z) : \A k \in DOMAIN l : l[k].id # id
    BY <1>2, FreshNowhere
  <1>4. UNCHANGED <<log, phase, scope_user, chat_id>>
    BY <1>2 DEF serverVars
  <1>5. m.id = id /\ m.author = author[s] /\ m.content = content /\ e.id = id
        /\ e.content = content /\ IsNew(e)
    BY DEF IsNew
  <1>6. list = <<m>> \o shown[s] /\ \A z \in Screen \ {s} : UNCHANGED View(z)
    BY <1>1, <1>2 DEF View, Typed, Client!TypeOK
  <1>7. /\ \A ch \in Channel : DOMAIN written[ch] = 1 .. Len(written[ch]) /\ Len(written[ch]) \in Nat
        /\ \A ch \in Channel : \A i \in DOMAIN written[ch] :
             i \in DOMAIN written'[ch] /\ written'[ch][i] = written[ch][i]
        /\ \A ch \in Channel : \A i \in DOMAIN written'[ch] :
             \/ i \in DOMAIN written[ch] /\ written'[ch][i] = written[ch][i]
             \/ /\ webSocket[s] = ch /\ ch # NoChannel
                /\ i = Len(written[ch]) + 1 /\ written'[ch][i] = e
        /\ webSocket[s] # NoChannel =>
             /\ webSocket[s] \in Channel
             /\ \E i \in DOMAIN written'[webSocket[s]] : written'[webSocket[s]][i] = e
    <2>1. /\ \A ch \in Channel : written[ch] \in Seq(Payload)
          /\ DOMAIN written = Channel /\ webSocket[s] \in Channel \cup {NoChannel}
      BY <1>1 DEF Typed, Client!TypeOK, Client!Payload, Payload
    <2>2. /\ IsNew(e) /\ e \in Payload
          /\ NoChannel \notin Channel
      BY <1>5, MessengerAssumption DEF Payload, Client!ControllerAssumption
    <2> HIDE DEF e
    <2>3. CASE webSocket[s] = NoChannel
      BY <1>2, <2>1, <2>3
    <2>4. CASE webSocket[s] # NoChannel
      <3>1. PICK w \in Channel : w = webSocket[s]
        BY <2>1, <2>4
      <3>2. /\ written'[w] = Append(written[w], e)
            /\ \A ch \in Channel \ {w} : written'[ch] = written[ch]
        BY <1>2, <2>1, <2>4, <3>1
      <3>3. /\ Len(written[w]) \in Nat /\ DOMAIN written[w] = 1 .. Len(written[w])
            /\ DOMAIN written'[w] = 1 .. (Len(written[w]) + 1)
            /\ \A i \in 1 .. Len(written[w]) : written'[w][i] = written[w][i]
            /\ written'[w][Len(written[w]) + 1] = e
        BY <2>1, <2>2, <3>2, AppendFacts
      <3>4. \A i \in 1 .. (Len(written[w]) + 1) :
              i \in 1 .. Len(written[w]) \/ i = Len(written[w]) + 1
        BY <3>3
      <3>5. /\ Len(written[w]) + 1 \in DOMAIN written'[w]
            /\ \A i \in DOMAIN written[w] : i \in DOMAIN written'[w]
        BY <3>3
      <3>6. \A ch \in Channel :
              DOMAIN written[ch] = 1 .. Len(written[ch]) /\ Len(written[ch]) \in Nat
        BY <2>1
      <3> QED
        BY <2>2, <2>4, <3>1, <3>2, <3>3, <3>4, <3>5, <3>6, Zenon
    <2> QED
      BY <2>3, <2>4
  <1> HIDE DEF m, e, list
  <1>8. /\ DistinctIds(list) /\ list[1] = m /\ 1 \in DOMAIN list
        /\ \A i \in DOMAIN shown[s] : i + 1 \in DOMAIN list /\ list[i + 1] = shown[s][i]
        /\ \A k \in DOMAIN list : k # 1 => k - 1 \in DOMAIN shown[s] /\ list[k] = shown[s][k - 1]
    <2>1. DistinctIds(shown[s]) /\ m.id \notin Client!Ids(shown[s])
      BY <1>1, <1>3, <1>5 DEF ScreenLists, Client!Ids
    <2>2. Len(shown[s]) \in Nat
      BY <1>1
    <2> QED
      BY <1>1, <1>6, <2>1, <2>2, InFront
  <1>9. \A z \in Screen : \A l \in Lists(z)' : l \in Lists(z) \/ (z = s /\ l = list)
    <2>1. \A z \in Screen : z # s => Lists(z)' = Lists(z)
      BY <1>6 DEF View, Lists
    <2>2. \A l \in Lists(s)' : l \in Lists(s) \/ l = list
      BY <1>2 DEF Lists, list
    <2> QED
      BY <2>1, <2>2
  <1>10. \A z \in Screen : \A l \in Lists(z)' : \A k \in DOMAIN l :
           \/ \E old \in Lists(z) : \E j \in DOMAIN old : old[j] = l[k]
           \/ z = s /\ l[k] = m
    BY <1>1, <1>8, <1>9
  <1>11. \A l \in Lists(s)' : DistinctIds(l) /\ \A i \in DOMAIN l : Told(s, l[i])
    <2>1. Told(s, m)
      BY <1>3, <1>5 DEF Told
    <2> QED
      BY <1>1, <1>8, <1>9, <1>10, <2>1 DEF ScreenLists
  <1>12. KeptLocally(s)'
    <2>1. ASSUME NEW a \in Lists(s)', NEW b \in Lists(s)', NEW i \in DOMAIN a,
                 PublishedAs(a[i].id) = {},
                 \A ch \in Channel : \A k \in DOMAIN written'[ch] : written'[ch][k].id # a[i].id
          PROVE  a[i].id \in Client!Ids(b)
      <3>1. CASE a[i] = m
        <4>1. webSocket[s] = NoChannel
          BY <1>5, <1>7, <2>1, <3>1
        <4>2. handlers[s] = {}
          BY <1>1, <1>2, <4>1 DEF ScreenLists, HandlerOf
        <4>3. a = b
          BY <1>2, <4>2, <2>1 DEF Lists
        <4> QED
          BY <2>1, <4>3 DEF Client!Ids
      <3>2. CASE a[i] # m
        <4>1. PICK old \in Lists(s) : \E j \in DOMAIN old : old[j] = a[i]
          BY <1>10, <3>2
        <4>2. \A c \in Lists(s) : a[i].id \in Client!Ids(c)
          BY <1>1, <1>7, <2>1, <4>1 DEF ScreenLists, KeptLocally
        <4>3. CASE b = list
          <5>1. PICK k \in DOMAIN shown[s] : shown[s][k].id = a[i].id
            BY <1>1, <4>2 DEF Client!Ids
          <5> QED
            BY <1>8, <4>3, <5>1 DEF Client!Ids
        <4> QED
          BY <1>9, <4>2, <4>3
      <3> QED
        BY <3>1, <3>2
    <2> QED
      BY <1>4, <2>1 DEF KeptLocally, PublishedAs, Client!Ids
  <1>13. \A ch \in Channel : Serves(ch, s) => OldList(s, ch, shown'[s], readPos'[ch] + 1)
    <2>1. \A ch \in Channel : Serves(ch, s) => OldList(s, ch, shown[s], readPos'[ch] + 1)
      BY ShownIsOld
    <2>2. \A k \in DOMAIN list : list[k].id = id \/ \E j \in DOMAIN shown[s] : shown[s][j] = list[k]
      BY <1>5, <1>8
    <2>3. \A ch \in Channel : Serves(ch, s) => OldList(s, ch, list, readPos'[ch] + 1)
      BY <1>3, <2>1, <2>2 DEF OldList
    <2> QED
      BY <2>3 DEF list
  <1>14. \A h \in handlers'[s] : HandlerOf(s, h)'
    BY <1>2, SameHandler
  <1>15. ScreenLists(s)'
    BY <1>2, <1>11, <1>12, <1>13, <1>14, ConnectedScreen
  <1>16. \A z \in Screen : ScreenLists(z)'
    BY <1>4, <1>6, <1>15, QuietScreen
  <1>17. ASSUME NEW ch \in Channel PROVE ChannelLists(ch)'
    <2>1. ChannelLists(ch)
      BY DEF ListsInv
    <2>2. webSocket[s] = ch /\ ch # NoChannel =>
            /\ phase[ch] # "unused" /\ scope_user[ch] = author[s]
            /\ phase[ch] = "connected" => chat_id[ch] = chat[s]
      BY <1>1 DEF ScreenLists, Serves, ChannelOf
    <2>3. phase'[ch] = "unused" => written'[ch] = << >>
      <3>1. written'[ch] = written[ch] \/ (webSocket[s] = ch /\ ch # NoChannel)
        BY <1>1, <1>2 DEF Typed, Client!TypeOK
      <3> QED
        BY <1>4, <2>1, <2>2, <3>1 DEF ChannelLists
    <2>4. ASSUME NEW i \in DOMAIN written'[ch], Waits(ch, i)' PROVE WaitingOf(ch, i)'
      <3>1. CASE i \in DOMAIN written[ch] /\ written'[ch][i] = written[ch][i]
        <4>1. WaitingOf(ch, i) /\ written[ch][i].id # id
          BY <1>2, <1>3, <2>1, <2>4, <3>1 DEF ChannelLists, Waits
        <4>2. \A z \in Screen : \A l \in Lists(z)' : \A k \in DOMAIN l :
                l[k].id = written[ch][i].id =>
                  \E old \in Lists(z) : \E j \in DOMAIN old : old[j] = l[k]
          BY <1>5, <1>10, <4>1
        <4>3. \A z \in Screen : \A l \in Lists(z)' : \A k \in DOMAIN l :
                l[k].id = written[ch][i].id =>
                  /\ scope_user[ch] = author[z]
                  /\ phase[ch] = "connected" => chat_id[ch] = chat[z]
                  /\ l[k].content = written[ch][i].content
          BY <4>1, <4>2 DEF WaitingOf
        <4>4. /\ IsNew(written[ch][i]) /\ PublishedAs(written[ch][i].id) = {}
              /\ \A x : PublishedAs(x)' = PublishedAs(x)
          BY <1>4, <4>1 DEF WaitingOf, PublishedAs
        <4> QED
          BY <1>4, <3>1, <4>3, <4>4 DEF WaitingOf
      <3>2. CASE webSocket[s] = ch /\ ch # NoChannel /\ written'[ch][i] = e
        <4>1. PublishedAs(id)' = {}
          BY <1>3, <1>4 DEF PublishedAs
        <4>2. \A z \in Screen : \A l \in Lists(z)' : \A k \in DOMAIN l :
                l[k].id = id => z = s /\ l[k] = m
          BY <1>3, <1>10
        <4> QED
          BY <1>4, <1>5, <2>2, <3>2, <4>1, <4>2 DEF WaitingOf
      <3> QED
        BY <1>7, <3>1, <3>2
    <2> QED
      BY <2>3, <2>4 DEF ChannelLists, Waits
  <1>18. WrittenOnce'
    <2>1. WrittenOnce
      BY DEF ListsInv
    <2>2. ASSUME NEW a \in Channel, NEW b \in Channel,
                 NEW i \in DOMAIN written'[a], NEW j \in DOMAIN written'[b],
                 written'[a][i].id = written'[b][j].id
          PROVE  a = b /\ i = j
      BY <1>3, <1>5, <1>7, <2>1, <2>2 DEF WrittenOnce
    <2> QED
      BY <2>2 DEF WrittenOnce
  <1> QED
    BY <1>1, <1>16, <1>17, <1>18 DEF ListsInv

----------------------------------------------------------------------------
(* A message is published.                                                 *)

\* A consumer receives what a controller wrote, or a program of another user
\* sent it: a message that is on lists already is published by the user and
\* in the chat of those lists.
LEMMA PublishLists ==
  ASSUME ListsInv, [Next]_vars, UNCHANGED <<clientVars, dialing, readPos>>,
         NEW ch \in Channel, NEW payload \in Payload, Server!Receive(ch, payload),
         \/ /\ taken[ch] < Len(written[ch])
            /\ payload = written[ch][taken[ch] + 1]
            /\ taken' = [taken EXCEPT ![ch] = @ + 1]
         \/ /\ taken' = taken
            /\ IsNew(payload) => Fresh(payload.id)
  PROVE  ListsInv'
PROOF
  <1> DEFINE last == Len(log) + 1
  <1>1. Typed /\ Typed'
    BY TypedStep DEF ListsInv
  <1>2. /\ phase[ch] = "connected" /\ (IsNew(payload) => payload.id \notin Server!Known)
        /\ log' = Append(log, [chat |-> chat_id[ch], user |-> scope_user[ch],
                               payload |-> payload, channel |-> ch])
        /\ UNCHANGED <<phase, scope_user, chat_id, joinedAt, sent>>
        /\ UNCHANGED <<shown, handlers, awaiting, closing, webSocket, written>>
    BY DEF Server!Receive, Server!consumers, clientVars, Server!IsNew, IsNew
  <1>3. /\ DOMAIN log' = DOMAIN log \cup {last} /\ last \notin DOMAIN log
        /\ \A k \in DOMAIN log : log'[k] = log[k]
        /\ log'[last].user = scope_user[ch] /\ log'[last].chat = chat_id[ch]
        /\ log'[last].payload = payload
    <2>1. log \in Seq(ServerSide!Event) /\ DOMAIN log = 1 .. Len(log) /\ Len(log) \in Nat
      BY <1>1, ServerMoves, ServerFacts DEF ServerSide!TypeInv, ServerSide!TypeOK, Typed
    <2> QED
      BY <1>2, <2>1
  <1> HIDE DEF last
  <1>4. \A x, p : p \in PublishedAs(x)' <=>
          \/ p \in PublishedAs(x)
          \/ p = last /\ IsNew(payload) /\ payload.id = x
    BY <1>3 DEF PublishedAs, IsNew
  <1>5. IsNew(payload) => PublishedAs(payload.id) = {}
    <2>1. Server!Known = ServerSide!Known
      BY Zenon DEF Server!Known, ServerSide!Known, Server!IsNew, ServerSide!IsNew, IsNew
    <2> QED
      BY <1>1, <1>2, <2>1, PublishedFacts DEF Typed
  <1>6. ASSUME IsNew(payload), NEW s \in Screen, NEW list \in Lists(s), NEW k \in DOMAIN list,
               list[k].id = payload.id
        PROVE  scope_user[ch] = author[s] /\ chat_id[ch] = chat[s] /\ list[k].content = payload.content
    <2>1. ~Fresh(payload.id)
      BY <1>6, FreshNowhere
    <2>2. Waits(ch, taken[ch] + 1) /\ payload = written[ch][taken[ch] + 1]
      <3>1. /\ taken[ch] \in Nat /\ Len(written[ch]) \in Nat
            /\ DOMAIN written[ch] = 1 .. Len(written[ch])
        <4>1. written[ch] \in Seq(Payload)
          BY <1>1 DEF Typed, Client!TypeOK, Client!Payload, Payload
        <4> QED
          BY <1>1, <4>1 DEF Typed, Reading
      <3> QED
        BY <1>6, <2>1, <3>1 DEF Waits
    <2>3. WaitingOf(ch, taken[ch] + 1)
      BY <2>2 DEF ListsInv, ChannelLists, Waits
    <2> QED
      BY <1>2, <1>6, <2>2, <2>3 DEF WaitingOf
  <1>7. \A s : Lists(s)' = Lists(s)
    BY <1>2 DEF Lists
  <1>8. ASSUME NEW s \in Screen, NEW list \in Lists(s), NEW k \in DOMAIN list
        PROVE  Told(s, list[k])'
    <2> DEFINE m == list[k]
    <2>1. Told(s, m)
      BY DEF ListsInv, ScreenLists
    <2>2. CASE IsNew(payload) /\ payload.id = m.id
      <3>1. PublishedAs(m.id) = {} /\ m.content = payload.content
            /\ scope_user[ch] = author[s] /\ chat_id[ch] = chat[s]
        BY <1>5, <1>6, <2>2
      <3>2. ~ \E p \in DOMAIN log : Writes(log[p].payload, m.id)
        BY <1>1, <3>1, PublishedFacts DEF Typed, Writes, IsNew, IsEdit
      <3>3. m.author = author[s]
        BY <2>1, <3>2 DEF Told
      <3>4. \A p \in PublishedAs(m.id)' : p = last
        BY <1>4, <3>1
      <3>5. Writes(payload, m.id) /\ last \in DOMAIN log'
        BY <1>3, <2>2 DEF Writes
      <3> HIDE DEF m
      <3>6. \A p \in PublishedAs(m.id)' : log'[p].user = m.author /\ log'[p].chat = chat[s]
        BY <1>3, <3>1, <3>3, <3>4
      <3>7. \E p \in DOMAIN log' : Writes(log'[p].payload, m.id) /\ log'[p].payload.content = m.content
        BY <1>3, <3>1, <3>5
      <3> QED
        BY <3>6, <3>7 DEF Told, PublishedAs, m
    <2>3. CASE ~(IsNew(payload) /\ payload.id = m.id)
      <3> HIDE DEF m
      <3>1. \A p : p \in PublishedAs(m.id)' <=> p \in PublishedAs(m.id)
        BY <1>4, <2>3
      <3>2. CASE m.author = author[s] /\ PublishedAs(m.id) = {}
        <4>1. PublishedAs(m.id)' = {}
          BY <3>1, <3>2
        <4> QED
          BY <3>2, <4>1 DEF Told, PublishedAs, m
      <3>3. CASE ~(m.author = author[s] /\ PublishedAs(m.id) = {})
        <4>1. \A p \in PublishedAs(m.id)' : log'[p].user = m.author /\ log'[p].chat = chat[s]
          BY <1>3, <2>1, <3>1, <3>3 DEF Told, PublishedAs
        <4>2. \E p \in DOMAIN log' : Writes(log'[p].payload, m.id) /\ log'[p].payload.content = m.content
          BY <1>3, <2>1, <3>3 DEF Told
        <4> QED
          BY <4>1, <4>2 DEF Told, PublishedAs, m
      <3> QED
        BY <3>2, <3>3
    <2> QED
      BY <2>2, <2>3
  <1>9. ASSUME NEW s \in Screen PROVE KeptLocally(s)'
    <2>1. KeptLocally(s)
      BY DEF ListsInv, ScreenLists
    <2>2. \A x : PublishedAs(x) # {} => PublishedAs(x)' # {}
      BY <1>4
    <2> QED
      BY <1>2, <1>7, <2>1, <2>2 DEF KeptLocally
  <1>10. ASSUME NEW s \in Screen, NEW list \in Lists(s), NEW k, NEW n, OldList(s, k, list, n)
         PROVE  OldList(s, k, list, n)'
    <2>1. \A p : SeenBefore(k, n, p)' <=> SeenBefore(k, n, p)
      BY <1>2 DEF SeenBefore
    <2>2. ASSUME NEW i \in DOMAIN list, NEW p \in PublishedAs(list[i].id)'
          PROVE  log'[p].user = author[s] \/ SeenBefore(k, n, p)
      <3>1. CASE p \in PublishedAs(list[i].id)
        BY <1>3, <1>10, <3>1 DEF OldList, PublishedAs
      <3>2. CASE p = last /\ IsNew(payload) /\ payload.id = list[i].id
        BY <1>3, <1>6, <3>2
      <3> QED
        BY <1>4, <3>1, <3>2
    <2> QED
      BY <2>1, <2>2 DEF OldList, PublishedAs, SeenBefore
  <1>11. ASSUME NEW s \in Screen, NEW k \in Channel, Serves(k, s)'
         PROVE  ChannelOf(s, k)'
    <2>1. Serves(k, s)
      BY <1>2, <1>11 DEF Serves
    <2>2. ChannelOf(s, k) /\ shown[s] \in Lists(s)
      BY <2>1 DEF ListsInv, ScreenLists, Lists
    <2>3. \A q \in DOMAIN sent[k] : sent[k][q] \in DOMAIN log
      BY <1>1, ServerFacts DEF Typed
    <2>4. OldList(s, k, shown[s], readPos[k] + 1)
      BY <2>2 DEF ChannelOf
    <2>5. ASSUME NEW list, NEW n, list = shown[s], n = readPos[k] + 1
          PROVE  OldList(s, k, list, n)'
      BY <1>10, <2>2, <2>4, <2>5
    <2>6. OldList(s, k, shown[s], readPos[k] + 1)'
      BY <1>2, <2>5 DEF OldList, SeenBefore, PublishedAs
    <2> QED
      BY <1>2, <1>3, <2>2, <2>3, <2>6 DEF ChannelOf
  <1>12. ASSUME NEW s \in Screen, NEW h \in handlers[s] PROVE HandlerOf(s, h)'
    <2>1. HandlerOf(s, h) /\ h.base \in Lists(s)
      BY DEF ListsInv, ScreenLists, Lists
    <2>2. \A p : p \in PublishedAs(h.id)' <=> p \in PublishedAs(h.id)
      BY <1>4, <1>5, <2>1 DEF HandlerOf
    <2>3. \A k : OldList(s, k, h.base, h.n) => OldList(s, k, h.base, h.n)'
      BY <1>10, <2>1
    <2>4. \A k \in Channel : \A q \in DOMAIN sent[k] : sent[k][q] \in DOMAIN log
      BY <1>1, ServerFacts DEF Typed
    <2>5. webSocket[s] \in Channel \cup {NoChannel}
      BY <1>1 DEF Typed, Client!TypeOK
    <2>6. \A k : k = webSocket[s] /\ k # NoChannel =>
             /\ h.n \in DOMAIN sent'[k] /\ h.n <= readPos'[k]
             /\ log'[sent'[k][h.n]].payload.event_name = h.event_name
             /\ log'[sent'[k][h.n]].payload.id = h.id
             /\ OldList(s, k, h.base, h.n)'
      BY <1>2, <1>3, <2>1, <2>3, <2>4, <2>5 DEF HandlerOf
    <2>7. h.reply # NoMessage =>
            /\ h.reply.id = h.id
            /\ \A p \in PublishedAs(h.id)' : log'[p].user = h.reply.author
            /\ \E p \in DOMAIN log' :
                 Writes(log'[p].payload, h.id) /\ log'[p].payload.content = h.reply.content
      BY <1>3, <2>1, <2>2 DEF HandlerOf, PublishedAs
    <2>8. ~Client!Closed(s)' => webSocket[s] # NoChannel
      BY <1>2, <2>1 DEF HandlerOf, Client!Closed
    <2>9. PublishedAs(h.id)' # {}
      BY <2>1, <2>2 DEF HandlerOf
    <2> QED
      BY <1>2, <2>6, <2>7, <2>8, <2>9 DEF HandlerOf
  <1>13. ASSUME NEW s \in Screen PROVE ScreenLists(s)'
    <2>1. ScreenLists(s) /\ UNCHANGED <<awaiting, dialing, handlers>>
      BY <1>2 DEF ListsInv
    <2>2. \A list \in Lists(s)' : DistinctIds(list) /\ \A i \in DOMAIN list : Told(s, list[i])'
      BY <1>7, <1>8, <2>1 DEF ScreenLists
    <2> QED
      BY <1>9, <1>11, <1>12, <2>1, <2>2 DEF ScreenLists
  <1>14. ASSUME NEW k \in Channel PROVE ChannelLists(k)'
    <2>1. ChannelLists(k)
      BY DEF ListsInv
    <2>2. ASSUME NEW i \in DOMAIN written[k], Waits(k, i)' PROVE WaitingOf(k, i)'
      <3>1. /\ taken[k] \in Nat /\ taken[ch] \in Nat /\ i \in Nat
            /\ DOMAIN taken = Channel /\ DOMAIN written[ch] = 1 .. Len(written[ch])
            /\ Len(written[ch]) \in Nat
        <4>1. written[k] \in Seq(Payload) /\ written[ch] \in Seq(Payload)
          BY <1>1 DEF Typed, Client!TypeOK, Client!Payload, Payload
        <4> QED
          BY <1>1, <4>1 DEF Typed, Reading
      <3>2. i > taken'[k]
        BY <2>2 DEF Waits
      <3>3. Waits(k, i)
        BY <3>1, <3>2 DEF Waits
      <3>4. WaitingOf(k, i)
        BY <2>1, <3>3 DEF ChannelLists
      <3>5. ~(IsNew(payload) /\ payload.id = written[k][i].id)
        <4>1. SUFFICES ASSUME IsNew(payload), payload.id = written[k][i].id PROVE FALSE
          OBVIOUS
        <4>2. ~Fresh(payload.id)
          BY <4>1, FreshNowhere
        <4>3. /\ taken[ch] + 1 \in DOMAIN written[ch] /\ payload = written[ch][taken[ch] + 1]
              /\ taken'[ch] = taken[ch] + 1
          BY <3>1, <4>1, <4>2
        <4>4. k = ch /\ i = taken[ch] + 1
          BY <4>1, <4>3 DEF ListsInv, WrittenOnce
        <4> QED
          BY <3>1, <3>2, <4>3, <4>4
      <3>6. \A x : ~(IsNew(payload) /\ payload.id = x) =>
                \A p : p \in PublishedAs(x)' <=> p \in PublishedAs(x)
        BY <1>4
      <3>7. PublishedAs(written[k][i].id) = {} /\ IsNew(written[k][i])
        BY <3>4 DEF WaitingOf
      <3>8. \A x : x = written[k][i].id => PublishedAs(x)' = {}
        BY <3>5, <3>6, <3>7
      <3> QED
        BY <1>2, <1>7, <3>4, <3>7, <3>8 DEF WaitingOf
    <2> QED
      BY <1>2, <2>1, <2>2 DEF ChannelLists, Waits
  <1>15. WrittenOnce'
    BY <1>2 DEF ListsInv, WrittenOnce
  <1> QED
    BY <1>1, <1>13, <1>14, <1>15 DEF ListsInv

----------------------------------------------------------------------------
(* The invariant of the lists, and what follows from it.                   *)

\* All lists are empty at first.
LEMMA ListsInit == Init => ListsInv
PROOF
  <1> SUFFICES ASSUME Init PROVE ListsInv
    OBVIOUS
  <1>1. Typed
    BY TypedInit
  <1>2. /\ \A s \in Screen : /\ shown[s] = << >> /\ webSocket[s] = NoChannel
                             /\ handlers[s] = {} /\ dialing[s] = NoChannel
        /\ \A ch \in Channel : written[ch] = << >>
        /\ DOMAIN << >> = {}
    BY DEF Init, Client!Init
  <1>3. ASSUME NEW s \in Screen PROVE ScreenLists(s)
    <2>1. Lists(s) = {<< >>} /\ \A ch \in Channel : ~Serves(ch, s)
      BY <1>2 DEF Lists, Serves
    <2> QED
      BY <1>2, <2>1 DEF ScreenLists, DistinctIds, KeptLocally
  <1>4. \A ch \in Channel : ChannelLists(ch)
    BY <1>2 DEF ChannelLists
  <1>5. WrittenOnce
    BY <1>2 DEF WrittenOnce
  <1> QED
    BY <1>1, <1>3, <1>4, <1>5 DEF ListsInv

\* Every step keeps the lists as they should be.
LEMMA ListsStep == ListsInv /\ [Next]_vars => ListsInv'
PROOF
  <1> SUFFICES ASSUME ListsInv, [Next]_vars PROVE ListsInv'
    OBVIOUS
  <1>1. CASE UNCHANGED vars
    BY <1>1, ServerListsStep DEF vars, serverVars
  <1>2. CASE ServerStep
    <2>1. UNCHANGED <<log, clientVars, dialing, taken>>
      BY <1>2 DEF ServerStep, Server!OnHandleMessageEvent, Server!ProcessOwnEvent,
           Server!FailOwnEvent, Server!ForwardEvent, Server!Disconnect, Server!ServerStop,
           Server!Administration, Server!AdminCreateChat, Server!AdminDeleteChat,
           Server!AdminAddParticipant, Server!AdminRemoveParticipant, Server!AdminDeleteMessage
    <2> QED
      BY <2>1, ServerListsStep
  <1>3. ASSUME NEW ch \in Channel, Uplink(ch) PROVE ListsInv'
    <2>1. written[ch][taken[ch] + 1] \in Payload
      <3>1. written[ch] \in Seq(Payload) /\ taken[ch] \in Nat
        BY DEF ListsInv, Typed, Reading, Client!TypeOK, Client!Payload, Payload
      <3> QED
        BY <1>3, <3>1 DEF Uplink
    <2> QED
      BY <1>3, <2>1, PublishLists DEF Uplink
  <1>4. CASE ScriptStep
    <2>1. PICK ch \in Channel :
            \/ \E user \in ScriptUser, c \in Chat : Server!Connect(ch, user, c)
            \/ \E payload \in Payload :
                 /\ payload.event_name = "new_message" => Fresh(payload.id)
                 /\ Server!Receive(ch, payload)
      BY Zenon, <1>4 DEF ScriptStep
    <2>2. UNCHANGED <<clientVars, dialing, taken, readPos>>
      BY <1>4 DEF ScriptStep
    <2>3. CASE \E user \in ScriptUser, c \in Chat : Server!Connect(ch, user, c)
      BY <2>2, <2>3, ServerListsStep DEF Server!Connect
    <2>4. CASE \E payload \in Payload :
                 /\ payload.event_name = "new_message" => Fresh(payload.id)
                 /\ Server!Receive(ch, payload)
      BY <2>2, <2>4, PublishLists DEF IsNew
    <2> QED
      BY <2>1, <2>3, <2>4
  <1>5. ASSUME NEW s \in Screen,
               \/ Open(s) \/ Load(s) \/ LoadOrDialFails(s) \/ SocketOpens(s) \/ Leave(s)
               \/ \E ch \in Channel : Dial(s, ch)
               \/ \E id \in MessageId, content \in Content : Send(s, id, content)
               \/ Downlink(s)
               \/ \E h \in handlers[s] : Answer(s, h) \/ AnswerLost(s, h) \/ Resume(s, h)
        PROVE  ListsInv'
    BY <1>5, OpenLists, LoadLists, FailsLists, SocketLists, LeaveLists, DialLists, SendLists,
       DownlinkLists, AnswerLists, ResumeLists
  <1> QED
    BY <1>1, <1>2, <1>3, <1>4, <1>5 DEF Next

\* No message is on a screen twice: the local copy, the history and the events
\* never bring the same one, whatever order the answers come in.
THEOREM NoneTwice == Spec => []NoDuplicates
PROOF
  <1>1. ListsInv => NoDuplicates
    BY DEF ListsInv, ScreenLists, Lists, DistinctIds, NoDuplicates
  <1> QED
    BY <1>1, ListsInit, ListsStep, PTL DEF Spec

\* What a screen shows was published in its chat by the author it names, with
\* a text that was published for it, or is its own and on its way.
THEOREM ShownWasPublished == Spec => []ShownAsPublished
PROOF
  <1>1. ListsInv => \A s \in Screen : \A i \in DOMAIN shown[s] : Told(s, shown[s][i])
    BY DEF ListsInv, ScreenLists, Lists
  <1>2. (\A s \in Screen : \A i \in DOMAIN shown[s] : Told(s, shown[s][i])) => ShownAsPublished
    BY Zenon DEF Told, ShownAsPublished
  <1> QED
    BY <1>1, <1>2, ListsInit, ListsStep, PTL DEF Spec

----------------------------------------------------------------------------
(* The order of a screen, while no user is connected twice to a chat.      *)

\* What ShownInSenderOrder asks of one list of a screen.
OrderedList(s, list) ==
  \A i, j \in DOMAIN list :
    (i < j /\ list[i].author = list[j].author /\ list[i].author # author[s]) =>
      \A n \in PublishedAs(list[i].id), k \in PublishedAs(list[j].id) : n > k

ListsOrdered == \A s \in Screen : \A list \in Lists(s) : OrderedList(s, list)

\* What a step may show instead of what it showed.
NewList(s, list) ==
  \/ list = << >>
  \/ list = HistoryOf(chat[s])
  \/ \E id : list = Client!Without(shown[s], id)
  \/ \E m : m.author = author[s] /\ list = <<m>> \o shown[s]
  \/ \E h \in handlers[s] :
       /\ ~Client!Closed(s) /\ h.reply # NoMessage
       /\ h.event_name = "edit_message" => h.id \in Client!Ids(h.base)
       /\ list = Client!Updated(h)

\* A step shows a screen such a list, and its handlers capture the one shown.
LEMMA ListsChange ==
  ASSUME Typed, [Next]_vars, NEW s \in Screen
  PROVE  /\ shown'[s] = shown[s] \/ NewList(s, shown'[s])
         /\ Lists(s)' \subseteq Lists(s) \cup {shown'[s]}
PROOF
  <1> DEFINE Bases == \A h \in handlers'[s] :
                        h.base = shown[s] \/ \E g \in handlers[s] : g.base = h.base
             Shows == shown'[s] = shown[s] \/ NewList(s, shown'[s])
  <1>1. DOMAIN shown = Screen /\ DOMAIN handlers = Screen
    BY DEF Typed, Client!TypeOK
  <1>2. handlers' = handlers => Bases
    OBVIOUS
  <1>3. shown' = shown => Shows
    OBVIOUS
  <1>4. ASSUME NEW z \in Screen,
               \/ Open(z) \/ Load(z) \/ LoadOrDialFails(z) \/ SocketOpens(z) \/ Leave(z)
        PROVE  Bases /\ Shows
    <2>1. handlers' = handlers
      BY <1>4 DEF Open, Load, LoadOrDialFails, SocketOpens, Leave, Client!Initialize,
           Client!HistoryArrives, Client!InitializeFails, Client!SocketOpens, Client!Close,
           Client!FinishClose
    <2>2. shown' = shown \/ shown' = [shown EXCEPT ![z] = << >>]
          \/ shown' = [shown EXCEPT ![z] = HistoryOf(chat[z])]
      BY <1>4 DEF Open, Load, LoadOrDialFails, SocketOpens, Leave, Client!Initialize,
           Client!HistoryArrives, Client!InitializeFails, Client!SocketOpens, Client!Close,
           Client!FinishClose, Client!Emit
    <2>3. shown'[s] \in {shown[s], << >>, HistoryOf(chat[s])}
      BY <1>1, <2>2
    <2> QED
      BY <1>2, <2>1, <2>3 DEF NewList
  <1>5. ASSUME NEW z \in Screen, NEW id \in MessageId, NEW content \in Content, Send(z, id, content)
        PROVE  Bases /\ Shows
    <2> DEFINE m == [id |-> id, author |-> author[z], content |-> content]
    <2>1. handlers' = handlers /\ shown' = [shown EXCEPT ![z] = <<m>> \o @]
      BY <1>5 DEF Send, Client!SendTextMessage
    <2>2. m.author = author[z]
      OBVIOUS
    <2> HIDE DEF m
    <2>3. shown'[s] = shown[s] \/ (z = s /\ shown'[s] = <<m>> \o shown[s])
      BY <1>1, <2>1
    <2> QED
      BY <1>2, <2>1, <2>2, <2>3 DEF NewList
  <1>6. ASSUME NEW z \in Screen, NEW n, NEW event_name, NEW id,
               Client!OnNewOrEdit(z, n, event_name, id)
        PROVE  Bases /\ Shows
    <2> DEFINE g == [n |-> n, event_name |-> event_name, id |-> id,
                     base |-> shown[z], answered |-> FALSE, reply |-> NoMessage]
    <2>1. handlers' = [handlers EXCEPT ![z] = @ \cup {g}] /\ shown' = shown
      BY <1>6 DEF Client!OnNewOrEdit
    <2>2. g.base = shown[z]
      OBVIOUS
    <2> HIDE DEF g
    <2>3. \A h \in handlers'[s] : h \in handlers[s] \/ h.base = shown[s]
      BY <1>1, <2>1, <2>2
    <2> QED
      BY <1>3, <2>1, <2>3
  <1>7. ASSUME NEW z \in Screen, NEW id, Client!OnDelete(z, id)
        PROVE  Bases /\ Shows
    <2>1. /\ handlers' = handlers
          /\ shown' = shown \/ shown' = [shown EXCEPT ![z] = Client!Without(shown[z], id)]
      BY <1>7 DEF Client!OnDelete, Client!Emit
    <2>2. shown'[s] = shown[s] \/ shown'[s] = Client!Without(shown[s], id)
      BY <1>1, <2>1
    <2> QED
      BY <1>2, <2>1, <2>2 DEF NewList
  <1>8. ASSUME NEW z \in Screen, NEW h \in handlers[z], Answer(z, h) \/ AnswerLost(z, h)
        PROVE  Bases /\ Shows
    <2>1. PICK reply : /\ handlers' = [handlers EXCEPT ![z] = (@ \ {h}) \cup
                            {[h EXCEPT !.answered = TRUE, !.reply = reply]}]
                       /\ shown' = shown
      BY Zenon, <1>8 DEF Answer, AnswerLost, Client!MessageAnswered
    <2>2. [h EXCEPT !.answered = TRUE, !.reply = reply].base = h.base
      BY DEF Typed, Client!TypeOK, Client!Handler
    <2>3. \A g \in handlers'[s] : g \in handlers[s] \/ (z = s /\ g.base = h.base)
      BY <1>1, <2>1, <2>2
    <2> QED
      BY <1>3, <2>1, <2>3
  <1>9. ASSUME NEW z \in Screen, NEW h \in handlers[z], Resume(z, h)
        PROVE  Bases /\ Shows
    <2>1. /\ handlers' = [handlers EXCEPT ![z] = @ \ {h}]
          /\ \/ shown' = shown
             \/ /\ ~Client!Closed(z) /\ h.reply # NoMessage
                /\ h.event_name = "edit_message" => h.id \in Client!Ids(h.base)
                /\ shown' = [shown EXCEPT ![z] = Client!Updated(h)]
      BY <1>9 DEF Resume, Client!Resume, Client!Emit
    <2>2. handlers'[s] \subseteq handlers[s]
      BY <1>1, <2>1
    <2>3. \/ shown'[s] = shown[s]
          \/ /\ z = s /\ ~Client!Closed(s) /\ h.reply # NoMessage
             /\ h.event_name = "edit_message" => h.id \in Client!Ids(h.base)
             /\ shown'[s] = Client!Updated(h)
      BY <1>1, <2>1
    <2> QED
      BY <2>2, <2>3 DEF NewList
  <1>10. ASSUME UNCHANGED clientVars PROVE Bases /\ Shows
    BY <1>2, <1>3, <1>10 DEF clientVars
  <1> HIDE DEF Bases, Shows
  <1>11. ASSUME NEW z \in Screen, Downlink(z) PROVE Bases /\ Shows
    <2>1. \/ \E n, event_name, id : Client!OnNewOrEdit(z, n, event_name, id)
          \/ \E id : Client!OnDelete(z, id)
          \/ UNCHANGED clientVars
      BY Zenon, <1>11, DownlinkCases
    <2> QED
      BY <1>6, <1>7, <1>10, <2>1
  <1>12. ASSUME \/ \E ch \in Channel : Uplink(ch) \/ \E z \in Screen : Dial(z, ch)
                \/ ServerStep \/ ScriptStep \/ UNCHANGED vars
         PROVE  Bases /\ Shows
    <2>1. UNCHANGED clientVars
      BY Zenon, <1>12 DEF vars, Uplink, Dial, ServerStep, ScriptStep
    <2> QED
      BY <1>10, <2>1
  <1>13. Bases /\ Shows
    BY <1>4, <1>5, <1>8, <1>9, <1>11, <1>12 DEF Next
  <1> QED
    BY <1>13 DEF Bases, Shows, Lists

\* An event that made a row of the history.
LEMMA HistoryEvents ==
  ASSUME ServerInv, NEW c, NEW k \in DOMAIN HistoryOf(c)
  PROVE  /\ PlaceOf(c, k) \in DOMAIN processed
         /\ processed[PlaceOf(c, k)] \in PublishedAs(HistoryOf(c)[k].id)
         /\ log[processed[PlaceOf(c, k)]].user = HistoryOf(c)[k].author
         /\ log[processed[PlaceOf(c, k)]].chat = c
PROOF
  <1> DEFINE i == PlaceOf(c, k)
             id == HistoryOf(c)[k].id
  <1>1. i \in Rows(c) /\ HistoryOf(c)[k] = RowAt(i) /\ i \in DOMAIN processed
    BY HistoryPlaces
  <1>2. processed[i] \in DOMAIN log
    BY <1>1, HistoryPlaces, ServerFacts
  <1>3. id = log[processed[i]].payload.id
    BY <1>1 DEF RowAt, BubbleOf
  <1>4. processed[i] \in PublishedAs(id)
    BY <1>1, <1>2, <1>3 DEF Rows, PublishedAs
  <1>5. id \in MessageId /\ messages[id] # NoMessage /\ messages[id].chat = c
        /\ HistoryOf(c)[k] = BubbleOf(id)
    BY HistoryFacts
  <1> HIDE DEF i, id
  <1>6. log[processed[i]].user = BubbleOf(id).author /\ log[processed[i]].chat = c
    BY <1>4, <1>5, StoredFacts
  <1> QED
    BY <1>1, <1>4, <1>5, <1>6 DEF i, id

\* A history is in the order in which the events that made it were carried out.
LEMMA HistoryOrder ==
  ASSUME Typed, ServerSide!ProcessedInOrder, NEW s \in Screen
  PROVE  OrderedList(s, HistoryOf(chat[s]))
PROOF
  <1> DEFINE c == chat[s]
             list == HistoryOf(c)
             place(k) == PlaceOf(c, k)
  <1>1. ServerInv
    BY DEF Typed
  <1>2. \A k \in DOMAIN list :
          /\ place(k) \in DOMAIN processed
          /\ processed[place(k)] \in PublishedAs(list[k].id)
          /\ log[processed[place(k)]].user = list[k].author
          /\ log[processed[place(k)]].chat = c
    BY <1>1, HistoryEvents
  <1>3. \A k, l \in DOMAIN list : k < l => place(l) < place(k)
    BY <1>1, HistoryPlaces
  <1>4. \A i, j \in DOMAIN processed :
          (/\ i < j /\ log[processed[i]].user = log[processed[j]].user
           /\ log[processed[i]].chat = log[processed[j]].chat) => processed[i] < processed[j]
    BY DEF ServerSide!ProcessedInOrder
  <1>5. \A i \in DOMAIN processed : processed[i] \in Nat
    BY <1>1, HistoryPlaces
  <1> HIDE DEF c, list, place
  <1>6. ASSUME NEW i \in DOMAIN list, NEW j \in DOMAIN list, i < j, list[i].author = list[j].author,
               NEW n \in PublishedAs(list[i].id), NEW k \in PublishedAs(list[j].id)
        PROVE  n > k
    <2>1. n = processed[place(i)] /\ k = processed[place(j)]
      BY <1>1, <1>2, PublishedFacts
    <2>2. processed[place(j)] < processed[place(i)]
      BY <1>2, <1>3, <1>4, <1>6
    <2> QED
      BY <1>2, <1>5, <2>1, <2>2
  <1> QED
    BY <1>6 DEF OrderedList, list, c

\* A handler puts its message before the others of its sender, which came
\* before it, or in its own place.
LEMMA UpdatedOrder ==
  ASSUME ListsInv, ListsOrdered, NEW s \in Screen, NEW h \in handlers[s],
         ~Client!Closed(s), h.reply # NoMessage,
         h.event_name = "edit_message" => h.id \in Client!Ids(h.base)
  PROVE  OrderedList(s, Client!Updated(h))
PROOF
  <1> DEFINE base == h.base
             list == Client!Updated(h)
             ch == webSocket[s]
             e == sent[ch][h.n]
  <1>1. /\ Typed /\ ScreenLists(s) /\ HandlerOf(s, h) /\ h \in Client!Handler
        /\ base \in Lists(s) /\ OrderedList(s, base)
    BY DEF ListsInv, ScreenLists, Typed, Client!TypeOK, Lists, ListsOrdered
  <1>2. /\ h.reply.id = h.id /\ PublishedAs(h.id) # {}
        /\ \A n \in PublishedAs(h.id) : log[n].user = h.reply.author
    BY <1>1 DEF HandlerOf
  <1>3. base \in Seq(Client!Bubble) /\ h.event_name \in {"new_message", "edit_message"}
    BY <1>1, <1>2, UpdatedFacts
  <1>4. \A i \in DOMAIN base : base[i].author # author[s] =>
          \A p \in PublishedAs(base[i].id) : log[p].user = base[i].author
    BY <1>1 DEF ScreenLists, Told
  <1>5. CASE h.event_name = "new_message"
    <2>1. list = <<h.reply>> \o base
      BY <1>1, <1>2, <1>5, UpdatedFacts
    <2>2. /\ ch \in Channel /\ OldList(s, ch, base, h.n) /\ h.n \in DOMAIN sent[ch]
          /\ e \in PublishedAs(h.id) /\ h.id \notin Client!Ids(base)
      BY <1>5, HandlerFacts
    <2>3. /\ joinedAt[ch] \in Nat /\ e \in Nat /\ e > joinedAt[ch]
          /\ \A q \in DOMAIN sent[ch] : sent[ch][q] \in Nat /\ (q < h.n => sent[ch][q] < e)
      BY <1>1, <2>2, ServerFacts DEF Typed
    <2> HIDE DEF base, list, e, ch
    <2>4. /\ DOMAIN list = 1 .. (1 + Len(base)) /\ list[1] = h.reply /\ Len(base) \in Nat
          /\ \A k \in DOMAIN list : k # 1 => k - 1 \in DOMAIN base /\ list[k] = base[k - 1]
      BY <1>2, <1>3, <2>1
    <2>5. ASSUME NEW j \in DOMAIN base, base[j].author # author[s],
                 NEW n \in PublishedAs(h.id), NEW k \in PublishedAs(base[j].id)
          PROVE  n > k
      <3>1. n = e
        BY <1>1, <2>2, PublishedFacts DEF Typed
      <3>2. SeenBefore(ch, h.n, k)
        BY <1>4, <2>2, <2>5 DEF OldList
      <3>3. k \in Nat
        BY <1>1, PublishedFacts, ServerFacts DEF Typed
      <3> QED
        BY <2>3, <3>1, <3>2, <3>3 DEF SeenBefore
    <2>6. ASSUME NEW i \in DOMAIN list, NEW j \in DOMAIN list, i < j,
                 list[i].author = list[j].author, list[i].author # author[s],
                 NEW n \in PublishedAs(list[i].id), NEW k \in PublishedAs(list[j].id)
          PROVE  n > k
      <3>1. j # 1 /\ j - 1 \in DOMAIN base /\ list[j] = base[j - 1]
        BY <2>4, <2>6
      <3>2. CASE i = 1
        BY <1>2, <2>4, <2>5, <2>6, <3>1, <3>2
      <3>3. CASE i # 1
        <4>1. i - 1 \in DOMAIN base /\ list[i] = base[i - 1] /\ i - 1 < j - 1
          BY <2>4, <2>6, <3>3
        <4> QED
          BY <1>1, <2>6, <3>1, <4>1 DEF OrderedList
      <3> QED
        BY <3>2, <3>3
    <2>7. OrderedList(s, list)
      BY <2>6 DEF OrderedList
    <2> QED
      BY <2>7 DEF list
  <1>6. CASE h.event_name = "edit_message"
    <2>1. PICK i \in DOMAIN base : base[i].id = h.id /\ list = [base EXCEPT ![i] = h.reply]
      BY <1>1, <1>2, <1>6, UpdatedFacts
    <2>2. base[i].author # author[s] \/ h.reply.author # author[s] => base[i].author = h.reply.author
      <3>1. Told(s, base[i])
        BY <1>1 DEF ScreenLists
      <3> QED
        BY <1>2, <2>1, <3>1 DEF Told
    <2> HIDE DEF base, list
    <2>3. /\ DOMAIN list = DOMAIN base
          /\ \A k \in DOMAIN base : list[k].id = base[k].id
          /\ \A k \in DOMAIN base : list[k].author # author[s] => list[k].author = base[k].author
      BY <1>2, <1>3, <2>1, <2>2
    <2>4. OrderedList(s, list)
      BY <1>1, <2>3 DEF OrderedList
    <2> QED
      BY <2>4 DEF list
  <1> QED
    BY <1>3, <1>5, <1>6

\* Whatever a step shows is in order.
LEMMA NewIsOrdered ==
  ASSUME ListsInv, ListsOrdered, ServerSide!ProcessedInOrder, NEW s \in Screen, NEW list,
         NewList(s, list)
  PROVE  OrderedList(s, list)
PROOF
  <1>1. Typed /\ shown[s] \in Seq(Client!Bubble) /\ OrderedList(s, shown[s])
    BY DEF ListsInv, Typed, Client!TypeOK, ListsOrdered, Lists
  <1>2. CASE list = << >>
    BY <1>2 DEF OrderedList
  <1>3. CASE list = HistoryOf(chat[s])
    BY <1>1, <1>3, HistoryOrder
  <1>4. ASSUME NEW id, list = Client!Without(shown[s], id) PROVE OrderedList(s, list)
    <2>1. list = ClientSide!Without(shown[s], id) /\ shown[s] \in Seq(ClientSide!Bubble)
      BY <1>1, <1>4, SameWithout, SameClientState
    <2>2. \A given \in Seq(ClientSide!Bubble) : \A x :
            ClientSide!IsPart(ClientSide!Without(given, x), given, x)
      BY Zenon, ClientAssumed, ClientSide!WithoutFacts
    <2>3. ClientSide!IsPart(list, shown[s], id)
      BY <2>1, <2>2
    <2>4. PICK place \in [DOMAIN list -> DOMAIN shown[s]] :
            /\ \A n \in DOMAIN list : list[n] = shown[s][place[n]]
            /\ \A m, n \in DOMAIN list : m < n => place[m] < place[n]
      BY <2>3 DEF ClientSide!IsPart
    <2> QED
      BY <1>1, <2>4 DEF OrderedList
  <1>5. ASSUME NEW m, m.author = author[s], list = <<m>> \o shown[s] PROVE OrderedList(s, list)
    <2>1. /\ DOMAIN list = 1 .. (1 + Len(shown[s])) /\ list[1] = m /\ Len(shown[s]) \in Nat
          /\ \A k \in DOMAIN list : k # 1 => k - 1 \in DOMAIN shown[s] /\ list[k] = shown[s][k - 1]
      BY <1>1, <1>5
    <2>2. ASSUME NEW i \in DOMAIN list, NEW j \in DOMAIN list, i < j,
                 list[i].author = list[j].author, list[i].author # author[s],
                 NEW n \in PublishedAs(list[i].id), NEW k \in PublishedAs(list[j].id)
          PROVE  n > k
      <3>1. i # 1 /\ j # 1
        BY <1>5, <2>1, <2>2
      <3>2. /\ i - 1 \in DOMAIN shown[s] /\ list[i] = shown[s][i - 1]
            /\ j - 1 \in DOMAIN shown[s] /\ list[j] = shown[s][j - 1] /\ i - 1 < j - 1
        BY <2>1, <2>2, <3>1
      <3> QED
        BY <1>1, <2>2, <3>2 DEF OrderedList
    <2> QED
      BY <2>2 DEF OrderedList
  <1>6. ASSUME NEW h \in handlers[s], ~Client!Closed(s), h.reply # NoMessage,
               h.event_name = "edit_message" => h.id \in Client!Ids(h.base),
               list = Client!Updated(h)
        PROVE  OrderedList(s, list)
    BY <1>6, UpdatedOrder
  <1> QED
    BY <1>2, <1>3, <1>4, <1>5, <1>6 DEF NewList

\* The events of others on a list are the same ever after.
LEMMA OthersStay ==
  ASSUME Typed, [Next]_vars, NEW s \in Screen, NEW m, Told(s, m), m.author # author[s]
  PROVE  \A p : p \in PublishedAs(m.id)' <=> p \in PublishedAs(m.id)
PROOF
  <1>1. ServerInv /\ ServerInv' /\ \A n \in DOMAIN log : n \in DOMAIN log' /\ log'[n] = log[n]
    BY SentGrows DEF Typed
  <1>2. PublishedAs(m.id) # {}
    <2>1. PICK n \in DOMAIN log : Writes(log[n].payload, m.id)
      BY DEF Told
    <2> QED
      BY <1>1, <2>1, PublishedFacts DEF Writes, IsNew, IsEdit
  <1>3. \A p \in PublishedAs(m.id) : p \in PublishedAs(m.id)'
    BY <1>1 DEF PublishedAs
  <1>4. \A id : \A p, q \in PublishedAs(id)' : p = q
    BY <1>1 DEF PublishedAs, ServerInv, ServerSide!SentInv, ServerSide!NewOnce, ServerSide!IsNew
  <1> HIDE DEF PublishedAs
  <1> QED
    BY <1>2, <1>3, <1>4

\* What a screen shows changes only when nothing is published.
LEMMA ShownOrPublished ==
  ASSUME [Next]_vars, ~UNCHANGED clientVars
  PROVE  UNCHANGED serverVars
PROOF
  <1>1. Next
    BY DEF vars
  <1>2. ASSUME NEW z \in Screen, Downlink(z) PROVE UNCHANGED serverVars
    BY <1>2 DEF Downlink
  <1> QED
    BY <1>1, <1>2 DEF Next, Open, Load, LoadOrDialFails, SocketOpens, Leave, Dial, Send, Answer,
         AnswerLost, Resume, Uplink, ServerStep, ScriptStep

\* The lists of every screen stay in order.
LEMMA OrderedStep ==
  ListsInv /\ ServerSide!ProcessedInOrder /\ ListsOrdered /\ [Next]_vars => ListsOrdered'
PROOF
  <1> SUFFICES ASSUME ListsInv, ServerSide!ProcessedInOrder, ListsOrdered, [Next]_vars,
                      NEW s \in Screen, NEW list \in Lists(s)'
               PROVE  OrderedList(s, list)'
    BY DEF ListsOrdered
  <1>1. Typed
    BY DEF ListsInv
  <1>2. CASE list \in Lists(s)
    <2>1. OrderedList(s, list) /\ \A i \in DOMAIN list : Told(s, list[i])
      BY <1>2 DEF ListsOrdered, ListsInv, ScreenLists
    <2>2. \A i \in DOMAIN list : list[i].author # author[s] =>
            \A p : p \in PublishedAs(list[i].id)' <=> p \in PublishedAs(list[i].id)
      BY <1>1, <2>1, OthersStay
    <2> QED
      BY <2>1, <2>2 DEF OrderedList
  <1>3. CASE list \notin Lists(s)
    <2>1. NewList(s, list) /\ shown'[s] # shown[s]
      BY <1>1, <1>3, ListsChange DEF Lists
    <2>2. OrderedList(s, list)
      BY <2>1, NewIsOrdered
    <2>3. log' = log
      BY <2>1, ShownOrPublished DEF clientVars, serverVars
    <2> QED
      BY <2>2, <2>3 DEF OrderedList, PublishedAs
  <1> QED
    BY <1>2, <1>3


\* Other users' messages are on a screen in the order in which they published
\* them, as long as no user is connected twice to a chat: what the history and
\* the events have brought a list is older than what they bring next.
THEOREM ShownInOrder ==
  Spec /\ []Server!OneConnectionEach => []ShownInSenderOrder
PROOF
  <1> DEFINE Inv == ListsInv /\ ServerSide!AloneInv /\ ListsOrdered
  <1>1. Init => Inv
    <2> SUFFICES ASSUME Init PROVE Inv
      OBVIOUS
    <2>1. ServerSide!AloneInv
      BY SameState, ServerAssumed, ServerSide!AloneInit DEF Init
    <2>2. \A s \in Screen : Lists(s) = {<< >>}
      BY DEF Init, Client!Init, Lists
    <2>3. ListsOrdered
      BY <2>2 DEF ListsOrdered, OrderedList
    <2> QED
      BY <2>1, <2>3, ListsInit
  <1>2. Inv /\ Server!OneConnectionEach /\ [Next]_vars => Inv'
    <2> SUFFICES ASSUME Inv, Server!OneConnectionEach, [Next]_vars PROVE Inv'
      OBVIOUS
    <2>1. ServerSide!OneConnectionEach
      BY Zenon DEF Server!OneConnectionEach, ServerSide!OneConnectionEach
    <2>2. ServerSide!Alone /\ [ServerSide!Next]_(ServerSide!vars)
      BY <2>1, ServerMoves DEF ListsInv, Typed, ServerInv, ServerSide!Alone
    <2>3. ServerSide!AloneInv'
      BY <2>2, ServerAssumed, ServerSide!AloneStep
    <2>4. ServerSide!ProcessedInOrder
      BY DEF ServerSide!AloneInv
    <2> QED
      BY <2>3, <2>4, ListsStep, OrderedStep
  <1>3. Inv => ShownInSenderOrder
    BY DEF ListsOrdered, Lists, OrderedList, ShownInSenderOrder
  <1> QED
    BY <1>1, <1>2, <1>3, PTL DEF Spec
=============================================================================
