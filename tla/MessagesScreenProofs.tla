------------------------ MODULE MessagesScreenProofs ------------------------
(***************************************************************************)
(* Proofs about MessagesScreenController, for any number of screens, any   *)
(* answers and any handlers: what a screen waits for matches its state,    *)
(* and a closed screen changes no more, for which what is on the list does *)
(* not matter; and the types, which the lists are most of.                 *)
(***************************************************************************)
EXTENDS MessagesScreenController, SequenceFacts

----------------------------------------------------------------------------
(* The invariant.                                                          *)

\* The variables have a value for each screen, of the kind that is needed.
Shape ==
  /\ state \in [Screen -> {"uninitialized", "initializing", "initialized", "fatal"}]
  /\ shown = [s \in Screen |-> shown[s]]
  /\ awaiting \in [Screen -> {"nothing", "history", "socket"}]
  /\ closing \in [Screen -> {"open", "closing", "closed"}]
  /\ webSocket \in [Screen -> Channel \cup {NoChannel}]
  /\ handlers = [s \in Screen |-> handlers[s]]

\* The conjuncts of AwaitsMatchState for one screen, and one more, which an
\* initialize that fails while it awaits the socket needs: no handler is
\* suspended then, since nothing has come in yet.
Matches(s) ==
  /\ awaiting[s] = "history" => state[s] = "initializing"
  /\ awaiting[s] = "socket" => state[s] = "initialized" /\ webSocket[s] = NoChannel
  /\ state[s] = "initializing" => awaiting[s] = "history" \/ Closed(s)
  /\ (webSocket[s] # NoChannel \/ handlers[s] # {}) => state[s] = "initialized"
  /\ awaiting[s] # "nothing" => handlers[s] = {}

ScreenInv ==
  /\ Shape
  /\ \A s \in Screen : Matches(s)

----------------------------------------------------------------------------
(* The steps.                                                              *)

\* The state of one screen, as far as Matches reads it.
View(s) == <<state[s], awaiting[s], closing[s], webSocket[s], handlers[s]>>

\* A screen whose view is unchanged matches as before.
LEMMA SameView ==
  ASSUME NEW s \in Screen, Matches(s), View(s)' = View(s)
  PROVE  Matches(s)'
  BY DEF Matches, View, Closed

\* emit keeps the shape, and touches its own screen only.
LEMMA EmitShape ==
  ASSUME Shape, NEW s \in Screen, NEW newState \in {"initializing", "initialized", "fatal"},
         NEW messages, Emit(s, newState, messages)
  PROVE  /\ state' \in [Screen -> {"uninitialized", "initializing", "initialized", "fatal"}]
         /\ shown' = [z \in Screen |-> shown'[z]]
         /\ state'[s] = IF Closed(s) THEN state[s] ELSE newState
         /\ \A z \in Screen \ {s} : state'[z] = state[z]
  BY DEF Shape, Emit

\* Before anything is asked for, everything matches.
LEMMA InitScreen == Init => ScreenInv
  BY DEF Init, ScreenInv, Shape, Matches, Closed

\* initialize awaits the history.
LEMMA InitializeScreen ==
  ASSUME ScreenInv, NEW s \in Screen, Initialize(s)
  PROVE  ScreenInv'
<1> USE DEF ScreenInv, Initialize
<1>1. Emit(s, "initializing", << >>) /\ ~Closed(s)
  BY DEF Closed
<1>2. Shape'
  BY <1>1, EmitShape DEF Shape
<1>3. ASSUME NEW z \in Screen PROVE Matches(z)'
  <2>1. CASE z = s
    BY <1>1, <2>1, EmitShape DEF Shape, Matches, Closed
  <2>2. CASE z # s
    BY <1>1, <2>2, EmitShape, SameView DEF Shape, View
  <2> QED
    BY <2>1, <2>2
<1> QED
  BY <1>2, <1>3

\* The history is shown, and the socket is awaited; not on a closed screen.
LEMMA HistoryArrivesScreen ==
  ASSUME ScreenInv, NEW s \in Screen, NEW messages, HistoryArrives(s, messages)
  PROVE  ScreenInv'
<1> USE DEF ScreenInv, HistoryArrives
<1>1. Shape'
  BY EmitShape DEF Shape
<1>2. ASSUME NEW z \in Screen PROVE Matches(z)'
  <2>1. CASE z = s
    BY <2>1, EmitShape DEF Shape, Matches, Closed
  <2>2. CASE z # s
    BY <2>2, EmitShape, SameView DEF Shape, View
  <2> QED
    BY <2>1, <2>2
<1> QED
  BY <1>1, <1>2

\* With the websocket the screen awaits nothing any more.
LEMMA SocketOpensScreen ==
  ASSUME ScreenInv, NEW s \in Screen, NEW ch \in Channel, SocketOpens(s, ch)
  PROVE  ScreenInv'
<1> USE DEF ScreenInv, SocketOpens
<1>1. Shape'
  BY DEF Shape
<1>2. ASSUME NEW z \in Screen PROVE Matches(z)'
  <2>1. CASE z = s
    BY <2>1 DEF Shape, Matches, Closed
  <2>2. CASE z # s
    BY <2>2, SameView DEF Shape, View
  <2> QED
    BY <2>1, <2>2
<1> QED
  BY <1>1, <1>2

\* An initialize that fails leaves nothing awaited, and no handler suspended
\* on an error page.
LEMMA InitializeFailsScreen ==
  ASSUME ScreenInv, NEW s \in Screen, InitializeFails(s)
  PROVE  ScreenInv'
<1> USE DEF ScreenInv, InitializeFails
<1>1. Shape'
  BY EmitShape DEF Shape
<1>2. ASSUME NEW z \in Screen PROVE Matches(z)'
  <2>1. CASE z = s
    BY <2>1, EmitShape DEF Shape, Matches, Closed
  <2>2. CASE z # s
    BY <2>2, EmitShape, SameView DEF Shape, View
  <2> QED
    BY <2>1, <2>2
<1> QED
  BY <1>1, <1>2

\* Sending adds to the list at once and awaits nothing.
LEMMA SendScreen ==
  ASSUME ScreenInv, NEW s \in Screen, NEW id, NEW content, SendTextMessage(s, id, content)
  PROVE  ScreenInv'
<1> USE DEF ScreenInv, SendTextMessage
<1>1. Shape'
  BY DEF Shape
<1>2. \A z \in Screen : Matches(z)'
  BY SameView DEF View
<1> QED
  BY <1>1, <1>2

\* A deletion filters the list at once.
LEMMA OnDeleteScreen ==
  ASSUME ScreenInv, NEW s \in Screen, NEW id, OnDelete(s, id)
  PROVE  ScreenInv'
<1> USE DEF ScreenInv, OnDelete
<1>1. Shape'
  BY EmitShape DEF Shape
<1>2. \A z \in Screen : View(z)' = View(z)
  BY EmitShape DEF View
<1> QED
  BY <1>1, <1>2, SameView

\* A handler is suspended only when initialize has come to its end.
LEMMA OnNewOrEditScreen ==
  ASSUME ScreenInv, NEW s \in Screen, NEW n, NEW event_name, NEW id,
         OnNewOrEdit(s, n, event_name, id)
  PROVE  ScreenInv'
<1> USE DEF ScreenInv, OnNewOrEdit
<1>1. Shape'
  BY DEF Shape
<1>2. ASSUME NEW z \in Screen PROVE Matches(z)'
  <2>1. CASE z = s
    BY <2>1 DEF Shape, Matches, Closed
  <2>2. CASE z # s
    BY <2>2, SameView DEF Shape, View
  <2> QED
    BY <2>1, <2>2
<1> QED
  BY <1>1, <1>2

\* The answer to a fetch arrives at its suspended handler.
LEMMA MessageAnsweredScreen ==
  ASSUME ScreenInv, NEW s \in Screen, NEW h, NEW reply, MessageAnswered(s, h, reply)
  PROVE  ScreenInv'
<1> USE DEF ScreenInv, MessageAnswered
<1>1. Shape'
  BY DEF Shape
<1>2. ASSUME NEW z \in Screen PROVE Matches(z)'
  <2>1. CASE z = s
    BY <2>1 DEF Shape, Matches, Closed
  <2>2. CASE z # s
    BY <2>2, SameView DEF Shape, View
  <2> QED
    BY <2>1, <2>2
<1> QED
  BY <1>1, <1>2

\* A handler that goes on finds the list still there.
LEMMA ResumeScreen ==
  ASSUME ScreenInv, NEW s \in Screen, NEW h, Resume(s, h)
  PROVE  ScreenInv'
<1> USE DEF ScreenInv, Resume
<1>1. state[s] = "initialized"
  BY DEF Matches
<1>2. /\ state' = state
      /\ shown' = [z \in Screen |-> shown'[z]]
  <2>1. CASE UNCHANGED <<state, shown>>
    BY <2>1 DEF Shape
  <2>2. CASE Emit(s, "initialized", Updated(h))
    BY <1>1, <2>2 DEF Emit, Shape
  <2> QED
    BY <2>1, <2>2
<1>3. Shape'
  BY <1>2 DEF Shape
<1>4. ASSUME NEW z \in Screen PROVE Matches(z)'
  <2>1. CASE z = s
    BY <1>1, <1>2, <2>1 DEF Shape, Matches, Closed
  <2>2. CASE z # s
    BY <1>2, <2>2, SameView DEF Shape, View
  <2> QED
    BY <2>1, <2>2
<1> QED
  BY <1>3, <1>4

\* Leaving a screen changes neither its state nor what it awaits.
LEMMA CloseScreen ==
  ASSUME ScreenInv, NEW s \in Screen, Close(s) \/ FinishClose(s)
  PROVE  ScreenInv'
<1> USE DEF ScreenInv
<1>1. Shape'
  BY DEF Shape, Close, FinishClose
<1>2. ASSUME NEW z \in Screen PROVE Matches(z)'
  <2>1. CASE z = s
    BY <2>1 DEF Shape, Matches, Closed, Close, FinishClose
  <2>2. CASE z # s
    BY <2>2, SameView DEF Shape, View, Close, FinishClose
  <2> QED
    BY <2>1, <2>2
<1> QED
  BY <1>1, <1>2

\* A step of one screen.
Step(s) ==
  \/ Initialize(s) \/ HistoryAnswered(s) \/ SocketAnswered(s)
  \/ \E id \in MessageId, content \in Content : Unused(id) /\ SendTextMessage(s, id, content)
  \/ Arrival(s) \/ Answer(s) \/ \E h \in handlers[s] : Resume(s, h)
  \/ Close(s) \/ FinishClose(s)

\* The invariant is inductive.
LEMMA StepScreen ==
  ASSUME ScreenInv, [Next]_clientVars
  PROVE  ScreenInv'
<1>1. CASE UNCHANGED clientVars
  BY <1>1, SameView DEF clientVars, ScreenInv, Shape, View
<1>2. ASSUME NEW s \in Screen, Step(s) PROVE ScreenInv'
  <2>1. CASE Initialize(s)
    BY <2>1, InitializeScreen
  <2>2. CASE HistoryAnswered(s)
    BY <2>2, HistoryArrivesScreen, InitializeFailsScreen DEF HistoryAnswered
  <2>3. CASE SocketAnswered(s)
    BY <2>3, SocketOpensScreen, InitializeFailsScreen DEF SocketAnswered
  <2>4. CASE \E id \in MessageId, content \in Content : SendTextMessage(s, id, content)
    BY <2>4, SendScreen
  <2>5. CASE Arrival(s)
    BY <2>5, OnDeleteScreen, OnNewOrEditScreen DEF Arrival
  <2>6. CASE Answer(s)
    BY <2>6, MessageAnsweredScreen DEF Answer
  <2>7. CASE \E h \in handlers[s] : Resume(s, h)
    BY <2>7, ResumeScreen
  <2>8. CASE Close(s) \/ FinishClose(s)
    BY <2>8, CloseScreen
  <2> QED
    BY <1>2, <2>1, <2>2, <2>3, <2>4, <2>5, <2>6, <2>7, <2>8 DEF Step
<1> QED
  BY <1>1, <1>2 DEF Next, Step

\* ScreenInv holds always.
LEMMA AlwaysScreenInv == Spec => []ScreenInv
<1> QED
  BY InitScreen, StepScreen, PTL DEF Spec

----------------------------------------------------------------------------
(* The theorems.                                                           *)

\* What initialize awaits, the state, the socket and the suspended handlers of
\* every screen agree.
THEOREM AwaitsMatch == Spec => []AwaitsMatchState
<1>1. ScreenInv => AwaitsMatchState
  BY DEF ScreenInv, Matches, AwaitsMatchState
<1> QED
  BY <1>1, AlwaysScreenInv, PTL

\* emit changes nothing of a closed screen, and nothing of another one.
LEMMA EmitFrozen ==
  ASSUME Shape, NEW s \in Screen, NEW newState, NEW messages, Emit(s, newState, messages),
         NEW z \in Screen, Closed(z)
  PROVE  state'[z] = state[z] /\ shown'[z] = shown[z]
  BY DEF Shape, Emit

\* Each step leaves the state and the list of closed screens alone.
LEMMA StepFrozen ==
  ASSUME ScreenInv, [Next]_clientVars, NEW z \in Screen, Closed(z)
  PROVE  state'[z] = state[z] /\ shown'[z] = shown[z]
<1> USE DEF ScreenInv
<1>1. CASE UNCHANGED <<state, shown>>
  BY <1>1
<1>2. ASSUME NEW s \in Screen, NEW newState, NEW messages, Emit(s, newState, messages)
      PROVE  state'[z] = state[z] /\ shown'[z] = shown[z]
  BY <1>2, EmitFrozen
<1>3. ASSUME NEW s \in Screen, NEW id, NEW content, SendTextMessage(s, id, content)
      PROVE  state'[z] = state[z] /\ shown'[z] = shown[z]
  <2>1. z # s
    BY <1>3 DEF SendTextMessage, Closed
  <2> QED
    BY <1>3, <2>1 DEF SendTextMessage, Shape
<1>4. ASSUME NEW s \in Screen, Step(s)
      PROVE  \/ UNCHANGED <<state, shown>>
             \/ \E newState, messages : Emit(s, newState, messages)
             \/ \E id, content : SendTextMessage(s, id, content)
  <2>1. CASE Initialize(s)
    BY <2>1 DEF Initialize
  <2>2. CASE HistoryAnswered(s) \/ SocketAnswered(s)
    BY <2>2 DEF HistoryAnswered, SocketAnswered, HistoryArrives, SocketOpens, InitializeFails
  <2>3. CASE \E id \in MessageId, content \in Content : SendTextMessage(s, id, content)
    BY <2>3
  <2>4. CASE Arrival(s) \/ Answer(s)
    BY <2>4 DEF Arrival, Answer, OnDelete, OnNewOrEdit, MessageAnswered
  <2>5. CASE \E h \in handlers[s] : Resume(s, h)
    BY <2>5 DEF Resume
  <2>6. CASE Close(s) \/ FinishClose(s)
    BY <2>6 DEF Close, FinishClose
  <2> QED
    BY <1>4, <2>1, <2>2, <2>3, <2>4, <2>5, <2>6 DEF Step
<1>5. CASE UNCHANGED clientVars
  BY <1>1, <1>5 DEF clientVars
<1>6. CASE Next
  <2>1. PICK s \in Screen : Step(s)
    BY <1>6 DEF Next, Step
  <2> QED
    BY <1>1, <1>2, <1>3, <1>4, <2>1
<1> QED
  BY <1>5, <1>6

\* A screen that is closed shows for ever what it showed, whatever answers and
\* events still come.
THEOREM ClosedIsFrozen == Spec => FrozenWhenClosed
<1>1. ScreenInv /\ [Next]_clientVars =>
        [\A s \in Screen : Closed(s) => /\ state'[s] = state[s]
                                        /\ shown'[s] = shown[s]]_clientVars
  BY StepFrozen
<1> QED
  BY <1>1, AlwaysScreenInv, PTL DEF Spec, FrozenWhenClosed

----------------------------------------------------------------------------
(* Type correctness: lists of messages stay lists of messages.             *)

\* emit changes the state and the list of one screen.
LEMMA EmitType ==
  ASSUME TypeOK, NEW s \in Screen, NEW newState \in {"initializing", "initialized", "fatal"},
         NEW list \in Seq(Bubble), Emit(s, newState, list)
  PROVE  /\ state' \in [Screen -> {"uninitialized", "initializing", "initialized", "fatal"}]
         /\ shown' \in [Screen -> Seq(Bubble)]
  BY DEF TypeOK, Emit

\* A message is put in the place of another.
LEMMA PutType ==
  ASSUME NEW list \in Seq(Bubble), NEW i, NEW m \in Bubble
  PROVE  [list EXCEPT ![i] = m] \in Seq(Bubble)
PROOF
  <1>1. list \in [1 .. Len(list) -> Bubble] /\ Len(list) \in Nat
    OBVIOUS
  <1>2. [list EXCEPT ![i] = m] \in [1 .. Len(list) -> Bubble]
    BY <1>1
  <1> QED
    BY <1>1, <1>2

\* What a handler puts on the list is a message at the top, or in the place of
\* one that is there.
LEMMA UpdatedType ==
  ASSUME NEW h \in Handler, h.reply # NoMessage,
         h.event_name = "edit_message" => h.id \in Ids(h.base)
  PROVE  Updated(h) \in Seq(Bubble)
PROOF
  <1>1. h.base \in Seq(Bubble) /\ h.reply \in Bubble
    BY DEF Handler
  <1>2. CASE h.event_name = "new_message"
    <2>1. <<h.reply>> \in Seq(Bubble)
      BY <1>1
    <2> QED
      BY <1>1, <1>2, <2>1 DEF Updated
  <1>3. CASE h.event_name # "new_message"
    <2>1. \A list \in Seq(Bubble) : \A i : \A m \in Bubble : [list EXCEPT ![i] = m] \in Seq(Bubble)
      BY PutType
    <2> QED
      BY <1>1, <1>3, <2>1 DEF Updated
  <1> QED
    BY <1>2, <1>3

\* Messages of the list in its order, and all but those of the identifier.
IsPart(rest, list, id) ==
  /\ rest \in Seq(Bubble)
  /\ \E place \in [DOMAIN rest -> DOMAIN list] :
       /\ \A n \in DOMAIN rest : rest[n] = list[place[n]]
       /\ \A m, n \in DOMAIN rest : m < n => place[m] < place[n]
  /\ \A i \in DOMAIN list : list[i].id # id => \E n \in DOMAIN rest : rest[n] = list[i]

\* What Without leaves.
LEMMA WithoutFacts ==
  ASSUME NEW list \in Seq(Bubble), NEW id
  PROVE  IsPart(Without(list, id), list, id)
PROOF
  <1> DEFINE S == {i \in DOMAIN list : list[i].id # id}
             rest == Without(list, id)
             place == Ascending(S)
  <1>1. S \in SUBSET DOMAIN list
    OBVIOUS
  <1>2. rest = SelectAt(list, S)
    BY DEF Without
  <1> HIDE DEF S, rest
  <1>3. /\ rest \in Seq(Bubble) /\ DOMAIN rest = 1 .. Cardinality(S)
        /\ place \in [1 .. Cardinality(S) -> S]
        /\ \A m, n \in 1 .. Cardinality(S) : m < n => place[m] < place[n]
        /\ \A n \in 1 .. Cardinality(S) : rest[n] = list[place[n]]
        /\ \A i \in S : \E n \in 1 .. Cardinality(S) : rest[n] = list[i]
    BY <1>1, <1>2, SelectAtFacts DEF Bijection, Injection
  <1> HIDE DEF place
  <1>4. place \in [DOMAIN rest -> DOMAIN list]
    BY <1>1, <1>3
  <1>5. IsPart(rest, list, id)
    BY <1>3, <1>4 DEF S, IsPart
  <1> QED
    BY <1>5 DEF rest

\* The screens before anything is opened.
LEMMA InitType == Init => TypeOK
PROOF
  <1>1. << >> \in Seq(Bubble) /\ << >> \in Seq(Payload)
    OBVIOUS
  <1> QED
    BY <1>1 DEF Init, TypeOK

\* initialize, its answers and its failures.
LEMMA InitializeType ==
  ASSUME TypeOK, NEW s \in Screen,
         \/ Initialize(s) \/ InitializeFails(s)
         \/ \E list \in Seq(Bubble) : HistoryArrives(s, list)
         \/ \E ch \in Channel : SocketOpens(s, ch)
  PROVE  TypeOK'
PROOF
  <1>1. << >> \in Seq(Bubble)
    OBVIOUS
  <1>2. CASE Initialize(s)
    BY <1>1, <1>2, EmitType DEF Initialize, TypeOK
  <1>3. CASE InitializeFails(s)
    BY <1>1, <1>3, EmitType DEF InitializeFails, TypeOK
  <1>4. ASSUME NEW list \in Seq(Bubble), HistoryArrives(s, list) PROVE TypeOK'
    BY <1>4, EmitType DEF HistoryArrives, TypeOK
  <1>5. ASSUME NEW ch \in Channel, SocketOpens(s, ch) PROVE TypeOK'
    BY <1>5 DEF SocketOpens, TypeOK
  <1> QED
    BY <1>2, <1>3, <1>4, <1>5

\* sendTextMessage.
LEMMA SendType ==
  ASSUME TypeOK, NEW s \in Screen, NEW id \in MessageId, NEW content \in Content,
         SendTextMessage(s, id, content)
  PROVE  TypeOK'
PROOF
  <1> DEFINE bubble == [id |-> id, author |-> author[s], content |-> content]
             payload == [event_name |-> "new_message", id |-> id, content |-> content]
  <1>1. bubble \in Bubble /\ payload \in Payload
    BY ControllerAssumption DEF Bubble, Payload
  <1>2. <<bubble>> \o shown[s] \in Seq(Bubble)
    <2>1. shown[s] \in Seq(Bubble) /\ <<bubble>> \in Seq(Bubble)
      BY <1>1 DEF TypeOK
    <2> HIDE DEF bubble
    <2> QED
      BY <2>1
  <1>3. shown' \in [Screen -> Seq(Bubble)]
    BY <1>2 DEF SendTextMessage, TypeOK
  <1>4. written' \in [Channel -> Seq(Payload)]
    <2>1. CASE webSocket[s] = NoChannel
      BY <2>1 DEF SendTextMessage, TypeOK
    <2>2. CASE webSocket[s] # NoChannel
      <3>1. webSocket[s] \in Channel /\ written[webSocket[s]] \in Seq(Payload)
        BY <2>2 DEF TypeOK
      <3>2. Append(written[webSocket[s]], payload) \in Seq(Payload)
        BY <1>1, <3>1, AppendFacts
      <3> QED
        BY <2>2, <3>1, <3>2 DEF SendTextMessage, TypeOK
    <2> QED
      BY <2>1, <2>2
  <1> QED
    BY <1>3, <1>4 DEF SendTextMessage, TypeOK

\* A deletion that arrives.
LEMMA DeleteType ==
  ASSUME TypeOK, NEW s \in Screen, NEW id, OnDelete(s, id)
  PROVE  TypeOK'
PROOF
  <1>1. Without(shown[s], id) \in Seq(Bubble)
    BY WithoutFacts DEF TypeOK, IsPart
  <1> QED
    BY <1>1, EmitType DEF OnDelete, TypeOK

\* A new or edited message that arrives.
LEMMA ArrivalType ==
  ASSUME TypeOK, NEW s \in Screen, NEW id \in MessageId, NEW n \in 1 .. MaxArrivals,
         NEW event_name \in {"new_message", "edit_message"}, OnNewOrEdit(s, n, event_name, id)
  PROVE  TypeOK'
PROOF
  <1> DEFINE h == [n |-> n, event_name |-> event_name, id |-> id, base |-> shown[s],
                   answered |-> FALSE, reply |-> NoMessage]
  <1>1. h \in Handler
    BY DEF Handler, TypeOK
  <1> HIDE DEF h
  <1>2. handlers' = [handlers EXCEPT ![s] = @ \cup {h}]
    BY DEF OnNewOrEdit, h
  <1> QED
    BY <1>1, <1>2 DEF OnNewOrEdit, TypeOK

\* A handler gets its answer, and goes on.
LEMMA HandlerType ==
  ASSUME TypeOK, NEW s \in Screen, NEW h, NEW reply \in Bubble \cup {NoMessage},
         MessageAnswered(s, h, reply) \/ Resume(s, h)
  PROVE  TypeOK'
PROOF
  <1>1. h \in Handler
    BY DEF TypeOK, MessageAnswered, Resume
  <1>2. CASE MessageAnswered(s, h, reply)
    <2> DEFINE answer == [h EXCEPT !.answered = TRUE, !.reply = reply]
    <2>1. answer \in Handler
      BY <1>1 DEF Handler
    <2> HIDE DEF answer
    <2>2. handlers' = [handlers EXCEPT ![s] = (@ \ {h}) \cup {answer}]
      BY <1>2 DEF MessageAnswered, answer
    <2> QED
      BY <1>2, <2>1, <2>2 DEF MessageAnswered, TypeOK
  <1>3. CASE Resume(s, h)
    <2>1. /\ state' \in [Screen -> {"uninitialized", "initializing", "initialized", "fatal"}]
          /\ shown' \in [Screen -> Seq(Bubble)]
      <3>1. CASE h.reply = NoMessage \/ (h.event_name = "edit_message" /\ h.id \notin Ids(h.base))
        BY <1>3, <3>1 DEF Resume, TypeOK
      <3>2. CASE ~(h.reply = NoMessage \/ (h.event_name = "edit_message" /\ h.id \notin Ids(h.base)))
        <4>1. Updated(h) \in Seq(Bubble) /\ Emit(s, "initialized", Updated(h))
          BY <1>1, <1>3, <3>2, UpdatedType DEF Resume
        <4> QED
          BY <4>1, EmitType
      <3> QED
        BY <3>1, <3>2
    <2> QED
      BY <1>3, <2>1 DEF Resume, TypeOK
  <1> QED
    BY <1>2, <1>3

\* The screen is left.
LEMMA CloseType ==
  ASSUME TypeOK, NEW s \in Screen, Close(s) \/ FinishClose(s)
  PROVE  TypeOK'
  BY DEF Close, FinishClose, TypeOK

\* The variables of all screens keep their types, whatever is answered and in
\* whatever order; no list has anything but messages on it (every emit).
THEOREM ScreenTypeCorrect == Spec => []TypeOK
PROOF
  <1>1. ASSUME TypeOK, [Next]_clientVars PROVE TypeOK'
    <2>1. CASE UNCHANGED clientVars
      BY <1>1, <2>1 DEF clientVars, TypeOK
    <2>2. ASSUME NEW s \in Screen, Step(s) PROVE TypeOK'
      <3>1. CASE Initialize(s)
        BY <1>1, <3>1, InitializeType
      <3>2. CASE HistoryAnswered(s)
        <4>1. Histories \subseteq Seq(Bubble)
          BY ControllerAssumption DEF Bubble
        <4> QED
          BY <1>1, <3>2, <4>1, InitializeType DEF HistoryAnswered
      <3>3. CASE SocketAnswered(s)
        <4>1. CASE InitializeFails(s)
          BY <1>1, <4>1, InitializeType
        <4>2. CASE \E ch \in Channel : SocketOpens(s, ch)
          BY <1>1, <4>2, InitializeType
        <4> QED
          BY <3>3, <4>1, <4>2 DEF SocketAnswered
      <3>4. CASE \E id \in MessageId, content \in Content : SendTextMessage(s, id, content)
        BY <1>1, <3>4, SendType
      <3>5. CASE Arrival(s)
        BY <1>1, <3>5, DeleteType, ArrivalType DEF Arrival
      <3>6. CASE Answer(s)
        <4>1. PICK h \in handlers[s] :
                \/ MessageAnswered(s, h, NoMessage)
                \/ \E reply \in Bubble : MessageAnswered(s, h, reply)
          BY <3>6 DEF Answer
        <4> QED
          BY <1>1, <4>1, HandlerType
      <3>7. CASE \E h \in handlers[s] : Resume(s, h)
        BY <1>1, <3>7, HandlerType
      <3>8. CASE Close(s) \/ FinishClose(s)
        BY <1>1, <3>8, CloseType
      <3> QED
        BY <2>2, <3>1, <3>2, <3>3, <3>4, <3>5, <3>6, <3>7, <3>8 DEF Step
    <2> QED
      BY <1>1, <2>1, <2>2 DEF Next, Step
  <1> QED
    BY <1>1, InitType, PTL DEF Spec
=============================================================================
