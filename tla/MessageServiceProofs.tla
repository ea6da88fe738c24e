------------------------ MODULE MessageServiceProofs ------------------------
(* What MessageService guarantees for every set of users, chats, messages  *)
(* and texts.  The copies that an edit or a change form holds are as old   *)
(* as one likes; the invariant says what every copy has in common.         *)
EXTENDS MessageService, TLAPS

\* What a row, or a copy of one, owes to the event that made message id.
MadeBy(id, row) == <<row.chat, row.author>> = maker[id]

\* The event in hand is an event, and makes only what it may make.
EventInHand ==
  step # "idle" =>
    /\ event \in Event
    /\ IsNew(event.payload) => maker[event.payload.id] = <<event.chat, event.user>>

\* The copy that save writes back is of the message that the edit names.
CopyInHand ==
  step \in {"update", "insert"} =>
    /\ IsEdit(event.payload)
    /\ instance \in Message
    /\ MadeBy(event.payload.id, instance)

DeletionInHand == step = "remove" => IsDelete(event.payload)

FormInHand == form # NoForm => form \in MessageId \X Message /\ MadeBy(form[1], form[2])

ServiceInv ==
  /\ TypeOK
  /\ EventInHand /\ CopyInHand /\ DeletionInHand /\ FormInHand
  /\ MakerKept /\ ChatOutlivesMessages

----------------------------------------------------------------------------
(* The payload of a new message, an edit or a deletion names a message.    *)

\* The event in hand names a message.
LEMMA NamedMessage ==
  ASSUME NEW e \in Event, IsNew(e.payload) \/ IsEdit(e.payload) \/ IsDelete(e.payload)
  PROVE  /\ e.payload.id \in MessageId
         /\ e.chat \in Chat /\ e.user \in User
         /\ IsNew(e.payload) \/ IsEdit(e.payload) => e.payload.content \in Content
PROOF
  BY DEF Event, Payload, IsNew, IsEdit, IsDelete

\* Nothing is in hand at first and no message is stored.
LEMMA ServiceInit == Init => ServiceInv
PROOF
  BY DEF Init, ServiceInv, TypeOK, EventInHand, CopyInHand, DeletionInHand,
         FormInHand, MakerKept, ChatOutlivesMessages, Stored

----------------------------------------------------------------------------
(* The handler's statements.                                               *)

\* An event is taken up.
LEMMA BeginStep ==
  ASSUME ServiceInv, NEW e \in Event, Begin(e)
  PROVE  ServiceInv'
PROOF
  <1> USE DEF tables, handler
  <1>1. TypeOK'
    <2>1. begun' \subseteq MessageId
      BY NamedMessage DEF Begin, ServiceInv, TypeOK
    <2> QED BY <2>1 DEF Begin, ServiceInv, TypeOK
  <1>2. EventInHand' /\ CopyInHand' /\ DeletionInHand'
    BY DEF Begin, EventInHand, CopyInHand, DeletionInHand
  <1>3. FormInHand' /\ MakerKept' /\ ChatOutlivesMessages'
    BY DEF Begin, ServiceInv, FormInHand, MadeBy, MakerKept, ChatOutlivesMessages, Stored
  <1> QED BY <1>1, <1>2, <1>3 DEF ServiceInv

\* A statement that ends the handler and leaves the table alone.
LEMMA FinishStep ==
  ASSUME ServiceInv, Finish, UNCHANGED <<tables, form, begun>>
  PROVE  ServiceInv'
PROOF
  <1> USE DEF tables
  <1>1. TypeOK'
    BY DEF Finish, ServiceInv, TypeOK
  <1>2. EventInHand' /\ CopyInHand' /\ DeletionInHand'
    BY DEF Finish, EventInHand, CopyInHand, DeletionInHand
  <1>3. FormInHand' /\ MakerKept' /\ ChatOutlivesMessages'
    BY DEF ServiceInv, FormInHand, MadeBy, MakerKept, ChatOutlivesMessages, Stored
  <1> QED BY <1>1, <1>2, <1>3 DEF ServiceInv

\* A statement that ends the handler with a row that its message's maker owns.
LEMMA WriteStep ==
  ASSUME ServiceInv, Finish, UNCHANGED <<chats, participants, form, begun>>,
         NEW id \in MessageId, NEW row \in Message, MadeBy(id, row), row.chat \in chats,
         messages' = [messages EXCEPT ![id] = row]
  PROVE  ServiceInv'
PROOF
  <1>1. TypeOK'
    BY DEF Finish, ServiceInv, TypeOK
  <1>2. EventInHand' /\ CopyInHand' /\ DeletionInHand'
    BY DEF Finish, EventInHand, CopyInHand, DeletionInHand
  <1>3. FormInHand'
    BY DEF ServiceInv, FormInHand, MadeBy
  <1>4. MakerKept' /\ ChatOutlivesMessages'
    BY DEF ServiceInv, TypeOK, MadeBy, MakerKept, ChatOutlivesMessages, Stored
  <1> QED BY <1>1, <1>2, <1>3, <1>4 DEF ServiceInv

\* The chat and the participant are looked up.
LEMMA FindParticipantStep == ServiceInv /\ FindParticipant => ServiceInv'
PROOF
  <1> SUFFICES ASSUME ServiceInv, FindParticipant PROVE ServiceInv'
    OBVIOUS
  <1> USE DEF tables
  <1>1. CASE <<event.chat, event.user>> \in participants
    <2>1. TypeOK'
      BY <1>1 DEF FindParticipant, ServiceInv, TypeOK
    <2>2. EventInHand' /\ CopyInHand' /\ DeletionInHand'
      BY <1>1 DEF FindParticipant, ServiceInv, EventInHand, CopyInHand, DeletionInHand
    <2>3. FormInHand' /\ MakerKept' /\ ChatOutlivesMessages'
      BY <1>1 DEF FindParticipant, ServiceInv, FormInHand, MadeBy, MakerKept,
                  ChatOutlivesMessages, Stored
    <2> QED BY <2>1, <2>2, <2>3 DEF ServiceInv
  <1>2. CASE <<event.chat, event.user>> \notin participants
    BY <1>2, FinishStep DEF FindParticipant
  <1> QED BY <1>1, <1>2

\* The new row has the maker of its message.
LEMMA CreateStep == ServiceInv /\ Create => ServiceInv'
PROOF
  <1> SUFFICES ASSUME ServiceInv, Create PROVE ServiceInv'
    OBVIOUS
  <1> DEFINE row == [chat |-> event.chat, author |-> event.user,
                     content |-> event.payload.content]
  <1>1. event \in Event /\ maker[event.payload.id] = <<event.chat, event.user>>
    BY DEF Create, ServiceInv, EventInHand
  <1>2. event.payload.id \in MessageId /\ row \in Message /\ MadeBy(event.payload.id, row)
    BY <1>1, NamedMessage DEF Create, Message, MadeBy
  <1>3. CASE Stored(event.payload.id) \/ event.chat \notin chats
    BY <1>3, FinishStep DEF Create, tables
  <1>4. CASE ~Stored(event.payload.id) /\ event.chat \in chats
    BY <1>2, <1>4, WriteStep DEF Create
  <1> QED BY <1>3, <1>4

\* The row is copied.
LEMMA GetForEditStep == ServiceInv /\ GetForEdit => ServiceInv'
PROOF
  <1> SUFFICES ASSUME ServiceInv, GetForEdit PROVE ServiceInv'
    OBVIOUS
  <1> USE DEF tables
  <1>1. CASE ~Stored(event.payload.id)
    BY <1>1, FinishStep DEF GetForEdit
  <1>2. CASE Stored(event.payload.id)
    <2>1. /\ event \in Event /\ event.payload.id \in MessageId
          /\ event.payload.content \in Content
      BY NamedMessage DEF GetForEdit, ServiceInv, EventInHand
    <2>2. messages[event.payload.id] \in Message /\ MadeBy(event.payload.id, messages[event.payload.id])
      BY <1>2, <2>1 DEF ServiceInv, TypeOK, Stored, MakerKept, MadeBy
    <2>3. instance' \in Message /\ MadeBy(event.payload.id, instance')
      BY <1>2, <2>1, <2>2 DEF GetForEdit, Message, MadeBy
    <2>4. TypeOK'
      BY <1>2, <2>3 DEF GetForEdit, ServiceInv, TypeOK
    <2>5. EventInHand' /\ CopyInHand' /\ DeletionInHand'
      BY <1>2, <2>3 DEF GetForEdit, ServiceInv, EventInHand, CopyInHand, DeletionInHand, MadeBy
    <2>6. FormInHand' /\ MakerKept' /\ ChatOutlivesMessages'
      BY DEF GetForEdit, ServiceInv, FormInHand, MadeBy, MakerKept, ChatOutlivesMessages, Stored
    <2> QED BY <2>4, <2>5, <2>6 DEF ServiceInv
  <1> QED BY <1>1, <1>2

\* The copy is written back over the row.
LEMMA UpdateStep == ServiceInv /\ Update => ServiceInv'
PROOF
  <1> SUFFICES ASSUME ServiceInv, Update PROVE ServiceInv'
    OBVIOUS
  <1> USE DEF tables
  <1>1. /\ event \in Event /\ event.payload.id \in MessageId
        /\ instance \in Message /\ MadeBy(event.payload.id, instance)
    BY NamedMessage DEF Update, ServiceInv, EventInHand, CopyInHand
  <1>2. CASE Stored(event.payload.id)
    <2>1. instance.chat = messages[event.payload.id].chat
      BY <1>1, <1>2 DEF ServiceInv, MakerKept, MadeBy
    <2>2. instance.chat \in chats
      BY <1>1, <1>2, <2>1 DEF ServiceInv, ChatOutlivesMessages
    <2> QED BY <1>1, <1>2, <2>2, WriteStep DEF Update
  <1>3. CASE ~Stored(event.payload.id)
    <2>1. TypeOK'
      BY <1>3 DEF Update, ServiceInv, TypeOK
    <2>2. EventInHand' /\ CopyInHand' /\ DeletionInHand'
      BY <1>3 DEF Update, ServiceInv, EventInHand, CopyInHand, DeletionInHand, MadeBy
    <2>3. FormInHand' /\ MakerKept' /\ ChatOutlivesMessages'
      BY <1>3 DEF Update, ServiceInv, FormInHand, MadeBy, MakerKept, ChatOutlivesMessages, Stored
    <2> QED BY <2>1, <2>2, <2>3 DEF ServiceInv
  <1> QED BY <1>2, <1>3

\* The copy is written back where the row was removed.
LEMMA InsertStep == ServiceInv /\ Insert => ServiceInv'
PROOF
  <1> SUFFICES ASSUME ServiceInv, Insert PROVE ServiceInv'
    OBVIOUS
  <1>1. /\ event \in Event /\ event.payload.id \in MessageId
        /\ instance \in Message /\ MadeBy(event.payload.id, instance)
    BY NamedMessage DEF Insert, ServiceInv, EventInHand, CopyInHand
  <1>2. CASE Stored(event.payload.id) \/ instance.chat \notin chats
    BY <1>2, FinishStep DEF Insert, tables
  <1>3. CASE ~Stored(event.payload.id) /\ instance.chat \in chats
    BY <1>1, <1>3, WriteStep DEF Insert
  <1> QED BY <1>2, <1>3

\* The row is found.
LEMMA GetForDeleteStep == ServiceInv /\ GetForDelete => ServiceInv'
PROOF
  <1> SUFFICES ASSUME ServiceInv, GetForDelete PROVE ServiceInv'
    OBVIOUS
  <1> USE DEF tables
  <1>1. CASE ~Stored(event.payload.id)
    BY <1>1, FinishStep DEF GetForDelete
  <1>2. CASE Stored(event.payload.id)
    <2>1. event.payload.id \in MessageId
      BY NamedMessage DEF GetForDelete, ServiceInv, EventInHand
    <2>2. TypeOK'
      BY <1>2, <2>1 DEF GetForDelete, ServiceInv, TypeOK
    <2>3. EventInHand' /\ CopyInHand' /\ DeletionInHand'
      BY <1>2 DEF GetForDelete, ServiceInv, EventInHand, CopyInHand, DeletionInHand
    <2>4. FormInHand' /\ MakerKept' /\ ChatOutlivesMessages'
      BY DEF GetForDelete, ServiceInv, FormInHand, MadeBy, MakerKept, ChatOutlivesMessages, Stored
    <2> QED BY <2>2, <2>3, <2>4 DEF ServiceInv
  <1> QED BY <1>1, <1>2

\* The row goes.
LEMMA RemoveStep == ServiceInv /\ Remove => ServiceInv'
PROOF
  <1> SUFFICES ASSUME ServiceInv, Remove PROVE ServiceInv'
    OBVIOUS
  <1>1. TypeOK'
    BY DEF Remove, Finish, ServiceInv, TypeOK
  <1>2. EventInHand' /\ CopyInHand' /\ DeletionInHand' /\ FormInHand'
    BY DEF Remove, Finish, ServiceInv, EventInHand, CopyInHand, DeletionInHand, FormInHand, MadeBy
  <1>3. MakerKept' /\ ChatOutlivesMessages'
    BY DEF Remove, ServiceInv, TypeOK, MakerKept, ChatOutlivesMessages, Stored
  <1> QED BY <1>1, <1>2, <1>3 DEF ServiceInv

----------------------------------------------------------------------------
(* The administration site.                                                *)

\* Rows, chats and the copy in the change form.
LEMMA AdministrationStep == ServiceInv /\ Administration => ServiceInv'
PROOF
  <1> SUFFICES ASSUME ServiceInv, Administration PROVE ServiceInv'
    OBVIOUS
  <1> USE DEF handler, tables
  <1>1. ASSUME UNCHANGED handler
        PROVE  EventInHand' /\ CopyInHand' /\ DeletionInHand'
    BY <1>1 DEF ServiceInv, EventInHand, CopyInHand, DeletionInHand, MadeBy
  <1>2. ASSUME NEW id \in MessageId, AdminDeleteMessage(id) PROVE ServiceInv'
    <2>1. TypeOK' /\ FormInHand'
      BY <1>2 DEF AdminDeleteMessage, ServiceInv, TypeOK, FormInHand, MadeBy
    <2>2. MakerKept' /\ ChatOutlivesMessages'
      BY <1>2 DEF AdminDeleteMessage, ServiceInv, TypeOK, MakerKept, ChatOutlivesMessages, Stored
    <2> QED BY <1>1, <1>2, <2>1, <2>2 DEF ServiceInv, AdminDeleteMessage
  <1>3. ASSUME NEW id \in MessageId, AdminOpenForm(id) PROVE ServiceInv'
    <2>1. messages[id] \in Message /\ MadeBy(id, messages[id])
      BY <1>3 DEF AdminOpenForm, ServiceInv, TypeOK, Stored, MakerKept, MadeBy
    <2>2. TypeOK' /\ FormInHand'
      BY <1>3, <2>1 DEF AdminOpenForm, ServiceInv, TypeOK, FormInHand, MadeBy
    <2>3. MakerKept' /\ ChatOutlivesMessages'
      BY <1>3 DEF AdminOpenForm, ServiceInv, MakerKept, ChatOutlivesMessages, Stored
    <2> QED BY <1>1, <1>3, <2>2, <2>3 DEF ServiceInv, AdminOpenForm
  <1>4. ASSUME NEW c \in Chat, AdminDeleteChat(c) PROVE ServiceInv'
    <2>1. TypeOK' /\ FormInHand'
      BY <1>4 DEF AdminDeleteChat, ServiceInv, TypeOK, FormInHand, MadeBy
    <2>2. MakerKept' /\ ChatOutlivesMessages'
      BY <1>4 DEF AdminDeleteChat, ServiceInv, TypeOK, MakerKept, ChatOutlivesMessages, Stored
    <2> QED BY <1>1, <1>4, <2>1, <2>2 DEF ServiceInv, AdminDeleteChat
  <1>5. CASE AdminChangeParticipants
    <2>1. TypeOK' /\ FormInHand'
      BY <1>5 DEF AdminChangeParticipants, ServiceInv, TypeOK, FormInHand, MadeBy
    <2>2. MakerKept' /\ ChatOutlivesMessages'
      BY <1>5 DEF AdminChangeParticipants, ServiceInv, MakerKept, ChatOutlivesMessages, Stored
    <2> QED BY <1>1, <1>5, <2>1, <2>2 DEF ServiceInv, AdminChangeParticipants
  <1>6. ASSUME NEW content \in Content, AdminSubmitForm(content) PROVE ServiceInv'
    <2> DEFINE row == [form[2] EXCEPT !.content = content]
    <2>1. /\ form[1] \in MessageId /\ row \in Message /\ MadeBy(form[1], row)
          /\ messages' = IF Stored(form[1]) THEN [messages EXCEPT ![form[1]] = row] ELSE messages
      BY <1>6 DEF AdminSubmitForm, ServiceInv, FormInHand, MadeBy, Message
    <2>2. Stored(form[1]) => row.chat \in chats
      BY <2>1 DEF ServiceInv, MakerKept, ChatOutlivesMessages, MadeBy
    <2> HIDE DEF row
    <2>3. TypeOK' /\ FormInHand'
      BY <1>6, <2>1 DEF AdminSubmitForm, ServiceInv, TypeOK, FormInHand
    <2>4. MakerKept' /\ ChatOutlivesMessages'
      BY <1>6, <2>1, <2>2
         DEF AdminSubmitForm, ServiceInv, TypeOK, MakerKept, ChatOutlivesMessages, Stored, MadeBy
    <2> QED BY <1>1, <1>6, <2>3, <2>4 DEF ServiceInv, AdminSubmitForm
  <1> QED BY <1>2, <1>3, <1>4, <1>5, <1>6 DEF Administration

\* One case for every statement.
LEMMA ServiceStep == ServiceInv /\ [Next]_vars => ServiceInv'
PROOF
  <1> SUFFICES ASSUME ServiceInv, [Next]_vars PROVE ServiceInv'
    OBVIOUS
  <1>1. CASE Purge
    BY <1>1, FinishStep DEF Purge
  <1>2. CASE UNCHANGED vars
    BY <1>2 DEF vars, tables, handler, ServiceInv, TypeOK, EventInHand, CopyInHand,
                DeletionInHand, FormInHand, MadeBy, MakerKept, ChatOutlivesMessages, Stored
  <1> QED
    BY <1>1, <1>2, BeginStep, FindParticipantStep, CreateStep, GetForEditStep, UpdateStep,
       InsertStep, GetForDeleteStep, RemoveStep, AdministrationStep
    DEF Next, ProcessMessageEvent

\* The inductive invariant holds in every state.
LEMMA ServiceInvariant == Spec => []ServiceInv
PROOF
  <1> QED BY ServiceInit, ServiceStep, PTL DEF Spec

----------------------------------------------------------------------------
(* The theorems.                                                           *)

\* What the handler and the change form hold, and the tables, are well typed at
\* every statement of process_message_event and of the administration site.
THEOREM AlwaysServiceTyped == Spec => []TypeOK
PROOF
  <1>1. ServiceInv => TypeOK
    BY DEF ServiceInv
  <1> QED BY <1>1, ServiceInvariant, PTL

\* A row has the chat and the author of the event that made its message,
\* however stale the copies that save and the change form write back.
THEOREM AlwaysMakerKept == Spec => []MakerKept
PROOF
  <1>1. ServiceInv => MakerKept
    BY DEF ServiceInv
  <1> QED BY <1>1, ServiceInvariant, PTL

\* No message outlives its chat, though the chat may go between the lookup and
\* the statement that writes.
THEOREM AlwaysChatOutlivesMessages == Spec => []ChatOutlivesMessages
PROOF
  <1>1. ServiceInv => ChatOutlivesMessages
    BY DEF ServiceInv
  <1> QED BY <1>1, ServiceInvariant, PTL

\* One statement brings back no message but that of an edit which has read it.
LEMMA NotRevived ==
  ASSUME ServiceInv, [Next]_vars, NEW id \in MessageId,
         id \in begun, ~Stored(id), ~MayWrite(id)
  PROVE  messages'[id] = NoMessage
PROOF
  <1> USE DEF tables
  <1>1. step # "idle" => event \in Event /\ event # NoEvent
    BY ServiceAssumption DEF ServiceInv, EventInHand
  <1>2. messages \in [MessageId -> Message \cup {NoMessage}] /\ messages[id] = NoMessage
    BY DEF ServiceInv, TypeOK, Stored
  <1>3. CASE Create
    BY <1>1, <1>2, <1>3 DEF Create, MayWrite, Writes
  <1>4. CASE Update \/ Insert
    BY <1>1, <1>2, <1>4 DEF Update, Insert, ServiceInv, CopyInHand, MayWrite, Writes
  <1>5. CASE Remove
    BY <1>2, <1>5 DEF Remove
  <1>6. ASSUME NEW other \in MessageId, AdminDeleteMessage(other)
        PROVE  messages'[id] = NoMessage
    BY <1>2, <1>6 DEF AdminDeleteMessage
  <1>7. ASSUME NEW c \in Chat, AdminDeleteChat(c)
        PROVE  messages'[id] = NoMessage
    BY <1>2, <1>7 DEF AdminDeleteChat
  <1>8. ASSUME NEW content \in Content, AdminSubmitForm(content)
        PROVE  messages'[id] = NoMessage
    BY <1>2, <1>8 DEF AdminSubmitForm, Stored
  <1>9. CASE UNCHANGED messages
    BY <1>2, <1>9
  <1> QED
    BY <1>3, <1>4, <1>5, <1>6, <1>7, <1>8, <1>9
    DEF Next, ProcessMessageEvent, Administration, vars, Begin, FindParticipant,
        GetForEdit, GetForDelete, Purge, AdminOpenForm, AdminChangeParticipants

\* A message that was made and is gone comes back only through an edit that
\* had read it before it went.
THEOREM StaleEditsOnly == Spec => OnlyStaleEditRevives
PROOF
  <1>1. ServiceInv /\ [Next]_vars =>
          [\A id \in MessageId :
             (id \in begun /\ ~Stored(id) /\ ~MayWrite(id)) => messages'[id] = NoMessage]_vars
    BY NotRevived
  <1> QED BY <1>1, ServiceInvariant, PTL DEF Spec, OnlyStaleEditRevives
=============================================================================
