--------------------------- MODULE MessageService ---------------------------
(***************************************************************************)
(* process_message_event one database statement at a time.  Consumers      *)
(* share a thread, so one event is handled at a time; the administration   *)
(* site runs on threads of its own, each request in a transaction, and     *)
(* comes between any two statements of the handler, which has none.  What  *)
(* is one step in MessagingConsumer is several here.                       *)
(***************************************************************************)
EXTENDS MessageEvents

CONSTANTS
  maker,    \* maker[id]: chat and author of the only event that makes id
  NoEvent,  \* no event is being handled
  NoForm    \* the administrator has no change form open

Event == [chat : Chat, user : User, payload : Payload]

ASSUME ServiceAssumption ==
  /\ maker \in [MessageId -> Chat \X User]
  /\ NoEvent \notin Event
  /\ NoForm \notin MessageId \X Message

VARIABLES
  chats,         \* the chats table
  participants,  \* the pairs <<chat, user>> with a Participant row
  messages,      \* the messages table
  event,         \* the event that process_message_event handles
  step,          \* the statement it executes next
  instance,      \* message: the row that get returned, with its new text
  form,          \* the row on the administrator's page, when it was loaded
  begun          \* history: messages whose new-message event was handled

tables  == <<chats, participants, messages>>
handler == <<event, step, instance>>
vars    == <<tables, handler, form, begun>>

Stored(id) == messages[id] # NoMessage

TypeOK ==
  /\ chats \subseteq Chat
  /\ participants \subseteq Chat \X User
  /\ messages \in [MessageId -> Message \cup {NoMessage}]
  /\ event \in Event \cup {NoEvent}
  /\ step \in {"idle", "participant", "act", "update", "insert", "remove"}
  /\ instance \in Message \cup {NoMessage}
  /\ form \in (MessageId \X Message) \cup {NoForm}
  /\ begun \subseteq MessageId

Init ==
  /\ chats = Chat
  /\ participants \in SUBSET (Chat \X User)
  /\ messages = [id \in MessageId |-> NoMessage]
  /\ event = NoEvent
  /\ step = "idle"
  /\ instance = NoMessage
  /\ form = NoForm
  /\ begun = {}

----------------------------------------------------------------------------
(* The handler.                                                            *)

\* It returns or raises; the next event has nothing of this one.
Finish ==
  /\ event' = NoEvent
  /\ step' = "idle"
  /\ instance' = NoMessage

\* Chat.objects.get succeeds.  When it raises, nothing has been done.  A
\* message is made by one event, and named by others only afterwards.
Begin(e) ==
  /\ step = "idle"
  /\ e.chat \in chats
  /\ IsNew(e.payload) => e.payload.id \notin begun /\ maker[e.payload.id] = <<e.chat, e.user>>
  /\ IsEdit(e.payload) \/ IsDelete(e.payload) => e.payload.id \in begun
  /\ event' = e
  /\ step' = "participant"
  /\ begun' = IF IsNew(e.payload) THEN begun \cup {e.payload.id} ELSE begun
  /\ UNCHANGED <<tables, instance, form>>

FindParticipant ==
  /\ step = "participant"
  /\ IF <<event.chat, event.user>> \in participants
       THEN step' = "act" /\ UNCHANGED <<event, instance>>
       ELSE Finish
  /\ UNCHANGED <<tables, form, begun>>

\* Defect: the database does not enforce foreign keys.
CreateAnyway ==
  /\ step = "act"
  /\ IsNew(event.payload)
  /\ messages' = [messages EXCEPT ![event.payload.id] =
       [chat |-> event.chat, author |-> event.user, content |-> event.payload.content]]
  /\ Finish
  /\ UNCHANGED <<chats, participants, form, begun>>

\* Defect: the participant, not the publisher, is stored as the author.
CreateByParticipant ==
  /\ step = "act"
  /\ IsNew(event.payload)
  /\ messages' = [messages EXCEPT ![event.payload.id] =
       [chat |-> event.chat, author |-> <<event.chat, event.user>>,
        content |-> event.payload.content]]
  /\ Finish
  /\ UNCHANGED <<chats, participants, form, begun>>

\* Message.objects.create; the database refuses a second row with the
\* identifier, and a row of a chat that is gone.
Create ==
  /\ step = "act"
  /\ IsNew(event.payload)
  /\ IF Stored(event.payload.id) \/ event.chat \notin chats
       THEN UNCHANGED messages
       ELSE messages' = [messages EXCEPT ![event.payload.id] =
              [chat |-> event.chat, author |-> event.user,
               content |-> event.payload.content]]
  /\ Finish
  /\ UNCHANGED <<chats, participants, form, begun>>

\* Defect: update_or_create in the place of get and save.
UpdateOrCreate ==
  /\ step = "act"
  /\ IsEdit(event.payload)
  /\ messages' = [messages EXCEPT ![event.payload.id] =
       IF Stored(event.payload.id)
         THEN [messages[event.payload.id] EXCEPT !.content = event.payload.content]
         ELSE [chat |-> event.chat, author |-> event.user,
               content |-> event.payload.content]]
  /\ Finish
  /\ UNCHANGED <<chats, participants, form, begun>>

\* Message.objects.get for an edit, and the assignment to content.
GetForEdit ==
  /\ step = "act"
  /\ IsEdit(event.payload)
  /\ IF Stored(event.payload.id)
       THEN /\ instance' = [messages[event.payload.id] EXCEPT
                              !.content = event.payload.content]
            /\ step' = "update"
            /\ UNCHANGED event
       ELSE Finish
  /\ UNCHANGED <<tables, form, begun>>

\* Defect: the editor becomes the author.
UpdateAsEditor ==
  /\ step = "update"
  /\ IF Stored(event.payload.id)
       THEN /\ messages' = [messages EXCEPT ![event.payload.id] =
                              [instance EXCEPT !.author = event.user]]
            /\ Finish
       ELSE step' = "insert" /\ UNCHANGED <<messages, event, instance>>
  /\ UNCHANGED <<chats, participants, form, begun>>

\* save, first half: UPDATE of every column, which may find no row.
Update ==
  /\ step = "update"
  /\ IF Stored(event.payload.id)
       THEN /\ messages' = [messages EXCEPT ![event.payload.id] = instance]
            /\ Finish
       ELSE step' = "insert" /\ UNCHANGED <<messages, event, instance>>
  /\ UNCHANGED <<chats, participants, form, begun>>

\* save, second half: INSERT of what the UPDATE did not find.
Insert ==
  /\ step = "insert"
  /\ IF Stored(event.payload.id) \/ instance.chat \notin chats
       THEN UNCHANGED messages
       ELSE messages' = [messages EXCEPT ![event.payload.id] = instance]
  /\ Finish
  /\ UNCHANGED <<chats, participants, form, begun>>

\* Message.objects.get for a deletion.
GetForDelete ==
  /\ step = "act"
  /\ IsDelete(event.payload)
  /\ IF Stored(event.payload.id)
       THEN step' = "remove" /\ instance' = messages[event.payload.id] /\ UNCHANGED event
       ELSE Finish
  /\ UNCHANGED <<tables, form, begun>>

\* delete does not mind that the row is gone.
Remove ==
  /\ step = "remove"
  /\ messages' = [messages EXCEPT ![event.payload.id] = NoMessage]
  /\ Finish
  /\ UNCHANGED <<chats, participants, form, begun>>

\* A purge has no branch.
Purge ==
  /\ step = "act"
  /\ ~IsNew(event.payload) /\ ~IsEdit(event.payload) /\ ~IsDelete(event.payload)
  /\ Finish
  /\ UNCHANGED <<tables, form, begun>>

ProcessMessageEvent ==
  \/ FindParticipant \/ Create \/ GetForEdit \/ Update \/ Insert
  \/ GetForDelete \/ Remove \/ Purge

----------------------------------------------------------------------------
(* The administration site, one request at a time.                         *)

AdminDeleteMessage(id) ==
  /\ Stored(id)
  /\ messages' = [messages EXCEPT ![id] = NoMessage]
  /\ UNCHANGED <<chats, participants, handler, form, begun>>

AdminDeleteChat(c) ==
  /\ c \in chats
  /\ chats' = chats \ {c}
  /\ participants' = {p \in participants : p[1] # c}
  /\ messages' = [id \in MessageId |->
       IF Stored(id) /\ messages[id].chat = c THEN NoMessage ELSE messages[id]]
  /\ UNCHANGED <<handler, form, begun>>

AdminChangeParticipants ==
  /\ participants' \in SUBSET (chats \X User)
  /\ UNCHANGED <<chats, messages, handler, form, begun>>

\* The page of a message is loaded into a form.
AdminOpenForm(id) ==
  /\ Stored(id)
  /\ form' = <<id, messages[id]>>
  /\ UNCHANGED <<tables, handler, begun>>

\* The form is submitted with another text: every field is written, if the
\* message is still there.
AdminSubmitForm(content) ==
  /\ form # NoForm
  /\ messages' = IF Stored(form[1])
       THEN [messages EXCEPT ![form[1]] = [form[2] EXCEPT !.content = content]]
       ELSE messages
  /\ form' = NoForm
  /\ UNCHANGED <<chats, participants, handler, begun>>

Administration ==
  \/ \E id \in MessageId : AdminDeleteMessage(id) \/ AdminOpenForm(id)
  \/ \E c \in Chat : AdminDeleteChat(c)
  \/ AdminChangeParticipants
  \/ \E content \in Content : AdminSubmitForm(content)

Next ==
  \/ \E e \in Event : Begin(e)
  \/ ProcessMessageEvent
  \/ Administration

Spec == Init /\ [][Next]_vars

----------------------------------------------------------------------------
(* Properties.                                                             *)

\* However stale the copies that edits and change forms write back, a row has
\* the chat and the author of the event that made its message (create, save
\* of every column, the form).
MakerKept ==
  \A id \in MessageId : Stored(id) => <<messages[id].chat, messages[id].author>> = maker[id]

\* No message outlives its chat, though chats go away between the lookup of
\* the chat and the statement that writes (on_delete=CASCADE, create, save).
ChatOutlivesMessages ==
  \A id \in MessageId : Stored(id) => messages[id].chat \in chats

\* The event in hand makes message id, or is an edit that has read it.
MayWrite(id) ==
  /\ event # NoEvent
  /\ Writes(event.payload, id)
  /\ IsNew(event.payload) \/ step \in {"update", "insert"}

\* A message that was made and is gone comes back only through an edit that
\* had read it before it went: save inserts what it finds missing
\* (message.save after the administrator's deletion).
OnlyStaleEditRevives ==
  [][\A id \in MessageId :
       (id \in begun /\ ~Stored(id) /\ ~MayWrite(id)) => messages'[id] = NoMessage]_vars
=============================================================================
