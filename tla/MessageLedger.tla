--------------------------- MODULE MessageLedger ---------------------------
(***************************************************************************)
(* What the server promises about the messages table, with no consumer, no *)
(* channel and no queue in sight: the table changes only when an event     *)
(* that a user published is carried out in that user's name while the user *)
(* is a member of the chat, or when an administrator removes rows.         *)
(* MessagingConsumer implements this specification.                        *)
(***************************************************************************)
EXTENDS MessageEvents

VARIABLES
  members,     \* the pairs <<chat, user>> such that user takes part in chat
  requested,   \* the events published so far
  table        \* the messages table

vars == <<members, requested, table>>

Request == [chat : Chat, user : User, payload : Payload]

Init ==
  /\ members \in SUBSET (Chat \X User)
  /\ requested = {}
  /\ table = [id \in MessageId |-> NoMessage]

Publish(r) ==
  /\ requested' = requested \cup {r}
  /\ UNCHANGED <<members, table>>

\* Carrying out r concerns the row r names and no other.
OnlyRow(id) == \A other \in MessageId \ {id} : table'[other] = table[other]

Create(r) ==
  /\ IsNew(r.payload)
  /\ table[r.payload.id] = NoMessage
  /\ table'[r.payload.id] =
       [chat |-> r.chat, author |-> r.user, content |-> r.payload.content]
  /\ OnlyRow(r.payload.id)

\* An edit keeps the author and the chat of the message.
Edit(r) ==
  /\ IsEdit(r.payload)
  /\ table[r.payload.id] # NoMessage
  /\ table'[r.payload.id] =
       [table[r.payload.id] EXCEPT !.content = r.payload.content]
  /\ OnlyRow(r.payload.id)

Delete(r) ==
  /\ IsDelete(r.payload)
  /\ table[r.payload.id] # NoMessage
  /\ table'[r.payload.id] = NoMessage
  /\ OnlyRow(r.payload.id)

\* table is a function on MessageId again: without this, TLA+ would allow it
\* to become anything that agrees on the rows above.
CarryOut(r) ==
  /\ r \in requested
  /\ <<r.chat, r.user>> \in members
  /\ Create(r) \/ Edit(r) \/ Delete(r)
  /\ table' \in [MessageId -> Message \cup {NoMessage}]
  /\ UNCHANGED <<members, requested>>

\* The administrator changes who takes part in which chat, and removes rows.
Administer ==
  /\ members' \in SUBSET (Chat \X User)
  /\ \E gone \in SUBSET MessageId :
       table' = [id \in MessageId |-> IF id \in gone THEN NoMessage ELSE table[id]]
  /\ UNCHANGED requested

Next ==
  \/ \E r \in Request : Publish(r) \/ CarryOut(r)
  \/ Administer

Spec == Init /\ [][Next]_vars
=============================================================================
