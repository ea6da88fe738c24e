--------------------------- MODULE MessageEvents ---------------------------
(***************************************************************************)
(* The data the messaging server works on: the payload of a message event  *)
(* (services/message/types/message_event_payload.py) and a row of the      *)
(* messages table (models/message.py).  Timestamps are left out.           *)
(***************************************************************************)
CONSTANTS
  User,        \* accounts, by primary key
  Chat,        \* chat identifiers
  MessageId,   \* message identifiers, chosen by the client that sends
  Content,     \* message texts
  NoMessage    \* no row has this identifier

\* A new or an edited message carries a text, a deletion only names the
\* message, and a purge names none.
Payload ==
  [event_name : {"new_message", "edit_message"}, id : MessageId, content : Content]
    \cup [event_name : {"delete_message"}, id : MessageId]
    \cup [event_name : {"purge"}]

\* A row of the messages table, without its key.
Message == [chat : Chat, author : User, content : Content]

ASSUME NoMessageAssumption == NoMessage \notin Message

IsNew(payload)    == payload.event_name = "new_message"
IsEdit(payload)   == payload.event_name = "edit_message"
IsDelete(payload) == payload.event_name = "delete_message"

\* The payload sets or replaces the text of message id.
Writes(payload, id) == (IsNew(payload) \/ IsEdit(payload)) /\ payload.id = id
=============================================================================
