------------------------ MODULE MCMessagingConsumer ------------------------
(* Small instances of MessagingConsumer for TLC.                           *)
EXTENDS MessagingConsumer, TLC

\* The consumers alone, on tables the administrator has set up.
Realtime ==
  \/ Sockets
  \/ \E ch \in Channel, payload \in Payload : Receive(ch, payload)
  \/ \E ch \in Channel : OnHandleMessageEvent(ch)

SpecRealtime == Init /\ [][Realtime]_vars

\* No user is connected twice to a chat, as with a client that shows one
\* chat at a time and whose old connection the server knows to be gone.  The
\* administrator removes messages.
SpecOneConnection ==
  Init /\ [][/\ Realtime \/ \E id \in MessageId : AdminDeleteMessage(id)
             /\ OneConnectionEach']_vars

\* No constant is treated specially anywhere.
Symmetry ==
  Permutations(User) \cup Permutations(Chat) \cup Permutations(MessageId)
    \cup Permutations(Content) \cup Permutations(Channel)
=============================================================================
