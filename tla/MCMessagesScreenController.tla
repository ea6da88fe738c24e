--------------------- MODULE MCMessagesScreenController ---------------------
(* A small instance of MessagesScreenController for TLC.                   *)
EXTENDS MessagesScreenController, TLC

CONSTANTS u1, u2

\* Every screen is on the device of the first user.
MCauthor == [s \in Screen |-> u1]

\* The chat is empty, or holds one message of the other user.
MCHistories ==
  {<< >>} \cup {<<[id |-> id, author |-> u2, content |-> content]>> :
                  id \in MessageId, content \in Content}

Symmetry == Permutations(MessageId) \cup Permutations(Channel)
=============================================================================
