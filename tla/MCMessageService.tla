-------------------------- MODULE MCMessageService --------------------------
(* A small instance of MessageService for TLC.                             *)
EXTENDS MessageService, TLC

CONSTANTS u1, k1

\* Both messages are the first user's, in the first chat.
MCmaker == [id \in MessageId |-> <<k1, u1>>]

Symmetry == Permutations(MessageId) \cup Permutations(Content)
=============================================================================
