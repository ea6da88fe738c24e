------------------------ MODULE MCRealtimeMessenger ------------------------
(* Small instances of RealtimeMessenger for TLC: one user on the           *)
(* application, one with a program of its own, in one chat that both are   *)
(* participants of.                                                        *)
EXTENDS RealtimeMessenger, TLC

CONSTANTS u1, u2, k1

MCauthor == [s \in Screen |-> u1]
MCchat == [s \in Screen |-> k1]

\* HistoryOf decides what the history is.
MCHistories == {}

MCInit == Init /\ participants = {k1} \X User

\* Everything but administration, while no user is connected twice: the table
\* loses a row only to an event.
NextOneConnection ==
  /\ Next
  /\ UNCHANGED <<chats, participants>>
  /\ \A id \in MessageId :
       (messages[id] # NoMessage /\ messages'[id] = NoMessage) => processed' # processed
  /\ Server!OneConnectionEach'

SpecOneConnection == MCInit /\ [][NextOneConnection]_vars

\* Nothing fails: no request, no connection, no process, and nobody leaves.
NextReliable ==
  \/ \E s \in Screen :
       \/ Open(s) \/ Load(s) \/ SocketOpens(s) \/ Downlink(s)
       \/ \E ch \in Channel : Dial(s, ch)
       \/ \E id \in MessageId, content \in Content : Send(s, id, content)
       \/ \E h \in handlers[s] : Answer(s, h) \/ Resume(s, h)
  \/ \E ch \in Channel : Uplink(ch)
  \/ \E ch \in Channel : Server!OnHandleMessageEvent(ch)
                           /\ UNCHANGED <<clientVars, dialing, taken, readPos>>
  \/ ScriptStep

SpecReliable == MCInit /\ [][NextReliable]_vars

\* As before, and a message is asked for only once it is stored.
NextStoredFirst ==
  NextReliable /\ \A s \in Screen : \A h \in handlers'[s] : h.answered => h.reply # NoMessage

SpecStoredFirst == MCInit /\ [][NextStoredFirst]_vars

Symmetry ==
  Permutations(MessageId) \cup Permutations(Content) \cup Permutations(Channel)
=============================================================================
