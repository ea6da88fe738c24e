--------------------------- MODULE ClientSession ---------------------------
(***************************************************************************)
(* The client application up to the screen of a chat: the login screen and *)
(* the endpoint behind it, the login manager, the list of chats and the    *)
(* navigation between them.  An action is the code from one await to the   *)
(* next; a request is answered by the server and received by the client in *)
(* separate steps.  Nothing in the application logs a user out, so that    *)
(* there is one login in a run of it.                                      *)
(***************************************************************************)
EXTENDS Naturals, Sequences, SequencesExt

CONSTANTS
  User,       \* accounts
  Chat,       \* chats
  NoUser,     \* nobody is logged in, or no header is set
  NoChat,     \* no chat has been chosen
  NoAnswer,   \* the server has not answered the login
  Refused,    \* it has answered with an error
  MaxLogins   \* bound: records of the access log

ASSUME SessionAssumption ==
  /\ NoUser \notin User
  /\ NoChat \notin Chat
  /\ NoAnswer # Refused
  /\ {NoAnswer, Refused} \cap User = {}
  /\ MaxLogins \in Nat

VARIABLES
  active,        \* the accounts that exist and are active
  participants,  \* the pairs <<chat, user>> with a Participant row
  accessLog,     \* AccountAccessLog: the account of every record
  isLoading,     \* of the login screen
  loginAnswer,   \* what the server answered to the login under way
  authorization, \* the Authorization header, as the user of its token
  loginState,    \* of the login manager: the user, or NoUser
  page,          \* what the application shows
  chosen,        \* the chat that was tapped
  chatsState,    \* of the chats manager
  chats,         \* the chats it shows
  requests,      \* the calls of getAllChats under way
  joined         \* history: every pair that was ever in participants

server == <<active, participants, accessLog, joined>>
login  == <<isLoading, loginAnswer, authorization, loginState>>
list   == <<chatsState, chats, requests>>
vars   == <<server, login, page, chosen, list>>

\* A call of getAllChats by initialize or refresh: the list of the moment, that
\* refresh keeps, and the server's answer.
Request ==
  [by : {"initialize", "refresh"}, kept : SUBSET Chat,
   answer : {"none", "refused", "listed"}, listed : SUBSET Chat]

TypeOK ==
  /\ active \subseteq User
  /\ participants \subseteq Chat \X User
  /\ accessLog \in Seq(User)
  /\ isLoading \in BOOLEAN
  /\ loginAnswer \in User \cup {NoAnswer, Refused}
  /\ authorization \in User \cup {NoUser}
  /\ loginState \in User \cup {NoUser}
  /\ page \in {"login", "chats", "opening", "messages", "broken"}
  /\ chosen \in Chat \cup {NoChat}
  /\ chatsState \in {"uninitialized", "initializing", "initialized", "loading", "fatal"}
  /\ chats \subseteq Chat
  /\ requests \in Seq(Request)
  /\ joined \subseteq Chat \X User

Init ==
  /\ active \in SUBSET User
  /\ participants \in SUBSET (Chat \X User)
  /\ joined = participants
  /\ accessLog = << >>
  /\ isLoading = FALSE
  /\ loginAnswer = NoAnswer
  /\ authorization = NoUser
  /\ loginState = NoUser
  /\ page = "login"
  /\ chosen = NoChat
  /\ chatsState = "uninitialized"
  /\ chats = {}
  /\ requests = << >>

----------------------------------------------------------------------------
(* Logging in.                                                             *)

PerformLogin ==
  /\ page = "login"
  /\ ~isLoading
  /\ isLoading' = TRUE
  /\ loginAnswer' = NoAnswer
  /\ UNCHANGED <<server, authorization, loginState, page, chosen, list>>

\* The endpoint: the credentials are those of user, or of nobody.  A login
\* that is granted is recorded.
Authenticate(user) ==
  /\ isLoading
  /\ loginAnswer = NoAnswer
  /\ IF user \in active
       THEN /\ Len(accessLog) < MaxLogins
            /\ accessLog' = Append(accessLog, user)
            /\ loginAnswer' = user
       ELSE loginAnswer' = Refused /\ UNCHANGED accessLog
  /\ UNCHANGED <<active, participants, joined, isLoading, authorization, loginState,
                 page, chosen, list>>

\* Defect: a refusal is taken for a user.
LoginTakesAnyAnswer ==
  /\ isLoading
  /\ loginAnswer # NoAnswer
  /\ authorization' = loginAnswer
  /\ loginState' = loginAnswer
  /\ isLoading' = FALSE
  /\ page' = "chats"
  /\ UNCHANGED <<server, loginAnswer, chosen, list>>

\* The token is set, the screen stops loading, the login manager has the user
\* and its listener goes to the chats.
LoginSucceeds ==
  /\ isLoading
  /\ loginAnswer \in User
  /\ authorization' = loginAnswer
  /\ loginState' = loginAnswer
  /\ isLoading' = FALSE
  /\ page' = "chats"
  /\ UNCHANGED <<server, loginAnswer, chosen, list>>

\* An error, from the server or on the way to it or back: the catch shows it.
LoginFails ==
  /\ isLoading
  /\ isLoading' = FALSE
  /\ UNCHANGED <<server, loginAnswer, authorization, loginState, page, chosen, list>>

----------------------------------------------------------------------------
(* The chats manager.                                                      *)

Calling(by) ==
  requests' = Append(requests, [by |-> by, kept |-> chats, answer |-> "none", listed |-> {}])

Answered(i, answer, listed) ==
  requests' = [requests EXCEPT ![i].answer = answer, ![i].listed = listed]

\* initialize: by every build of the chats screen, which stays below the
\* screen of a chat, and by the retry button of the error page.
Initialize ==
  /\ page # "login"
  /\ chatsState \in {"uninitialized", "fatal"}
  /\ chatsState' = "initializing"
  /\ Calling("initialize")
  /\ UNCHANGED <<server, login, page, chosen, chats>>

\* Defect: a second pull starts a second refresh.
RefreshAgain ==
  /\ page = "chats"
  /\ chatsState \in {"initialized", "loading"}
  /\ chatsState' = "loading"
  /\ Calling("refresh")
  /\ UNCHANGED <<server, login, page, chosen, chats>>

\* refresh, when the list is pulled down.
Refresh ==
  /\ page = "chats"
  /\ chatsState = "initialized"
  /\ chatsState' = "loading"
  /\ Calling("refresh")
  /\ UNCHANGED <<server, login, page, chosen, chats>>

\* Defect: the list is not restricted to the user.
ListAllChats(i) ==
  /\ requests[i].answer = "none"
  /\ IF authorization \in active
       THEN Answered(i, "listed", Chat)
       ELSE Answered(i, "refused", {})
  /\ UNCHANGED <<server, login, page, chosen, chatsState, chats>>

\* GET of the chats: those of the user, who must still be active.
ListChats(i) ==
  /\ requests[i].answer = "none"
  /\ IF authorization \in active
       THEN Answered(i, "listed", {c \in Chat : <<c, authorization>> \in participants})
       ELSE Answered(i, "refused", {})
  /\ UNCHANGED <<server, login, page, chosen, chatsState, chats>>

ChatsArrive(i) ==
  /\ requests[i].answer = "listed"
  /\ chatsState' = "initialized"
  /\ chats' = requests[i].listed
  /\ requests' = RemoveAt(requests, i)
  /\ UNCHANGED <<server, login, page, chosen>>

\* Defect: a refresh that fails shows the error page.
ChatsFailFatally(i) ==
  /\ chatsState' = "fatal"
  /\ chats' = {}
  /\ requests' = RemoveAt(requests, i)
  /\ UNCHANGED <<server, login, page, chosen>>

\* Defect: the error is thrown on before the state is set.
ChatsFailUnseen(i) ==
  /\ requests' = RemoveAt(requests, i)
  /\ UNCHANGED <<server, login, page, chosen, chatsState, chats>>

\* An error, from the server or on the way: refresh goes back to the list it
\* began with, initialize shows the error page.
ChatsFail(i) ==
  /\ IF requests[i].by = "refresh"
       THEN chatsState' = "initialized" /\ chats' = requests[i].kept
       ELSE chatsState' = "fatal" /\ UNCHANGED chats
  /\ requests' = RemoveAt(requests, i)
  /\ UNCHANGED <<server, login, page, chosen>>

----------------------------------------------------------------------------
(* Navigation.                                                             *)

Tap(c) ==
  /\ page = "chats"
  /\ chatsState \in {"initialized", "loading"}
  /\ c \in chats
  /\ chosen' = c
  /\ page' = "opening"
  /\ UNCHANGED <<server, login, list>>

\* _resolveChat looks the chat up in the list of this moment.
BuildMessages ==
  /\ page = "opening"
  /\ page' = IF chatsState \in {"initialized", "loading"} /\ chosen \in chats
               THEN "messages" ELSE "broken"
  /\ UNCHANGED <<server, login, chosen, list>>

Back ==
  /\ page \in {"messages", "broken"}
  /\ page' = "chats"
  /\ chosen' = NoChat
  /\ UNCHANGED <<server, login, list>>

----------------------------------------------------------------------------
\* The administrator changes memberships, and activates accounts or not.
Administration ==
  /\ \/ \E c \in Chat, user \in User :
          /\ participants' \in {participants \cup {<<c, user>>}, participants \ {<<c, user>>}}
          /\ UNCHANGED active
     \/ \E user \in User :
          /\ active' \in {active \cup {user}, active \ {user}}
          /\ UNCHANGED participants
  /\ joined' = joined \cup participants'
  /\ UNCHANGED <<accessLog, login, page, chosen, list>>

LoginEnds == LoginSucceeds \/ LoginFails
ChatsEnd == \E i \in DOMAIN requests : ChatsArrive(i) \/ ChatsFail(i)

Next ==
  \/ PerformLogin \/ LoginEnds \/ \E user \in User : Authenticate(user)
  \/ Initialize \/ Refresh \/ ChatsEnd \/ \E i \in DOMAIN requests : ListChats(i)
  \/ \E c \in Chat : Tap(c)
  \/ BuildMessages \/ Back
  \/ Administration

Spec == Init /\ [][Next]_vars

\* Requests are answered or time out, and Dart then runs what awaits them.
Fairness == WF_vars(LoginEnds) /\ WF_vars(ChatsEnd)

FairSpec == Spec /\ Fairness

----------------------------------------------------------------------------
(* Properties.                                                             *)

\* The state of the chats manager and the calls it awaits agree: one call at a
\* time, whose end the state waits for, however often the chats screen is
\* built, retried and pulled (the guards of initialize and refresh).
RequestMatchesState ==
  /\ Len(requests) <= 1
  /\ chatsState = "initializing" <=> \E i \in DOMAIN requests : requests[i].by = "initialize"
  /\ chatsState = "loading" <=> \E i \in DOMAIN requests : requests[i].by = "refresh"

\* The screen of a chat is built only over a list of chats, as _resolveChat
\* demands (messages_screen.dart:69): no failure, retry or refresh takes the
\* list away.
ChatsReadyForMessages ==
  page \in {"opening", "messages", "broken"} => chatsState \in {"initialized", "loading"}

\* The user of the login manager is the user of the token that requests carry
\* and was granted it on the record, and every chat shown was that user's
\* (authenticate, grant_authorization, search_chats).
SessionIsTheUsers ==
  /\ loginState = authorization
  /\ loginState # NoUser => \E i \in DOMAIN accessLog : accessLog[i] = loginState
  /\ \A c \in chats : <<c, loginState>> \in joined

\* The login button comes back or the chats are reached, and both spinners of
\* the chats screen go away (performLogin, initialize and refresh, by their
\* catch blocks).
SpinnersEnd ==
  /\ isLoading ~> ~isLoading
  /\ chatsState = "initializing" ~> chatsState # "initializing"
  /\ chatsState = "loading" ~> chatsState # "loading"
=============================================================================
