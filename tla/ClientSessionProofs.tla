------------------------ MODULE ClientSessionProofs ------------------------
(***************************************************************************)
(* Proofs about ClientSession: the state of the chats manager matches the  *)
(* one request it may have under way, the screen of a chat always has its  *)
(* list, and everything shown belongs to the user of the token.            *)
(***************************************************************************)
EXTENDS ClientSession, TLAPS

----------------------------------------------------------------------------
(* The invariant.                                                          *)

\* There is one login, from the login screen, before anything is listed.
LoginFirst ==
  /\ isLoading => page = "login"
  /\ page = "login" => chatsState = "uninitialized" /\ requests = << >> /\ chats = {}

\* What a login was answered is on record.
AnswersRecorded ==
  loginAnswer \in User => \E i \in DOMAIN accessLog : accessLog[i] = loginAnswer

\* The lists that a request holds are of chats of the user.
ListsAreTheUsers ==
  \A i \in DOMAIN requests :
    /\ \A c \in requests[i].kept : <<c, loginState>> \in joined
    /\ requests[i].answer = "listed" =>
         \A c \in requests[i].listed : <<c, loginState>> \in joined

\* Memberships of the moment are part of the history.
JoinedNow == participants \subseteq joined

SessionInv ==
  /\ TypeOK
  /\ RequestMatchesState
  /\ ChatsReadyForMessages
  /\ SessionIsTheUsers
  /\ LoginFirst
  /\ AnswersRecorded
  /\ ListsAreTheUsers
  /\ JoinedNow

----------------------------------------------------------------------------
(* The one request.                                                        *)

\* A request under way is the only one, and nothing is left when it ends.
LEMMA OnlyRequest ==
  ASSUME TypeOK, RequestMatchesState, NEW i \in DOMAIN requests
  PROVE  /\ i = 1
         /\ DOMAIN requests = {1}
         /\ requests[i] \in Request
         /\ RemoveAt(requests, i) = << >>
<1>1. requests \in Seq(Request) /\ Len(requests) <= 1
  BY DEF TypeOK, RequestMatchesState
<1>2. i = 1 /\ Len(requests) = 1
  <2>1. Len(requests) \in Nat /\ DOMAIN requests = 1..Len(requests)
    BY <1>1
  <2> QED
    BY <1>1, <2>1
<1>3. requests[i] \in Request
  BY <1>1
<1>4. RemoveAt(requests, 1) = SubSeq(requests, 1, 0) \o SubSeq(requests, 2, 1)
  BY <1>2 DEF RemoveAt
<1>5. SubSeq(requests, 1, 0) = << >> /\ SubSeq(requests, 2, 1) = << >>
  BY <1>1
<1>6. RemoveAt(requests, 1) = << >>
  BY <1>4, <1>5
<1> QED
  BY <1>1, <1>2, <1>3, <1>6

\* No request is under way in a state that waits for none.
LEMMA NoRequest ==
  ASSUME TypeOK, RequestMatchesState, chatsState \notin {"initializing", "loading"}
  PROVE  requests = << >>
<1>1. requests \in Seq(Request)
  BY DEF TypeOK
<1>2. \A i \in DOMAIN requests : requests[i] \in Request
  BY <1>1
<1>3. DOMAIN requests = {}
  BY <1>2 DEF Request, RequestMatchesState
<1> QED
  BY <1>1, <1>3

\* A new request is the only one.
LEMMA FirstRequest ==
  ASSUME requests = << >>, NEW by, Calling(by)
  PROVE  /\ DOMAIN requests' = {1} /\ Len(requests') = 1
         /\ requests'[1] = [by |-> by, kept |-> chats, answer |-> "none", listed |-> {}]
  BY DEF Calling

----------------------------------------------------------------------------
(* The steps, one lemma for each part of the invariant that they disturb.  *)

\* Nobody is logged in at first and nothing is awaited.
LEMMA InitInv ==
  ASSUME Init
  PROVE  SessionInv
<1> USE DEF Init
<1>1. TypeOK
  <2>1. accessLog \in Seq(User) /\ requests \in Seq(Request)
    OBVIOUS
  <2> QED
    BY <2>1 DEF TypeOK
<1>2. RequestMatchesState /\ ChatsReadyForMessages /\ SessionIsTheUsers
  BY DEF RequestMatchesState, ChatsReadyForMessages, SessionIsTheUsers
<1>3. LoginFirst /\ AnswersRecorded /\ ListsAreTheUsers /\ JoinedNow
  BY SessionAssumption DEF LoginFirst, AnswersRecorded, ListsAreTheUsers, JoinedNow
<1> QED
  BY <1>1, <1>2, <1>3 DEF SessionInv

\* A login is asked for.
LEMMA PerformLoginInv ==
  ASSUME SessionInv, PerformLogin
  PROVE  SessionInv'
<1> USE DEF SessionInv, PerformLogin, server, list
<1>1. TypeOK'
  BY SessionAssumption DEF TypeOK
<1>2. RequestMatchesState' /\ ChatsReadyForMessages' /\ SessionIsTheUsers'
  BY DEF RequestMatchesState, ChatsReadyForMessages, SessionIsTheUsers
<1>3. LoginFirst' /\ AnswersRecorded' /\ ListsAreTheUsers' /\ JoinedNow'
  BY SessionAssumption DEF LoginFirst, AnswersRecorded, ListsAreTheUsers, JoinedNow
<1> QED
  BY <1>1, <1>2, <1>3

\* The server grants a login, on record, or refuses it.
LEMMA AuthenticateInv ==
  ASSUME SessionInv, NEW user \in User, Authenticate(user)
  PROVE  SessionInv'
<1> USE DEF SessionInv, Authenticate
<1>1. accessLog \in Seq(User)
  BY DEF TypeOK
<1>2. TypeOK'
  BY <1>1, SessionAssumption DEF TypeOK, list
<1>3. \A i \in DOMAIN accessLog : i \in DOMAIN accessLog' /\ accessLog'[i] = accessLog[i]
  BY <1>1
<1>4. user \in active => \E i \in DOMAIN accessLog' : accessLog'[i] = user
  <2> SUFFICES ASSUME user \in active
               PROVE  \E i \in DOMAIN accessLog' : accessLog'[i] = user
    OBVIOUS
  <2>1. accessLog' = Append(accessLog, user)
    OBVIOUS
  <2>2. Len(accessLog) + 1 \in DOMAIN accessLog' /\ accessLog'[Len(accessLog) + 1] = user
    BY <1>1, <2>1
  <2> QED
    BY <2>2
<1>5. RequestMatchesState' /\ ChatsReadyForMessages' /\ ListsAreTheUsers' /\ JoinedNow'
  BY DEF list, RequestMatchesState, ChatsReadyForMessages, ListsAreTheUsers, JoinedNow
<1>6. SessionIsTheUsers'
  BY <1>3 DEF list, SessionIsTheUsers
<1>7. LoginFirst' /\ AnswersRecorded'
  BY <1>4, SessionAssumption DEF list, LoginFirst, AnswersRecorded
<1> QED
  BY <1>2, <1>5, <1>6, <1>7

\* The login succeeds before there is any list.
LEMMA LoginSucceedsInv ==
  ASSUME SessionInv, LoginSucceeds
  PROVE  SessionInv'
<1> USE DEF SessionInv, LoginSucceeds, server, list
<1>1. chatsState = "uninitialized" /\ requests = << >> /\ chats = {}
  BY DEF LoginFirst
<1>2. TypeOK'
  BY DEF TypeOK
<1>3. RequestMatchesState' /\ ChatsReadyForMessages'
  BY DEF RequestMatchesState, ChatsReadyForMessages
<1>4. SessionIsTheUsers' /\ ListsAreTheUsers'
  BY <1>1 DEF SessionIsTheUsers, ListsAreTheUsers, AnswersRecorded
<1>5. LoginFirst' /\ AnswersRecorded' /\ JoinedNow'
  BY DEF LoginFirst, AnswersRecorded, JoinedNow
<1> QED
  BY <1>2, <1>3, <1>4, <1>5

\* A login that fails leaves the session as it was.
LEMMA LoginFailsInv ==
  ASSUME SessionInv, LoginFails
  PROVE  SessionInv'
<1> USE DEF SessionInv, LoginFails, server, list
<1>1. TypeOK'
  BY DEF TypeOK
<1>2. RequestMatchesState' /\ ChatsReadyForMessages' /\ SessionIsTheUsers'
  BY DEF RequestMatchesState, ChatsReadyForMessages, SessionIsTheUsers
<1>3. LoginFirst' /\ AnswersRecorded' /\ ListsAreTheUsers' /\ JoinedNow'
  BY DEF LoginFirst, AnswersRecorded, ListsAreTheUsers, JoinedNow
<1> QED
  BY <1>1, <1>2, <1>3

\* The parts that no call of the chats manager disturbs.
LEMMA CallInv ==
  ASSUME SessionInv, requests = << >>, NEW by \in {"initialize", "refresh"}, Calling(by),
         chatsState' = IF by = "initialize" THEN "initializing" ELSE "loading",
         page # "login",
         page \in {"opening", "messages", "broken"} => chatsState' = "loading",
         UNCHANGED <<server, login, page, chosen, chats>>
  PROVE  SessionInv'
<1> USE DEF SessionInv, server, login
<1> DEFINE r == [by |-> by, kept |-> chats, answer |-> "none", listed |-> {}]
<1>1. DOMAIN requests' = {1} /\ Len(requests') = 1 /\ requests'[1] = r
  BY FirstRequest
<1>2. r \in Request
  BY DEF TypeOK, Request
<1>3. requests' \in Seq(Request)
  BY <1>2 DEF Calling
<1>4. TypeOK'
  BY <1>3 DEF TypeOK
<1>5. RequestMatchesState'
  BY <1>1 DEF RequestMatchesState
<1>6. ListsAreTheUsers'
  BY <1>1 DEF ListsAreTheUsers, SessionIsTheUsers
<1>7. ChatsReadyForMessages' /\ SessionIsTheUsers' /\ LoginFirst'
  BY DEF ChatsReadyForMessages, SessionIsTheUsers, LoginFirst
<1>8. AnswersRecorded' /\ JoinedNow'
  BY DEF AnswersRecorded, JoinedNow
<1> QED
  BY <1>4, <1>5, <1>6, <1>7, <1>8

\* initialize starts a request only when none is under way.
LEMMA InitializeInv ==
  ASSUME SessionInv, Initialize
  PROVE  SessionInv'
<1>1. requests = << >>
  BY NoRequest DEF SessionInv, Initialize
<1>2. page \notin {"opening", "messages", "broken"}
  BY DEF SessionInv, ChatsReadyForMessages, Initialize
<1> QED
  BY <1>1, <1>2, CallInv DEF Initialize

\* refresh starts a request only over a list.
LEMMA RefreshInv ==
  ASSUME SessionInv, Refresh
  PROVE  SessionInv'
<1>1. requests = << >>
  BY NoRequest DEF SessionInv, Refresh
<1> QED
  BY <1>1, CallInv DEF Refresh

\* The answer to a request lists chats of the user.
LEMMA ListChatsInv ==
  ASSUME SessionInv, NEW i \in DOMAIN requests, ListChats(i)
  PROVE  SessionInv'
<1> USE DEF SessionInv, ListChats, server, login
<1>1. /\ i = 1 /\ DOMAIN requests = {1} /\ requests[i] \in Request
  BY OnlyRequest
<1>2. requests \in Seq(Request)
  BY DEF TypeOK
<1>3. PICK answer \in {"refused", "listed"}, listed \in SUBSET Chat :
        /\ Answered(i, answer, listed)
        /\ \A c \in listed : <<c, authorization>> \in participants
  <2>1. CASE authorization \in active
    <3> DEFINE own == {c \in Chat : <<c, authorization>> \in participants}
    <3>1. Answered(i, "listed", own) /\ own \in SUBSET Chat
      BY <2>1
    <3> QED
      BY <3>1
  <2>2. CASE authorization \notin active
    BY <2>2
  <2> QED
    BY <2>1, <2>2
<1>4. /\ DOMAIN requests' = {1} /\ Len(requests') = Len(requests)
      /\ requests'[1] = [requests[1] EXCEPT !.answer = answer, !.listed = listed]
  BY <1>1, <1>2, <1>3 DEF Answered
<1>5. requests'[1] \in Request
  BY <1>1, <1>3, <1>4 DEF Request
<1>6. requests' \in Seq(Request)
  BY <1>1, <1>2, <1>3, <1>5 DEF Answered
<1>7. /\ requests'[1].by = requests[1].by /\ requests'[1].kept = requests[1].kept
      /\ requests'[1].listed = listed
  BY <1>1, <1>4 DEF Request
<1>8. TypeOK'
  BY <1>6 DEF TypeOK
<1>9. RequestMatchesState'
  BY <1>1, <1>4, <1>7 DEF RequestMatchesState
<1>10. ListsAreTheUsers'
  BY <1>1, <1>3, <1>4, <1>7 DEF ListsAreTheUsers, SessionIsTheUsers, JoinedNow
<1>11. ChatsReadyForMessages' /\ SessionIsTheUsers' /\ AnswersRecorded' /\ JoinedNow'
  BY DEF ChatsReadyForMessages, SessionIsTheUsers, AnswersRecorded, JoinedNow
<1>12. LoginFirst'
  BY <1>1 DEF LoginFirst
<1> QED
  BY <1>8, <1>9, <1>10, <1>11, <1>12

\* The parts that the end of a request leaves alone.
LEMMA RequestEndsInv ==
  ASSUME SessionInv, NEW i \in DOMAIN requests, requests' = RemoveAt(requests, i),
         chatsState' \in {"initialized", "fatal"},
         page \in {"opening", "messages", "broken"} => chatsState' = "initialized",
         chats' \subseteq Chat,
         \A c \in chats' : <<c, loginState>> \in joined,
         UNCHANGED <<server, login, page, chosen>>
  PROVE  SessionInv'
<1> USE DEF SessionInv, server, login
<1>1. requests' = << >> /\ DOMAIN requests = {1}
  BY OnlyRequest
<1>2. TypeOK'
  BY <1>1 DEF TypeOK
<1>3. RequestMatchesState'
  BY <1>1 DEF RequestMatchesState
<1>4. ChatsReadyForMessages' /\ SessionIsTheUsers'
  BY DEF ChatsReadyForMessages, SessionIsTheUsers
<1>5. page # "login"
  BY <1>1 DEF LoginFirst
<1>6. LoginFirst' /\ AnswersRecorded' /\ ListsAreTheUsers' /\ JoinedNow'
  BY <1>1, <1>5 DEF LoginFirst, AnswersRecorded, ListsAreTheUsers, JoinedNow
<1> QED
  BY <1>2, <1>3, <1>4, <1>6

\* The answer ends the one request, with chats that the user is in.
LEMMA ChatsArriveInv ==
  ASSUME SessionInv, NEW i \in DOMAIN requests, ChatsArrive(i)
  PROVE  SessionInv'
<1>1. requests[i] \in Request
  BY OnlyRequest DEF SessionInv
<1>2. chats' \subseteq Chat /\ \A c \in chats' : <<c, loginState>> \in joined
  BY <1>1 DEF ChatsArrive, Request, SessionInv, ListsAreTheUsers
<1> QED
  BY <1>2, RequestEndsInv DEF ChatsArrive

\* A failed request falls back to what there was before it.
LEMMA ChatsFailInv ==
  ASSUME SessionInv, NEW i \in DOMAIN requests, ChatsFail(i)
  PROVE  SessionInv'
<1>1. requests[i] \in Request
  BY OnlyRequest DEF SessionInv
<1>2. chats' \subseteq Chat /\ \A c \in chats' : <<c, loginState>> \in joined
  BY <1>1 DEF ChatsFail, Request, SessionInv, TypeOK, ListsAreTheUsers, SessionIsTheUsers
<1>3. page \in {"opening", "messages", "broken"} => chatsState' = "initialized"
  <2>1. requests[i].by = "initialize" => chatsState = "initializing"
    BY DEF SessionInv, RequestMatchesState
  <2> QED
    BY <1>1, <2>1 DEF ChatsFail, Request, SessionInv, ChatsReadyForMessages
<1> QED
  BY <1>2, <1>3, RequestEndsInv DEF ChatsFail

\* Navigation changes the page and the chosen chat only.
LEMMA NavigationInv ==
  ASSUME SessionInv, (\E c \in Chat : Tap(c)) \/ BuildMessages \/ Back
  PROVE  SessionInv'
<1> USE DEF SessionInv
<1>1. UNCHANGED <<server, login, list>> /\ page # "login" /\ page' # "login"
  BY DEF Tap, BuildMessages, Back, server, login, list
<1>2. TypeOK'
  <2>1. page' \in {"chats", "opening", "messages", "broken"} /\ chosen' \in Chat \cup {NoChat}
    BY DEF Tap, BuildMessages, Back, TypeOK
  <2> QED
    BY <1>1, <2>1 DEF TypeOK, server, login, list
<1>3. ChatsReadyForMessages'
  BY DEF Tap, BuildMessages, Back, ChatsReadyForMessages, list
<1>4. RequestMatchesState' /\ SessionIsTheUsers' /\ ListsAreTheUsers' /\ JoinedNow'
  BY <1>1 DEF RequestMatchesState, SessionIsTheUsers, ListsAreTheUsers, JoinedNow,
              server, login, list
<1>5. LoginFirst' /\ AnswersRecorded'
  BY <1>1 DEF LoginFirst, AnswersRecorded, server, login, list
<1> QED
  BY <1>2, <1>3, <1>4, <1>5

\* Memberships and accounts change, and the history of members only grows.
LEMMA AdministrationInv ==
  ASSUME SessionInv, Administration
  PROVE  SessionInv'
<1> USE DEF SessionInv, Administration, login, list
<1>1. active' \subseteq User /\ participants' \subseteq Chat \X User
  BY DEF TypeOK
<1>2. TypeOK'
  BY <1>1 DEF TypeOK
<1>3. RequestMatchesState' /\ ChatsReadyForMessages' /\ LoginFirst' /\ AnswersRecorded'
  BY DEF RequestMatchesState, ChatsReadyForMessages, LoginFirst, AnswersRecorded
<1>4. SessionIsTheUsers' /\ ListsAreTheUsers' /\ JoinedNow'
  BY DEF SessionIsTheUsers, ListsAreTheUsers, JoinedNow
<1> QED
  BY <1>2, <1>3, <1>4

\* The invariant is inductive.
LEMMA StepInv ==
  ASSUME SessionInv, [Next]_vars
  PROVE  SessionInv'
<1>1. CASE UNCHANGED vars
  BY <1>1 DEF SessionInv, TypeOK, RequestMatchesState, ChatsReadyForMessages,
       SessionIsTheUsers, LoginFirst, AnswersRecorded, ListsAreTheUsers, JoinedNow,
       vars, server, login, list
<1>2. CASE PerformLogin \/ LoginEnds \/ \E user \in User : Authenticate(user)
  BY <1>2, PerformLoginInv, LoginSucceedsInv, LoginFailsInv, AuthenticateInv DEF LoginEnds
<1>3. CASE Initialize \/ Refresh
  BY <1>3, InitializeInv, RefreshInv
<1>4. CASE ChatsEnd \/ \E i \in DOMAIN requests : ListChats(i)
  BY <1>4, ChatsArriveInv, ChatsFailInv, ListChatsInv DEF ChatsEnd
<1>5. CASE (\E c \in Chat : Tap(c)) \/ BuildMessages \/ Back
  BY <1>5, NavigationInv
<1>6. CASE Administration
  BY <1>6, AdministrationInv
<1> QED
  BY <1>1, <1>2, <1>3, <1>4, <1>5, <1>6 DEF Next

\* SessionInv holds always.
LEMMA AlwaysSessionInv == Spec => []SessionInv
<1> QED
  BY InitInv, StepInv, PTL DEF Spec

----------------------------------------------------------------------------
(* The theorems.                                                           *)

\* The state of the application is well typed.
THEOREM SessionTyped == Spec => []TypeOK
<1>1. SessionInv => TypeOK
  BY DEF SessionInv
<1> QED
  BY <1>1, AlwaysSessionInv, PTL

\* The chats manager has the one request under way that its state waits for,
\* however initialize and refresh are called (chats_manager.dart).
THEOREM OneRequest == Spec => []RequestMatchesState
<1>1. SessionInv => RequestMatchesState
  BY DEF SessionInv
<1> QED
  BY <1>1, AlwaysSessionInv, PTL

\* The screen of a chat is only built over a list of chats, as _resolveChat
\* demands.
THEOREM ListUnderMessages == Spec => []ChatsReadyForMessages
<1>1. SessionInv => ChatsReadyForMessages
  BY DEF SessionInv
<1> QED
  BY <1>1, AlwaysSessionInv, PTL

\* Whoever is logged in carries a token of his own that is on record, and sees
\* no chat but those he was in.
THEOREM OwnSession == Spec => []SessionIsTheUsers
<1>1. SessionInv => SessionIsTheUsers
  BY DEF SessionInv
<1> QED
  BY <1>1, AlwaysSessionInv, PTL
=============================================================================
