-------------------------- MODULE ListControllers --------------------------
(***************************************************************************)
(* The three endpoints that list chats, participants and messages.  Every  *)
(* HTTP request runs on a thread of its own, and all requests of one       *)
(* controller share the paginator that is an attribute of its class: an    *)
(* action is the code from one access to the paginator or to a table to    *)
(* the next.  Meanwhile consumers store messages, and the administrator    *)
(* changes all three tables.  A request is one call of get, by a user      *)
(* whose token is good.                                                    *)
(***************************************************************************)
EXTENDS Integers, Sequences, FiniteSets, SequencesExt, Selection

CONSTANTS
  Controllers,   \* the controllers that are called
  User, Chat,
  NoChat,        \* the list of chats has no chat in its url
  Request,       \* calls of get, each made at most once
  Page,          \* the values of the query parameter page
  Limit,         \* and of limit
  NotAnInteger,  \* a value of either that is no integer
  PageSize,      \* the page size of the settings
  NoRequest,     \* nothing assigned yet: the paginator's request
  NoPage,        \* and its page
  NoLink,        \* null in an answer
  Unread,        \* the rows of a page whose query has not been run
  MaxRows,       \* bound: rows of the tables of chats and of participants
  MaxMessages,   \* bound: rows of the table of messages
  MaxChanges     \* bound: changes of the tables

ASSUME ListAssumption ==
  /\ Controllers \subseteq {"chats", "participants", "messages"}
  /\ Page \subseteq Nat \cup {NotAnInteger}
  /\ Limit \subseteq Nat \cup {NotAnInteger}
  /\ PageSize \in Nat \ {0}
  /\ NoRequest \notin Request
  /\ NoLink \notin [request : Request, number : Nat]
  /\ MaxRows \in Nat
  /\ MaxMessages \in Nat
  /\ MaxChanges \in Nat

VARIABLES
  chats,         \* the tables, newest row first
  participants,
  messages,      \* identifiers number the messages in the order of creation
  stored,        \* the number of messages created so far
  changes,       \* the number of changes of the tables so far
  paginator,     \* of each controller: the attributes request and page
  http           \* the requests made so far: parameters and local variables

tables == <<chats, participants, messages, stored, changes>>
vars   == <<tables, paginator, http>>

\* The rows of the answers.
ChatRow        == [chat : Chat]
ParticipantRow == [chat : Chat, user : User]
MessageRow     == [chat : Chat, id : Nat]
Row            == ChatRow \cup ParticipantRow \cup MessageRow

\* A Page with its Paginator: the request that made it, its number, the number
\* of pages, the count, its slice of the query, and its rows once they are read.
PageObject ==
  [of : Request, number : Nat, pages : Nat, count : Nat, bottom : Nat, top : Nat,
   rows : Seq(Row) \cup {Unread}]

Link == [request : Request, number : Nat] \cup {NoLink}

\* The steps of a request that use the paginator of its controller.
Inside ==
  {"count", "list", "serialize", "total", "next", "nextLink", "previous", "previousLink"}

\* A request.  The last five fields are history: how many messages had been
\* stored when it came, whose pages and whose urls it has read, which requests
\* were inside together with it, which had been answered when it came, and
\* whether no message has been deleted since.
Call ==
  [at : Inside \cup {"parse", "paginate", "answered", "refused", "failed", "crashed"},
   controller : Controllers, user : User, chat : Chat \cup {NoChat}, page : Page, limit : Limit,
   rows : Seq(Row), count : Nat, next : Link, previous : Link,
   known : Nat, read : SUBSET Request, met : SUBSET Request, after : SUBSET Request,
   undisturbed : BOOLEAN]

TypeOK ==
  /\ chats \in Seq(Chat)
  /\ participants \in Seq(ParticipantRow)
  /\ messages \in Seq(MessageRow)
  /\ stored \in Nat
  /\ changes \in 0..MaxChanges
  /\ paginator \in [Controllers -> [request : Request \cup {NoRequest},
                                    page : PageObject \cup {NoPage}]]
  /\ DOMAIN http \subseteq Request
  /\ \A r \in DOMAIN http : http[r] \in Call

Init ==
  /\ chats \in {s \in SeqOf(Chat, MaxRows) : IsInjective(s)}
  /\ participants \in SeqOf([chat : ToSet(chats), user : User], MaxRows)
  /\ \E of \in SeqOf(ToSet(chats), MaxMessages) :
       /\ messages = [i \in DOMAIN of |-> [chat |-> of[i], id |-> Len(of) + 1 - i]]
       /\ stored = Len(of)
  /\ changes = 0
  /\ paginator = [c \in Controllers |-> [request |-> NoRequest, page |-> NoPage]]
  /\ http = << >>

----------------------------------------------------------------------------
(* The queries.                                                            *)

\* The places of the rows that make u a participant of chat k.
Memberships(u, k) ==
  {j \in DOMAIN participants : participants[j].chat = k /\ participants[j].user = u}

\* Defect: the join is made distinct.
ChatsOfDistinct(u) ==
  LET own == SelectAt(chats, {i \in DOMAIN chats : Memberships(u, chats[i]) # {}})
  IN  [i \in DOMAIN own |-> [chat |-> own[i]]]

\* search_chats joins the participants: a chat comes once for every
\* Participant row that its user has in it.
Joined(u) ==
  {p \in (DOMAIN chats) \X (DOMAIN participants) : p[2] \in Memberships(u, chats[p[1]])}

ChatsOf(u) ==
  [n \in 1 .. Cardinality(Joined(u)) |-> [chat |-> chats[InPairOrder(Joined(u))[n][1]]]]

\* participants.get: exactly one row, or an exception.
Permitted(u, k) == k \in ToSet(chats) /\ Cardinality(Memberships(u, k)) = 1

\* The rows of a table that belong to a chat.
InChat(table, k) == SelectAt(table, {i \in DOMAIN table : table[i].chat = k})

ParticipantsOf(k) == InChat(participants, k)

MessagesOf(k) == InChat(messages, k)

\* Defect: the messages are not restricted to the chat.
QueryEverything(q) ==
  CASE q.controller = "chats"        -> ChatsOf(q.user)
    [] q.controller = "participants" -> ParticipantsOf(q.chat)
    [] q.controller = "messages"     -> messages

Query(q) ==
  CASE q.controller = "chats"        -> ChatsOf(q.user)
    [] q.controller = "participants" -> ParticipantsOf(q.chat)
    [] q.controller = "messages"     -> MessagesOf(q.chat)

\* A limit that is not a positive integer is ignored.
SizeOf(q) == IF q.limit \in Nat \ {0} THEN q.limit ELSE PageSize

\* Defect: one row too many is skipped between two pages.
BottomSkipping(n, size) == (n - 1) * (size + 1)

\* The number of pages: an empty list has one.
Pages(size, count) == IF count = 0 THEN 1 ELSE (count + size - 1) \div size

\* The slice of page number n: its rows are those after the first Bottom and
\* up to Top, which is the count on the last page.
Bottom(n, size) == (n - 1) * size

\* Defect: the last row of the last page is forgotten.
TopExclusive(n, size, count) ==
  IF Bottom(n, size) + size >= count THEN count - 1 ELSE Bottom(n, size) + size

Top(n, size, count) ==
  IF Bottom(n, size) + size >= count THEN count ELSE Bottom(n, size) + size

----------------------------------------------------------------------------
(* A request.                                                              *)

Shared(r) == paginator[http[r].controller]

GoTo(r, step) == http' = [http EXCEPT ![r].at = step]

Arrive(r, c, u, k, p, l) ==
  /\ r \notin DOMAIN http
  /\ http' = [q \in DOMAIN http \cup {r} |->
       IF q # r THEN http[q]
       ELSE [at |-> "parse", controller |-> c, user |-> u, chat |-> k, page |-> p,
             limit |-> l, rows |-> << >>, count |-> 0, next |-> NoLink,
             previous |-> NoLink, known |-> stored, read |-> {}, met |-> {r},
             after |-> {s \in DOMAIN http : http[s].at = "answered"},
             undisturbed |-> TRUE]]
  /\ UNCHANGED <<tables, paginator>>

\* _get_payload: both parameters are integers, or a ValidationError is raised.
Valid(q) == NotAnInteger \notin {q.page, q.limit}

\* parse: the parameters are validated, except by the list of chats; the chat
\* and the participant are looked up, and what is not found is not caught.
Parse(r) ==
  LET q == http[r]
  IN  /\ q.at = "parse"
      /\ GoTo(r, IF q.controller = "chats" THEN "paginate"
                 ELSE IF ~Valid(q) THEN "refused"
                 ELSE IF Permitted(q.user, q.chat) THEN "paginate" ELSE "failed")
      /\ UNCHANGED <<tables, paginator>>

\* The requests that are inside the controller of r, r among them from now on.
Entering(r) ==
  LET there == {s \in DOMAIN http :
                  http[s].controller = http[r].controller /\ http[s].at \in Inside}
  IN  http' = [s \in DOMAIN http |->
        IF s = r THEN [http[s] EXCEPT !.at = "count", !.met = @ \cup there]
        ELSE IF s \in there THEN [http[s] EXCEPT !.met = @ \cup {r}]
        ELSE http[s]]

\* Defect: the paginator keeps the first request it is given.
PaginateFirstOnly(r) ==
  /\ http[r].at = "paginate"
  /\ paginator' = IF Shared(r).request # NoRequest THEN paginator
                  ELSE [paginator EXCEPT ![http[r].controller].request = r]
  /\ Entering(r)
  /\ UNCHANGED tables

\* Defect: the request is not kept.
PaginateForgetting(r) ==
  /\ http[r].at = "paginate"
  /\ Entering(r)
  /\ UNCHANGED <<tables, paginator>>

\* paginate_queryset, its first line: the request is kept in the paginator.
Paginate(r) ==
  /\ http[r].at = "paginate"
  /\ paginator' = [paginator EXCEPT ![http[r].controller].request = r]
  /\ Entering(r)
  /\ UNCHANGED tables

PageOf(r, count) ==
  LET q == http[r]
  IN  [of |-> r, number |-> q.page, pages |-> Pages(SizeOf(q), count), count |-> count,
       bottom |-> Bottom(q.page, SizeOf(q)), top |-> Top(q.page, SizeOf(q), count),
       rows |-> Unread]

\* Defect: a page that the paginator has already is not made again.
CountOnce(r) ==
  LET q     == http[r]
      count == Len(Query(q))
  IN  /\ q.at = "count"
      /\ IF q.page \in 1..Pages(SizeOf(q), count)
           THEN /\ paginator' = IF Shared(r).page # NoPage THEN paginator
                     ELSE [paginator EXCEPT ![q.controller].page = PageOf(r, count)]
                /\ GoTo(r, "list")
           ELSE GoTo(r, "refused") /\ UNCHANGED paginator
      /\ UNCHANGED tables

\* The rows are counted, and the page is kept in the paginator; a page that
\* does not exist is not found.
Count(r) ==
  LET q     == http[r]
      count == Len(Query(q))
  IN  /\ q.at = "count"
      /\ IF q.page \in 1..Pages(SizeOf(q), count)
           THEN /\ paginator' = [paginator EXCEPT ![q.controller].page = PageOf(r, count)]
                /\ GoTo(r, "list")
           ELSE GoTo(r, "refused") /\ UNCHANGED paginator
      /\ UNCHANGED tables

\* The rows of the page that the paginator has now: read from the table, or
\* already there, when another request has listed the same page.
RowsOf(page) ==
  LET all == Query(http[page.of])
  IN  IF page.rows # Unread THEN page.rows
      ELSE SubSeq(all, page.bottom + 1, IF page.top < Len(all) THEN page.top ELSE Len(all))

List(r) ==
  LET page == Shared(r).page
  IN  /\ http[r].at = "list"
      /\ paginator' = [paginator EXCEPT ![http[r].controller].page.rows = RowsOf(page)]
      /\ http' = [http EXCEPT ![r].at = "serialize", ![r].rows = RowsOf(page),
                              ![r].read = @ \cup {page.of}]
      /\ UNCHANGED tables

\* The serializers of messages and participants look up the chat of each row.
Serialize(r) ==
  LET q == http[r]
  IN  /\ q.at = "serialize"
      /\ GoTo(r, IF q.controller = "chats" \/ \A row \in ToSet(q.rows) : row.chat \in ToSet(chats)
                   THEN "total" ELSE "failed")
      /\ UNCHANGED <<tables, paginator>>

\* get_paginated_response: the count, and then the two links.
Total(r) ==
  LET page == Shared(r).page
  IN  /\ http[r].at = "total"
      /\ http' = [http EXCEPT ![r].at = "next", ![r].count = page.count,
                              ![r].read = @ \cup {page.of}]
      /\ UNCHANGED <<tables, paginator>>

\* has_next and has_previous: whether there is a page at this offset.
HasLink(r, ask, offset, make, otherwise) ==
  LET page == Shared(r).page
  IN  /\ http[r].at = ask
      /\ http' = [http EXCEPT
           ![r].at = IF page.number + offset \in 1..page.pages THEN make ELSE otherwise,
           ![r].read = @ \cup {page.of}]
      /\ UNCHANGED <<tables, paginator>>

\* The url of the request, with the number of that page: EmptyPage is raised
\* when there is none any more.
MadeLink(r, offset) == [request |-> Shared(r).request, number |-> Shared(r).page.number + offset]

Crashes(r, offset) == Shared(r).page.number + offset \notin 1..Shared(r).page.pages

NextLink(r) ==
  /\ http[r].at = "nextLink"
  /\ http' = [http EXCEPT
       ![r].at = IF Crashes(r, 1) THEN "crashed" ELSE "previous",
       ![r].next = IF Crashes(r, 1) THEN @ ELSE MadeLink(r, 1),
       ![r].read = @ \cup {Shared(r).page.of, Shared(r).request}]
  /\ UNCHANGED <<tables, paginator>>

PreviousLink(r) ==
  /\ http[r].at = "previousLink"
  /\ http' = [http EXCEPT
       ![r].at = IF Crashes(r, -1) THEN "crashed" ELSE "answered",
       ![r].previous = IF Crashes(r, -1) THEN @ ELSE MadeLink(r, -1),
       ![r].read = @ \cup {Shared(r).page.of, Shared(r).request}]
  /\ UNCHANGED <<tables, paginator>>

Get(r) ==
  \/ Parse(r) \/ Paginate(r) \/ Count(r) \/ List(r) \/ Serialize(r) \/ Total(r)
  \/ HasLink(r, "next", 1, "nextLink", "previous") \/ NextLink(r)
  \/ HasLink(r, "previous", -1, "previousLink", "answered") \/ PreviousLink(r)

----------------------------------------------------------------------------
(* The tables change.                                                      *)

Change == changes < MaxChanges /\ changes' = changes + 1

\* A consumer stores a message.
Store(k) ==
  /\ Change
  /\ k \in ToSet(chats)
  /\ Len(messages) < MaxMessages
  /\ messages' = <<[chat |-> k, id |-> stored + 1]>> \o messages
  /\ stored' = stored + 1
  /\ UNCHANGED <<chats, participants, paginator, http>>

Deleting == http' = [r \in DOMAIN http |-> [http[r] EXCEPT !.undisturbed = FALSE]]

\* A consumer or the administrator deletes a message.
DeleteMessage(i) ==
  /\ Change
  /\ messages' = RemoveAt(messages, i)
  /\ Deleting
  /\ UNCHANGED <<chats, participants, stored, paginator>>

AdminAddParticipant(u, k) ==
  /\ Change
  /\ k \in ToSet(chats)
  /\ Len(participants) < MaxRows
  /\ participants' = <<[chat |-> k, user |-> u]>> \o participants
  /\ UNCHANGED <<chats, messages, stored, paginator, http>>

AdminRemoveParticipant(i) ==
  /\ Change
  /\ participants' = RemoveAt(participants, i)
  /\ UNCHANGED <<chats, messages, stored, paginator, http>>

AdminCreateChat(k) ==
  /\ Change
  /\ k \notin ToSet(chats)
  /\ chats' = <<k>> \o chats
  /\ UNCHANGED <<participants, messages, stored, paginator, http>>

OutsideChat(table, k) == SelectAt(table, {i \in DOMAIN table : table[i].chat # k})

\* Its participants and messages go with it.
AdminDeleteChat(k) ==
  /\ Change
  /\ k \in ToSet(chats)
  /\ chats' = SelectAt(chats, {i \in DOMAIN chats : chats[i] # k})
  /\ participants' = OutsideChat(participants, k)
  /\ messages' = OutsideChat(messages, k)
  /\ Deleting
  /\ UNCHANGED <<stored, paginator>>

TablesChange ==
  \/ \E k \in Chat : Store(k) \/ AdminCreateChat(k) \/ AdminDeleteChat(k)
  \/ \E i \in DOMAIN messages : DeleteMessage(i)
  \/ \E u \in User, k \in Chat : AdminAddParticipant(u, k)
  \/ \E i \in DOMAIN participants : AdminRemoveParticipant(i)

Next ==
  \/ \E r \in Request, c \in Controllers, u \in User, p \in Page, l \in Limit :
       \E k \in IF c = "chats" THEN {NoChat} ELSE Chat : Arrive(r, c, u, k, p, l)
  \/ \E r \in DOMAIN http : Get(r)
  \/ TablesChange

Spec == Init /\ [][Next]_vars

----------------------------------------------------------------------------
(* Properties.                                                             *)

\* A request that met no other of its controller.
Lone(r) == http[r].met = {r}

Listed == {"serialize", "total", "next", "nextLink", "previous", "previousLink", "answered"}

\* What the shared paginator can do to an answer is limited to requests that
\* were between paginate_queryset and get_paginated_response together: nothing
\* in an answer comes from a request that had finished before, or that came
\* after, whatever pages failed, were refused or left in between.
AnsweredFromThoseMet == \A r \in DOMAIN http : http[r].read \subseteq http[r].met

\* A request that met no other has links to itself at the neighbouring pages,
\* where its count says there are some, and no link of it raises: page, count
\* and url are read one by one from the paginator that all requests share.
OwnLinksWhenAlone ==
  \A r \in DOMAIN http : Lone(r) =>
    LET q == http[r]
    IN  /\ q.at # "crashed"
        /\ q.at = "answered" =>
             /\ q.next = IF q.page + 1 \in 1..Pages(SizeOf(q), q.count)
                           THEN [request |-> r, number |-> q.page + 1] ELSE NoLink
             /\ q.previous = IF q.page - 1 \in 1..Pages(SizeOf(q), q.count)
                               THEN [request |-> r, number |-> q.page - 1] ELSE NoLink

\* A request that met no other lists rows of the chat it was asked for, and no
\* more than its limit (search_messages, search_participants, and the slice that
\* the shared paginator makes of them).
OwnRowsWhenAlone ==
  \A r \in DOMAIN http : Lone(r) /\ http[r].at \in Listed =>
    LET q == http[r]
    IN  /\ Len(q.rows) <= SizeOf(q)
        /\ q.controller # "chats" => \A row \in ToSet(q.rows) : row.chat = q.chat

\* A client that follows next misses nothing between two pages, however many
\* messages are stored meanwhile: no message is older than the last row of the
\* one and newer than the first row of the other (the newest first, and pages
\* that are counted from the newest).
NextPageFollowsOn ==
  \A r, s \in DOMAIN http :
    LET a == http[r]  b == http[s]
    IN  /\ {a.controller, b.controller} = {"messages"} /\ a.chat = b.chat
        /\ {a.at, b.at} = {"answered"} /\ Lone(r) /\ Lone(s)
        /\ r \in b.after /\ a.undisturbed
        /\ a.next # NoLink /\ b.page = a.page + 1 /\ SizeOf(a) = SizeOf(b)
        /\ a.rows # << >> /\ b.rows # << >>
        => \A m \in ToSet(messages) :
             m.chat = a.chat => ~(Head(b.rows).id < m.id /\ m.id < Last(a.rows).id)

\* The messages of its chat that were there when request q came, are there
\* still, and are not in its answer.
Missing(q) ==
  {m \in ToSet(messages) : m.chat = q.chat /\ m.id <= q.known /\ m \notin ToSet(q.rows)}

OnlyPage(r) ==
  /\ http[r].controller = "messages" /\ http[r].at = "answered" /\ Lone(r)
  /\ http[r].page = 1 /\ http[r].next = NoLink

\* A history that fits its page misses at most one message for each that was
\* stored while it was read, and that it has instead.
NewDisplacesOld ==
  \A r \in DOMAIN http : OnlyPage(r) =>
    Cardinality(Missing(http[r])) <=
      Cardinality({m \in ToSet(http[r].rows) : m.id > http[r].known})

\* A chat is in the list of its user once if and only if the user may list its
\* messages and participants: one that is listed twice, for two Participant
\* rows, cannot be read (search_chats joins, participants.get wants one row).
ReadableIffListedOnce ==
  \A u \in User, k \in Chat :
    Permitted(u, k) <=> Cardinality({i \in DOMAIN ChatsOf(u) : ChatsOf(u)[i].chat = k}) = 1
=============================================================================
