# A formal model of the realtime messenger

TLA+ modules, TLC runs and TLAPS proofs about this repository: the Django
Channels server that stores and relays chat messages (`src/server`) and the
Flutter application that shows them (`src/client`). `PROJECT.json` maps every
definition to the lines it stands for, and lists the runs, the hazards and the
mutants (what a plausible bug in a definition would look like, named
`...Quietly`, `...Twice` and so on and marked "Defect" in the modules).

## The system

A client logs in over HTTP, lists its chats, opens one, loads the history over
HTTP and then a websocket. What it writes to the websocket is published to the
group of the chat; every consumer of the group has the event in its queue. The
consumer of the *publisher* carries the event out on the messages table; every
*other* consumer forwards it to its client, which then fetches the message over
HTTP and puts it on the screen.

| component | state | operations | talks to |
|---|---|---|---|
| messaging consumer, one per websocket (`messaging_consumer.py`) | `scope["user"]`, `chat_id`, `chat_group_name` | `connect`, `disconnect`, `receive`, `on_handle_message_event` | channel layer, message service, its client |
| channel layer (Redis, external) | groups, one bounded queue per consumer | group_add, group_discard, group_send | consumers |
| message service (`message_service_impl.py`) | none | `process_message_event`, `search_messages`, `get_message_by_id` | tables |
| tables (`models/`) | chats, participants, messages, accounts, access log | rows come and go, deletions cascade | |
| administration site (`admin/`) | a change form per page loaded | create, change and delete rows | tables |
| list and message endpoints (`controllers/`) | one paginator per controller class | list chats, participants, messages; get a message | services |
| identity endpoints (`authentication/`) | tokens (stateless), access log | `authenticate`, `renew`, admission of requests by their token | tables |
| error answers (`app_errors.py`, `server_sdk.dart`) | none | the handler in force, the one that is not, the client's interceptor | every endpoint, every call of the client |
| messages screen (`_messages_screen_controller.dart`) | the cubit's state, the websocket, suspended handlers | `initialize`, `sendTextMessage`, `_onRemoteMessageEvent`, `close` | endpoints, websocket |
| chats manager (`chats_manager.dart`) | its state, a request under way | `initialize`, `refresh` | chat endpoint |
| login (`login_screen_controller.dart`, `login_manager.dart`) | loading flag, the user | `performLogin`, `setApplicationUser` | identity endpoint, router |

What is hard, and where (the `hazards` of `PROJECT.json` have the lines):

* **Interleaving.** Handlers of consumers run one after the other on one
  thread, but events of one publication are handled by different consumers in
  any order. The administration site runs on other threads and comes between
  two statements of a handler, which has no transaction. HTTP requests run on a
  thread each, and all of one controller class share its paginator. On the
  client every `await` lets events, taps and `close` in.
* **Failure.** A handler that raises ends its consumer without `disconnect`; the
  server stops; queues overflow silently; requests fail on either way, and what
  a failed one answers is not what the interceptor expects.
* **Order.** Storing and relaying are independent; answers to fetches come back
  in any order; the history and the websocket are two different sources.
* **Staleness.** A row that was read and is written back; the list a handler
  captured before its await; a list of chats that a refresh replaces; a count
  taken before the rows it counts are read; an account judged before it is
  granted tokens; tokens that outlive what they were granted for.

## The modules

| module | models | used by |
|---|---|---|
| `MessageEvents` | payloads and rows | all about messages |
| `Selection` | filters and joins of lists, by places and without recursion | `MessagesScreenController`, `RealtimeMessenger`, `ListControllers` |
| `MessageLedger` | what the server promises about the table (abstract) | refined by `MessagingConsumer` |
| `MessagingConsumer` | consumers, channel layer, message service in one step, administrator | `RealtimeMessenger`, `MCMessagingConsumer` |
| `MessageService` | `process_message_event` one statement at a time, against the administration site | `MCMessageService` |
| `MessagesScreenController` | the controller of a chat's screen, await by await | `RealtimeMessenger`, `MCMessagesScreenController` |
| `RealtimeMessenger` | screens and server together: websockets, history, fetches | `MCRealtimeMessenger` |
| `ClientSession` | login, chats manager, navigation, and their endpoints | checked as it is |
| `ListControllers` | the three lists, one access to a table or to the paginator at a time | `MCListControllers` |
| `ErrorResponses` | the two exception handlers and the interceptor | `Identity` |
| `Identity` | login, renewal, access log, accounts, tokens, admitted requests | `MCIdentity` |
| `SequenceFacts` | lemmas about sequences, filters, joins and finite sets | the proof modules |
| `RealtimeMessengerProofs` | theorems about the composition, from instances of `MessagingConsumerProofs` and `MessagesScreenProofs` | |
| `MessagingConsumerProofs`, `MessageServiceProofs`, `ListControllersProofs`, `IdentityProofs`, `ClientSessionProofs`, `MessagesScreenProofs` | theorems about one module each | |

Names are those of the source: `Connect`, `Disconnect`, `Receive` and
`OnHandleMessageEvent` are the methods of the consumer, `chat_id` and
`scope_user` its fields; `Initialize`, `SendTextMessage`, `OnNewOrEdit`,
`Resume`, `Close` are the pieces between the awaits of the screen's controller,
`webSocket` its field, `shown` the list in its state. In `ClientSession`,
`chatsState` and `loginState` are the states of the two managers. In
`ListControllers` the steps of a request follow `get`: `Parse`, then
`paginate_queryset` (`Paginate`, `Count`, `List`), `Serialize`, then
`get_paginated_response` (`Total` and the two links); `paginator` holds the two
attributes all threads write. In `Identity` a call goes through `CheckHeader`,
`FindAccount` and `Grant`, or `Refresh` and `Validate`, to its answer.

Conventions of the translation:

* A consumer's handler is one action, because synchronous consumers share a
  thread: no other handler runs inside it. Its two outcomes are two actions
  (`ProcessOwnEvent` when nothing raises, `FailOwnEvent` when the chat lookup,
  the membership test, `create` or `get` raises). `MessageService` opens this
  action up for the one actor that can come inside, the administration site.
* `log` records every event published. Queues, `sent`, `processed` and `dropped`
  hold indices into it, so that two publications of equal payloads stay apart.
  The code has no such number; only the properties and the bound read it,
  and handlers read the payload and the user behind it.
* The queue of a consumer stands for both the Redis list and the buffer the
  layer keeps in the process; when full, either the newest or the oldest event is
  lost, and `GroupSend` chooses.
* A client that is not the application (`ScriptUser`) may edit, delete and purge;
  the application has no such buttons.
* Identifiers of new messages are fresh, as random UUIDs are. Editing and
  deleting name a message somebody has sent.
* A method that awaits becomes several actions, and what its local variables
  hold over the await is in a record (`Handler`, `Request`, `instance`). The same
  goes for a request between two statements (`http`, `calls`).
* Some fields of those records are history that no code has: whom a request met
  in the paginator, which messages there were when it came, whether an account
  deserved a login at some moment or at all moments of the request.
* The order of a table is the order of its query, newest first; a new row is put
  in front. A page is the slice of the query between two offsets, which are
  computed when the rows are counted and applied when they are read.
* A filter of a list is what the list has at the places that pass, in their
  order, and the rows of a join are its pairs of rows in their order
  (`Selection`). A scan says the same (`MCListControllers` has TLC compare the
  two on short lists), but only by recursion.
* A token is its type, its account and its expiry; the clock is a number and the
  lifetimes are constants. `Claim` gives `None` for a claim a token does not
  carry, as `token.get` does. Keys of accounts are not used again.
* Deleting a row through the administration site is one step with its cascade.

## The runs

| run | instance | states | shows |
|---|---|---|---|
| `server` | 2 users, 1 chat, 1 message, 2 texts, 2 websockets, 2 events, queue 1; all actions; fair | 635 k | types and queue limit, rows as published, order, membership of groups, no unexplained loss, `MessageLedger` is implemented, no event is stuck |
| `one_connection` | 2 users, 3 websockets, 3 events; one connection per user and chat; messages removed by the administrator | 2.9 M | at most once and in order, no conflicts, no resurrection |
| `screen` | 1 screen, 2 messages, 2 events, any answers; fair | 1.1 M | states and awaits agree, closed is closed, nothing hangs |
| `messenger` | 1 screen, 1 script user, 2 messages, 3 events; losses and failures | 2.4 M | no duplicates, right author and text, order per sender |
| `service` | 2 users, 2 chats, 2 messages, 2 texts | 28 k | stale copies do no harm to author, chat and existence, with one named exception |
| `session` | 2 users, 2 chats, 2 logins; fair | 130 k | one request at a time, no spinner left, session belongs to the user |
| `listing` | chats and messages, 1 user, 2 chats, 2 requests, page 1, 2 or no integer, page size 1, 2 chats and participants at most, 3 messages, 1 change | 4.1 M | how far the shared paginator can mix answers; what a lone client may rely on between pages and under changes |
| `identity` | 1 username, 2 passwords, 3 requests, lifetimes 1 and 2, clock to 2, 3 changes by the administrator | 1.7 M | who is granted tokens and is served, what the log keeps, what a client learns of a failure |
| `other_sockets` | 2 websockets, 2 events | violated | the second device of the publisher is not served |
| `stored_if_relayed` | 2 websockets, 2 events | violated | relayed but never stored |
| `relayed_before_stored` | 1 screen, nothing fails | violated | told of a message before it is stored, never shown |
| `relayed_together` | 1 screen, nothing fails, stored first | violated | two handlers overlap, one update is lost |

Bounds, and why they are enough. `MaxEvents` limits the events published; every
property is about a pair of events at most, so two events, or three where a row
must be created, changed and met again, make every case happen. `Capacity` 1 lets
the queue overflow with two events; 2 lets a queue hold a pair. Three
websockets give one user a reconnection, or a second device beside another
user. Two messages on one screen give two handlers that overlap. `HistoryLimit`
2 gives a full page. `MaxArrivals` and `MaxLogins` limit events on a socket and
records of the access log. Symmetry is used only for constants no instance
treats specially and never in a run with a liveness property. Deadlock is not
checked: users may stop sending, and the bounds make every behaviour end.

In `listing`, two requests are the fewest that meet in the paginator or follow
one another, page size 1 makes the second page exist with two rows, and one
change between any two accesses moves a row across the boundary of a page. The
initial tables are any within the bounds, so duplicate participants are there
from the start. In `identity`, two requests race and a third uses what the first
was granted (as a header or for renewal), two passwords let one be changed under
a login, access tokens expire while the refresh token is good, and with
`MaxTime` 2 the latter expires as well.

Restrictions of instances that are not bounds. `server` has one chat: that an
event stays in its chat when there are several is left to the proofs
(`QueuedInChat`, `DeliveredInOrder`). `listing` does not call the list of
participants, whose path differs from the messages' in the table only, and which
the module and its proofs have. `one_connection` and `messenger` assume that no
user is connected twice to a chat, which the server does not enforce, and
`messenger` that rows are removed by events only. What happens without the first
assumption: each consumer of the user carries the event out, and the second
raises, or edits again. This is the code's design problem behind `other_sockets`
too; the properties of `one_connection` say what holds without it.

### Properties

*Server.* `StoredAsPublished`: a row's author, chat and text come from events.
`ImplementsLedger`: the table changes only by carrying out a published event of a
current participant, or by the administrator. `HandledInOrder`: a client is sent
events of its own chat, in order, once. `Subscribed`: group membership and the
consumer's own state agree, over every way a consumer can end.
`EveryEventAccounted`: for a connected consumer each event is queued, dropped by
a full queue, sent or carried out. `EventsHandled` is the liveness side.
`ProcessedInOrder`, `NewNeverConflicts`, `DeletedStaysDeleted` hold with one
connection per user.

*Message service.* `MakerKept`: no stale write changes author or chat.
`ChatOutlivesMessages`: no orphan rows. `OnlyStaleEditRevives`: `message.save()`
inserts a row the administrator deleted after it was read; nothing else does.

*Client.* `AwaitsMatchState`, `FrozenWhenClosed`, `NothingHangs` for the screen;
`NoDuplicates`, `ShownAsPublished`, `ShownInSenderOrder` with the server;
`RequestMatchesState`, `ChatsReadyForMessages`, `SessionIsTheUsers`,
`SpinnersEnd` for the session.

*Lists.* Two requests on two threads do mix: one may answer with the other's
page, count and links. `AnsweredFromThoseMet` bounds this: nothing comes from a
request that had left before or came after, whatever a failure left in the
paginator. A request that met no other has links to itself by its own count
(`OwnLinksWhenAlone`) and rows of the chat it asked for (`OwnRowsWhenAlone`).
`NextPageFollowsOn`: whoever follows `next` misses nothing between the two pages,
though messages are stored meanwhile. `NewDisplacesOld`: a history that fits its
page lacks at most as many old messages as it has new ones, because rows are
counted before they are read. `ReadableIffListedOnce`: two `Participant` rows of
a user make a chat appear twice and unreadable.

*Identity.* `JudgedAsOfSomeMoment`: a login, though read and granted by two
statements, is right for some moment of the request. `PairsOnRecord` and
`AuditTrailKept`: each pair of tokens has a record of its own, and records and
their accounts stay. `ServedAfterRecentLogin`: nobody is served later than one
access lifetime after a login with a password. `FailuresTold`: what the client
learns of a call that failed.

### Fairness

* `MessagingConsumer`: weak fairness of each consumer's handler, in `server`. The event loop
  awaits the queues of all consumers and the thread pool runs what is
  dispatched. Clients, the administrator and failures are not fair.
* `MessagesScreenController`: weak fairness of the answer to the history (HTTP has
  timeouts, `server_sdk.dart:12-14`) and of the end of `close`
  (`WebSocket.close` gives up after a few seconds). Nothing is assumed of
  `WebSocket.connect`, which has no timeout here.
* `ClientSession`: weak fairness of the ends of the two kinds of requests, by the
  same timeouts. `SpinnersEnd` does not need the server to answer.
* `ListControllers` and `Identity` state safety only and assume no fairness.

### Findings

1. `other_sockets`: line 116 of the consumer compares users, so a second device of
   the publisher is never sent the event, while the comment at line 126 speaks of
   "other consumer websockets".
2. `stored_if_relayed`: the publisher's consumer stores, others relay; a
   disconnection in between loses the message for the database only.
3. `relayed_before_stored`: a receiver's fetch may come before the message is
   stored, fails, and is not repeated.
4. `relayed_together`: `_onRemoteMessageEvent` writes back the list from before
   its await, undoing what came in between.

Three more facts are stated as properties that hold, since no document says
otherwise:

* Renewal never succeeds. `validate_renewed_authorization` looks its user up by a
  `username` claim (`authorization_service_impl.py:27`), which the tokens do not
  carry, so a good refresh token is refused and prolongs nothing
  (`ServedAfterRecentLogin`; in the proofs, lemma `RenewalRefused`).
* No answer to a failed call is understood by the client. `settings.py` names no
  exception handler (a line that would is commented out), the bodies of the
  framework lack the fields that the interceptor reads (`server_sdk.dart:83`),
  and it throws. Under `custom_exception_handler` each would be understood
  (`FailuresTold` says both).
* A participant who was added twice has the chat twice in the list and cannot
  read it over HTTP: `participants.get` raises (`ReadableIffListedOnce`). The
  websocket takes the first of the two rows and goes on.

## The proofs

All constants are arbitrary. The assumptions are the named `ASSUME`s of the
modules: `NoMessageAssumption` and `ConsumerAssumption` (a positive capacity, a
bound in `Nat`, null values outside their sets), `ServiceAssumption` (each
message identifier has one maker, which is what fresh UUIDs give),
`ListAssumption` and `IdentityAssumption` (positive page size and lifetimes,
bounds in `Nat`, null values; the null of a link is no link), `SessionAssumption`
(null values, a bound), `ControllerAssumption` (the types of the histories and
of the authors of screens) and `MessengerAssumption` (those of the server and of
the screens; every screen is of a chat; who uses the application does not
also use a script; `MaxEvents <= MaxArrivals`, so that the second is no bound of
its own where the first is one).

`MessagingConsumerProofs`:

* `TypeCorrect`, from `TypeInv`: `TypeOK` with "a connected consumer has a user and a
  chat", without which `Receive` would publish an event of nobody. The queue's
  limit is part of it; `GroupSend` is the only hard action (lemma `GroupSendType`).
* `AlwaysSubscribed` from `ChatInv`, which adds `Subscribed` itself and `QueuedInChat`
  (what a connected consumer has in its queue was published in its chat). The
  latter needs the former, since `group_send` goes to members of the group, and is
  needed by everything below: a consumer carries events out under *its own*
  `chat_id`, and only `QueuedInChat` makes this the chat of the event.
* `AlwaysStoredAsPublished`: `LogGrows` (events stay published) carries old rows
  over, `ProcessedRows` handles the row that is written.
* `ServerImplementsLedger`: with `ChatInv` each step maps to a step of
  `MessageLedger` or a stutter. `Receive` publishes, `ProcessOwnEvent` carries out (or
  stutters, for a purge), administration administers, everything else stutters.

`MessagingConsumerProofs`, on delivery, on top of `ChatInv`:

* `NothingLostSilently`: `EveryEventAccounted` is inductive relative to `ChatInv`. A
  publication reaches every awaiting consumer because `Subscribed` makes it a member of
  the group; `GroupSend` then puts the event in the queue or in `dropped`, along with an
  event that makes room for it; a handler moves its event to `sent` or `processed`; and
  a new consumer awaits nothing older than its `joinedAt`.
* `DeliveredInOrder` from `OrderInv`: `HandledInOrder` speaks of `sent \o queue`, which
  steps disturb in the middle, so the invariant says it in parts. `InOrder`: each of
  the two is increasing and the first lies below the second. `SentInChat`: what a
  connected consumer sent is of its chat (for the queue this is `QueuedInChat`).
  `OrderedIsHandledInOrder` puts the parts together again.

`MessagingConsumerProofs`, on one connection, for behaviours in which no user is ever connected twice to a
chat (`Spec /\ []OneConnectionEach`), and with the whole administration site:
`CarriedOutInOrder`, `NewIsFree` and `RemovedForGood`. The invariant `AloneInv` adds
`Ahead` (what is carried out for a user in a chat comes before all that waits in the
queue of the user's consumer there), `NewOnce` (identifiers are made once) and
`StoredWasMade` (a row's new-message event is among those carried out). Carrying out an
event disturbs `Ahead` for consumers of the same user in the same chat, and the
assumption says that there is only one; a new consumer's queue is empty. Lemma `OwnHead`
draws the conclusion all three theorems need: what waits has not been carried out.

`MessageServiceProofs`, from `ServiceInv`: `TypeOK`, the two invariants, and what the
handler and the form hold in hand (`EventInHand`, `CopyInHand`, `DeletionInHand`,
`FormInHand`: a copy of a row, however old, has the maker of its message). The
theorems are `AlwaysServiceTyped`, `AlwaysMakerKept`, `AlwaysChatOutlivesMessages` and
the action property `StaleEditsOnly`.

`ListControllersProofs`: `AnswersOfThoseMet` and `OwnLinks`, from `SharingInv`. `Together`:
requests that are inside together have met. `Found`: what a request finds in the paginator
was put there by somebody it has met, and pages and count there go together. `LinksSoFar`:
how far a lone request has come with its links. The proof has a lemma for each step of
`get`; `SharingOwnStep` does the part that is the same for all that only read. The other
five properties of `listing` follow from `ListingInv`, which is `SharingInv` with two more:

* `TypedInv`, of which the hard part is `PagesMade`: whoever is past the count finds a
  *page* in the paginator. It needs `Found` (somebody has put one there) and gives
  `ListsTyped`. Its `TablesInv` says that a chat is in its table once and messages are
  there newest first; `ReadableIffListedOnce` (`OnceIfReadable`) needs nothing else, with
  lemmas on how often a join has a row (`ListedAsOften`, `ListedOnce`).
* `AloneInv`, what a request that met no other has for certain (`OwnParts`). Between the
  count and the query, `PageOfOwn`: the page in the paginator is its own and unread, the
  count covers the old messages, and is not too high unless a message has been deleted.
  This gives `Fits`, hence `OwnRows`. After the query, `Displaces`: a page with everything on
  it has room for the old messages, so each one that it lacks has been pushed off by a new
  one (`NewInsteadOfOld`; the counting is lemma `RowsDisplace`). `Reaches`: a full page
  reaches as deep as its number says, counted from the newest message of *now* in place of
  the newest one of then. Counting from the end that grows is what makes it survive
  messages that are stored later, and two such counts, of a page and of the next one,
  leave no message between the two (`Follows`, `NextFollowsOn`).

The steps of *others* are the same for all of this: lemma `AloneFrom` does them at once for
steps under which a request keeps what it has (`Stays`).

`IdentityProofs`: all six properties of `identity`, from `IdentityInv`. `Places`: where a
call of either endpoint can be; its proof uses `RenewalRefused`, so that only logins reach
an answer. `Judged`: what the history of a call says of the accounts of the moment.
`LogKept`, `Recorded` and `Vouched`: every record has its account, every pair its record,
and every access token held the record of its login, made one lifetime before it
expires. `AuditTrail` and `FailuresAreTold` follow from lemmas about single steps.

`ClientSessionProofs`: `SessionTyped`, `OneRequest`, `ListUnderMessages` and `OwnSession`,
from `SessionInv`, which adds that login comes first (`LoginFirst`), that its answer is on
record (`AnswersRecorded`), and that what a request holds is of the user
(`ListsAreTheUsers`).

`MessagesScreenProofs`: `AwaitsMatch` and `ClosedIsFrozen`, from `ScreenInv`, which adds to
`AwaitsMatchState` that no handler is suspended while `initialize` awaits anything; and
`ScreenTypeCorrect`, where what the list becomes is the work (lemmas on `Without` and
`Updated`).

`RealtimeMessengerProofs`, about the whole:

* `ServerWithin`: every behaviour of the composition is one of the server's own. What
  the client does on its own, and what it reads, is a stutter there; a connection it
  opens, and what a consumer takes from a socket, are steps of the server. So the theorems about the server hold here, and its invariants
  (`ServerInv`) are used below without being proved again. `MessengerTypeCorrect` is the
  types of the two halves and of the positions between them (`Reading`).
* `NoneTwice` and `ShownWasPublished`, from `ListsInv`. It speaks of *all lists* of a screen
  (`Lists`): the one shown and those that suspended handlers captured, any of which comes
  back when its handler resumes. A message gets to a screen by three ways, and the
  invariant keeps them apart. Its user's copy: `WrittenOnce` and `WaitingOf` (what waits on a
  socket has not been published, and where it is shown it is its user's, in the chat and
  with the text that will be published) and `KeptLocally` (a message written nowhere is
  on all lists or none, so that its identifier is free). The history: what it has was
  published before the consumer joined (`SeenBefore`). The events: `OldList` says that what is
  on a list came by an earlier event than the ones still to be read, so an event of a new
  message brings one that is not there; that events come in order and once is the
  server's `OrderInv`. `HandlerOf` says the same of what handlers hold, and that an answer
  is about the message it was asked for.
* `ShownInOrder`, if no user is connected twice to a chat: `ListsOrdered` says of all lists what
  `ShownInSenderOrder` says of the one shown. A history is the table newest first, and
  the table has the messages of a user in the order of publication by the server's
  `AloneInv` (`ProcessedInOrder`); what events put in front is newer by `OldList`.

Every invariant and every action property of the runs that pass is a theorem, for
any constants within the assumptions. Left to TLC are liveness (`EventsHandled`,
`NothingHangs`, `SpinnersEnd`), since the prover reaches neither fairness nor
`ENABLED`, and the four properties that the code violates. No proof is an
induction over data: filters and joins are stated by places (`Selection`), and what
they return follows from facts about cardinalities (`SelectAtFacts` and the lemmas
around it in `SequenceFacts`). Where a proof needs the first of several events, it
takes the least element of a set of numbers (`LeastElement`).

## Not modelled

* The `Messenger` isolate: an interface and a sketch whose methods are not
  implemented and which nothing starts.
* Scripts and provisioning (the container's entrypoint, the wait for the
  database, the generator of API clients), injection and URL tables, platform
  projects, themes and drawing: no state of their own.
* Timestamps other than the order of creation; in particular the one of
  `app_errors.py:20`, which would be that of the server's start. Texts and headers
  of errors.
* Failures of Redis and SQLite's lock errors: the latter would be one more reason
  for `FailOwnEvent` or a failing request.
* Free changes of a row's chat, author or name in a change form: the
  administrator may do anything to a row, and no property would be left. Users
  are not renamed, and users with memberships are not deleted.
* Payloads of a shape the server does not know; reconnection and logging out,
  which nothing in the application does.

## What is left

In the order of their worth:

1. An abstract specification of a screen (a set of messages that follows the
   relayed events) and the part of it that the controller implements. The two
   findings about `RelayedIsShown` say that it does not implement all of it.
2. A `server` run with two chats, which is beyond a few minutes together with the
   liveness property. The proofs cover any number of chats.
