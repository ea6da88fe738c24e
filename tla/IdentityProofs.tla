--------------------------- MODULE IdentityProofs ---------------------------
(***************************************************************************)
(* What the identity endpoints promise, for any number of requests,        *)
(* accounts and changes of them, and for any lifetimes of the tokens.      *)
(***************************************************************************)
EXTENDS Identity, TLAPS

Steps == {"check", "find", "grant", "validate", "answer", "granted", "failed", "lost"}
Pairs == [access : AccessToken, refresh : RefreshToken]

CallsTyped == DOMAIN calls \subseteq Request /\ \A c \in DOMAIN calls : calls[c] \in Call

\* At first there is no account, no token and no request.
LEMMA TypeInit == Init => TypeOK
  BY IdentityAssumption DEF Init, TypeOK

\* A step of one call.
LEMMA CallReplaced ==
  ASSUME TypeOK, created' = created, NEW c \in DOMAIN calls, NEW q \in Call,
         calls' = [calls EXCEPT ![c] = q]
  PROVE  CallsTyped'
<1>1. Call' = Call
  BY DEF Call, Key, AccessToken, RefreshToken, Token
<1> QED
  BY <1>1 DEF TypeOK, CallsTyped

\* A request that goes on keeps its type.
LEMMA GoToTyped ==
  ASSUME TypeOK, created' = created, NEW c \in DOMAIN calls, NEW step \in Steps, GoTo(c, step)
  PROVE  CallsTyped'
<1>1. calls[c] \in Call /\ [calls[c] EXCEPT !.at = step] \in Call
  BY DEF TypeOK, Call, Steps
<1>2. calls' = [calls EXCEPT ![c] = [calls[c] EXCEPT !.at = step]]
  BY DEF GoTo
<1> QED
  BY <1>1, <1>2, CallReplaced

\* So does a request that raises.
LEMMA RaiseTyped ==
  ASSUME TypeOK, created' = created, NEW c \in DOMAIN calls, NEW ex \in Exceptions, Raise(c, ex)
  PROVE  CallsTyped'
<1>1. calls[c] \in Call /\ [calls[c] EXCEPT !.at = "failed", !.exception = ex] \in Call
  BY DEF TypeOK, Call
<1>2. calls' = [calls EXCEPT ![c] = [calls[c] EXCEPT !.at = "failed", !.exception = ex]]
  BY DEF Raise
<1> QED
  BY <1>1, <1>2, CallReplaced

\* The pair made for an account holds tokens of it.
LEMMA PairTyped ==
  ASSUME TypeOK, NEW id \in Key
  PROVE  PairFor(id) \in Pairs
  BY IdentityAssumption DEF TypeOK, PairFor, Pairs, AccessToken, RefreshToken, Token

\* The record and the call that wrote it.
LEMMA WriteTyped ==
  ASSUME TypeOK, created' = created, now' = now, NEW c \in DOMAIN calls, NEW id \in Key,
         NEW type \in {"New", "Renewed"}, NEW pair \in Pairs, Write(c, id, type, pair)
  PROVE  CallsTyped' /\ (accessLog \in Seq(Record))'
<1> DEFINE r == [account |-> id, access_type |-> type, created |-> now]
           q == [calls[c] EXCEPT !.at = "answer", !.pair = pair, !.record = Len(accessLog) + 1]
<1>1. accessLog' = Append(accessLog, r) /\ accessLog \in Seq(Record)
  BY DEF Write, TypeOK
<1>2. Len(accessLog) + 1 \in Nat
  BY <1>1
<1>3. calls[c] \in Call /\ q \in Call
  <2>1. calls[c] \in Call
    BY DEF TypeOK
  <2>2. ASSUME NEW n \in Nat
        PROVE  [calls[c] EXCEPT !.at = "answer", !.pair = pair, !.record = n] \in Call
    BY <2>1 DEF Call, Pairs
  <2> QED
    BY <1>2, <2>1, <2>2
<1>4. calls' = [calls EXCEPT ![c] = q]
  BY DEF Write
<1>5. r \in Record /\ Record' = Record
  BY DEF Record, Key, TypeOK
<1>6. accessLog' \in Seq(Record')
  BY <1>1, <1>5
<1> HIDE DEF q
<1> QED
  BY <1>3, <1>4, <1>6, CallReplaced

\* What was well typed stays so when rows are added to the table of users, or
\* time passes.
LEMMA TypesGrow ==
  ASSUME TypeOK, created' \in Nat, created <= created', now' \in Nat, now <= now'
  PROVE  /\ Key \subseteq Key' /\ Token \subseteq Token' /\ Pairs \subseteq Pairs'
         /\ Call \subseteq Call' /\ accessLog \in Seq(Record')
         /\ served \subseteq [account : Key', at : 0..now']
<1>1. Key \subseteq Key' /\ 0..now \subseteq 0..now'
  BY DEF TypeOK, Key
<1>2. Token \subseteq Token'
  BY <1>1 DEF Token
<1>3. Pairs \subseteq Pairs' /\ Call \subseteq Call'
  <2>1. AccessToken \subseteq AccessToken' /\ RefreshToken \subseteq RefreshToken'
    BY <1>2 DEF AccessToken, RefreshToken
  <2>2. Pairs \subseteq Pairs'
    BY <2>1 DEF Pairs
  <2>3. Call' = [endpoint : {"authenticate", "renew"}, credentials : Credentials \cup {Malformed},
                 token : Token' \cup {NoToken}, at : Steps,
                 account : {0} \cup Key', pair : Pairs' \cup {NoPair},
                 exception : Exceptions \cup {NoException},
                 record : Nat, once : BOOLEAN, throughout : BOOLEAN]
    BY DEF Call, Steps, Pairs, Credentials
  <2>4. Call = [endpoint : {"authenticate", "renew"}, credentials : Credentials \cup {Malformed},
                token : Token \cup {NoToken}, at : Steps,
                account : {0} \cup Key, pair : Pairs \cup {NoPair},
                exception : Exceptions \cup {NoException},
                record : Nat, once : BOOLEAN, throughout : BOOLEAN]
    BY DEF Call, Steps, Pairs
  <2> QED
    BY <1>1, <1>2, <2>2, <2>3, <2>4
<1>4. Record \subseteq Record'
  BY <1>1 DEF Record
<1>5. accessLog \in Seq(Record')
  BY <1>4 DEF TypeOK
<1>6. served \subseteq [account : Key', at : 0..now']
  BY <1>1 DEF TypeOK
<1> QED
  BY <1>1, <1>2, <1>3, <1>5, <1>6

\* The rows after a change of the administrator, and what the calls see of it.
LEMMA ChangeTyped ==
  ASSUME TypeOK, created' \in Nat, created <= created', accessLog' = accessLog,
         NEW rows, DOMAIN rows \subseteq Key', \A id \in DOMAIN rows : rows[id] \in Account,
         Change(rows)
  PROVE  TypeOK'
<1>1. now' = now /\ held' = held /\ served' = served /\ accounts' = rows /\ changes' \in 0..MaxChanges
  BY IdentityAssumption DEF Change, TypeOK
<1>2. /\ Key \subseteq Key' /\ Token \subseteq Token' /\ Call \subseteq Call'
      /\ accessLog \in Seq(Record')
      /\ served \subseteq [account : Key', at : 0..now']
  BY <1>1, TypesGrow, IdentityAssumption DEF TypeOK
<1>3. CallsTyped'
  <2>1. \A c \in DOMAIN calls : calls[c] \in Call'
    BY <1>2 DEF TypeOK
  <2>2. \A q \in Call' : \A a, b \in BOOLEAN : [q EXCEPT !.once = a, !.throughout = b] \in Call'
    BY DEF Call
  <2>3. \A q \in Call' : q.once \in BOOLEAN /\ q.throughout \in BOOLEAN
    BY DEF Call
  <2> DEFINE seen(c) == Entitled(rows, calls[c].credentials) # {}
  <2>4. \A c \in DOMAIN calls :
          [calls[c] EXCEPT !.once = @ \/ seen(c), !.throughout = @ /\ seen(c)] \in Call'
    BY <2>1, <2>2, <2>3
  <2>5. DOMAIN calls' = DOMAIN calls /\ \A c \in DOMAIN calls : calls'[c] \in Call'
    BY <2>1, <2>4 DEF Change, Observe
  <2> QED
    BY <2>5 DEF CallsTyped, TypeOK
<1>4. held' \subseteq Token'
  BY <1>1, <1>2 DEF TypeOK
<1>5. now' \in 0..MaxTime /\ \A id \in DOMAIN accounts' : accounts'[id] \in Account'
  BY <1>1 DEF TypeOK, Account
<1> QED
  BY <1>1, <1>2, <1>3, <1>4, <1>5 DEF TypeOK, CallsTyped

\* What a step of a call leaves to be shown of TypeOK.
LEMMA TypeOfEndpoint ==
  ASSUME TypeOK, UNCHANGED <<now, table, served>>, CallsTyped',
         (accessLog \in Seq(Record))', held' \subseteq Token
  PROVE  TypeOK'
  BY DEF TypeOK, CallsTyped, table, Key, Token, Record, Account

\* An account is found by its row.
LEMMA FoundTyped ==
  ASSUME TypeOK, NEW c \in DOMAIN calls, FindAccount(c)
  PROVE  CallsTyped'
<1>1. CASE Raise(c, "InvalidLoginException")
  BY <1>1, RaiseTyped DEF Exceptions, AppExceptions, FindAccount, table
<1>2. ASSUME NEW id \in Entitled(accounts, calls[c].credentials),
             calls' = [calls EXCEPT ![c].at = "grant", ![c].account = id]
      PROVE  CallsTyped'
  <2> DEFINE q == [calls[c] EXCEPT !.at = "grant", !.account = id]
  <2>1. id \in Key
    BY DEF Entitled, TypeOK
  <2>2. q \in Call
    BY <2>1 DEF TypeOK, Call
  <2>3. calls' = [calls EXCEPT ![c] = q]
    BY <1>2
  <2> HIDE DEF q
  <2> QED
    BY <2>2, <2>3, CallReplaced DEF FindAccount, table
<1> QED
  BY <1>1, <1>2 DEF FindAccount

\* A renewal makes a pair for the account of its token, or raises.
LEMMA RefreshTyped ==
  ASSUME TypeOK, NEW c \in DOMAIN calls, Refresh(c)
  PROVE  CallsTyped'
<1> DEFINE t == calls[c].token
           q == [calls[c] EXCEPT !.at = "validate", !.account = t.user_id, !.pair = PairFor(t.user_id)]
<1>1. CASE Raise(c, "InvalidRefreshException")
  BY <1>1, RaiseTyped DEF Exceptions, AppExceptions, Refresh, table
<1>2. CASE t # NoToken /\ calls' = [calls EXCEPT ![c].at = "validate", ![c].account = t.user_id,
                                                 ![c].pair = PairFor(t.user_id)]
  <2>1. calls[c] \in Call /\ t \in Token
    BY <1>2 DEF TypeOK, Call
  <2>2. t.user_id \in Key
    BY <2>1 DEF Token
  <2>3. PairFor(t.user_id) \in Pairs
    BY <2>2, PairTyped
  <2>4. q \in Call
    BY <2>1, <2>2, <2>3 DEF Call, Pairs
  <2>5. calls' = [calls EXCEPT ![c] = q]
    BY <1>2
  <2> HIDE DEF q
  <2> QED
    BY <2>4, <2>5, CallReplaced DEF Refresh, table
<1> QED
  BY <1>1, <1>2 DEF Refresh

\* No token says who its user is by name.
LEMMA NoUserAffected ==
  ASSUME TypeOK, NEW t \in Token
  PROVE  AffectedUser(t) = {}
<1>1. Claim(t, "username") = None
  BY DEF Claim, Token
<1>2. \A id \in DOMAIN accounts : accounts[id].username \in Username
  BY DEF TypeOK, Account
<1> QED
  BY <1>1, <1>2, IdentityAssumption DEF AffectedUser

\* So that every renewal is refused.
LEMMA RenewalRefused ==
  ASSUME TypeOK, NEW c \in DOMAIN calls, calls[c].pair \in Pairs, Validate(c)
  PROVE  Raise(c, "InvalidRefreshException") /\ accessLog' = accessLog
<1>1. calls[c].pair.access \in Token
  BY DEF Pairs, AccessToken
<1> QED
  BY <1>1, NoUserAffected DEF Validate

----------------------------------------------------------------------------
(* The invariant.                                                          *)

\* What the place of a call says of its endpoint, its tokens and its exception.
Raised ==
  {"AuthenticationFailed", "ValidationError", "InvalidLoginException", "IntegrityError",
   "InvalidRefreshException"}

PlaceOf(q) ==
  /\ q.at \in {"find", "grant"} => q.endpoint = "authenticate"
  /\ q.at = "validate" => q.endpoint = "renew" /\ q.pair \in Pairs
  /\ q.at \in {"answer", "granted"} => q.endpoint = "authenticate" /\ q.pair \in Pairs
  /\ q.at \in Steps \ {"failed", "lost"} => q.exception = NoException
  /\ q.at = "failed" => q.exception \in Raised
  /\ q.exception \in Raised \cup {NoException}

Places == \A c \in DOMAIN calls : PlaceOf(calls[c])

\* A call under way has the history of what it would be told now.
JudgementOf(q, rows) ==
  /\ q.at \notin Done /\ q.throughout => Entitled(rows, q.credentials) # {}
  /\ q.at \notin Done /\ Entitled(rows, q.credentials) # {} => q.once
  /\ q.at \in {"grant", "answer", "granted"} => q.once
  /\ q.exception = "InvalidLoginException" => ~q.throughout

Judged == \A c \in DOMAIN calls : JudgementOf(calls[c], accounts)

\* The records are of accounts that exist, and of logins.
LogKept ==
  \A i \in DOMAIN accessLog :
    accessLog[i].account \in DOMAIN accounts /\ accessLog[i].access_type = "New"

\* A call with tokens for its client has a record of the same account and time.
RecordedAt(q, i) ==
  /\ i \in DOMAIN accessLog
  /\ accessLog[i].account = q.pair.access.user_id
  /\ accessLog[i].account = q.pair.refresh.user_id
  /\ q.pair.access.exp = accessLog[i].created + AccessLifetime

Recorded ==
  \A c \in DOMAIN calls : calls[c].at \in {"answer", "granted"} =>
    /\ RecordedAt(calls[c], calls[c].record)
    /\ \A d \in DOMAIN calls :
         d # c /\ calls[d].at \in {"answer", "granted"} => calls[d].record # calls[c].record

\* An access token in use was made with a record of its account.
Vouched ==
  \A t \in held : t.token_type = "access" =>
    \E i \in DOMAIN accessLog :
      accessLog[i].account = t.user_id /\ t.exp = accessLog[i].created + AccessLifetime

IdentityInv ==
  /\ TypeOK /\ Places /\ Judged /\ LogKept /\ Recorded /\ Vouched
  /\ ServedAfterRecentLogin

\* No calls, no records.
LEMMA IdentityInit == Init => IdentityInv
  BY TypeInit DEF Init, IdentityInv, Places, Judged, LogKept, Recorded, Vouched,
     ServedAfterRecentLogin

\* Accounts, records and tokens keep their types as keys and time grow.
LEMMA TypeStep ==
  ASSUME TypeOK, Places, [Next]_vars
  PROVE  TypeOK'
<1>1. CASE UNCHANGED vars
  BY <1>1 DEF vars, table, TypeOK, Key, Account, Record, Token, Call, AccessToken, RefreshToken
<1>2. ASSUME NEW c \in Request, NEW token \in held \cup {NoToken},
             NEW credentials \in Credentials \cup {Malformed},
             NEW endpoint \in {"authenticate", "renew"},
             Arrive(c, endpoint, credentials, token)
      PROVE  TypeOK'
  <2>1. token \in Token \cup {NoToken}
    BY DEF TypeOK
  <2>2. c \notin DOMAIN calls /\ UNCHANGED <<now, table, accessLog, held, served>>
    BY <1>2 DEF Arrive
  <2>3. Call' = Call /\ Token' = Token /\ Record' = Record /\ Key' = Key
    BY <2>2 DEF table, Call, Key, AccessToken, RefreshToken, Token, Record
  <2>4. calls'[c] \in Call /\ DOMAIN calls' = DOMAIN calls \cup {c}
        /\ \A d \in DOMAIN calls : calls'[d] = calls[d]
    BY <1>2, <2>1, <2>2 DEF Arrive, Call
  <2>5. CallsTyped'
    BY <2>3, <2>4 DEF CallsTyped, TypeOK
  <2> QED
    BY <2>2, <2>3, <2>5, TypeOfEndpoint DEF TypeOK
<1>3. ASSUME NEW c \in DOMAIN calls, Endpoint(c)
      PROVE  TypeOK'
  <2>1. CallsTyped' /\ (accessLog \in Seq(Record))' /\ held' \subseteq Token
        /\ UNCHANGED <<now, table, served>>
    <3>1. CASE CheckHeader(c)
      <4>1. created' = created /\ accessLog' = accessLog /\ held' = held
            /\ UNCHANGED <<now, table, served>>
        BY <3>1 DEF CheckHeader, table
      <4>2. CallsTyped'
        BY <3>1, <4>1, GoToTyped, RaiseTyped DEF CheckHeader, Steps, Exceptions, APIExceptions
      <4> QED
        BY <4>1, <4>2 DEF TypeOK, Record, Key, table
    <3>2. CASE FindAccount(c)
      BY <3>2, FoundTyped DEF FindAccount, TypeOK, Record, Key, table
    <3>3. CASE Grant(c)
      <4>1. created' = created /\ held' = held /\ UNCHANGED <<now, table, served>>
        BY <3>3 DEF Grant, table
      <4>2. CASE calls[c].account \in DOMAIN accounts
        <5>1. calls[c].account \in Key
          BY <4>2 DEF TypeOK
        <5>2. Write(c, calls[c].account, "New", PairFor(calls[c].account))
          BY <3>3, <4>2 DEF Grant
        <5> QED
          BY <4>1, <5>1, <5>2, PairTyped, WriteTyped DEF TypeOK
      <4>3. CASE Raise(c, "IntegrityError") /\ accessLog' = accessLog
        BY <4>1, <4>3, RaiseTyped DEF Exceptions, TypeOK, Record, Key
      <4> QED
        BY <3>3, <4>2, <4>3 DEF Grant
    <3>4. CASE Refresh(c)
      BY <3>4, RefreshTyped DEF Refresh, TypeOK, Record, Key, table
    <3>5. CASE Validate(c)
      <4>1. Raise(c, "InvalidRefreshException") /\ accessLog' = accessLog
        BY <3>5, RenewalRefused DEF Places, PlaceOf, Validate
      <4> QED
        BY <3>5, <4>1, RaiseTyped DEF Validate, Exceptions, AppExceptions, TypeOK, Record, Key, table
    <3>6. CASE Answer(c)
      <4>1. {calls[c].pair.access, calls[c].pair.refresh} \subseteq Token
        BY <3>6 DEF Answer, Places, PlaceOf, Pairs, AccessToken, RefreshToken
      <4> QED
        BY <3>6, <4>1, GoToTyped DEF Answer, Steps, TypeOK, Record, Key, table
    <3>7. CASE Lose(c)
      BY <3>7, GoToTyped DEF Lose, Steps, TypeOK, Record, Key, table
    <3> QED
      BY <1>3, <3>1, <3>2, <3>3, <3>4, <3>5, <3>6, <3>7 DEF Endpoint
  <2> QED
    BY <2>1, TypeOfEndpoint
<1>4. ASSUME NEW token \in held, Serve(token)
      PROVE  TypeOK'
  <2>1. token.user_id \in Key /\ now \in 0..now
    BY <1>4 DEF Serve, TypeOK, Token
  <2> QED
    BY <1>4, <2>1 DEF Serve, table, TypeOK, Key, Account, Record, Token, Call, AccessToken,
       RefreshToken
<1>5. CASE Administration
  <2>1. ASSUME NEW u \in Username, NEW p \in Password, AdminCreateAccount(u, p)
        PROVE  TypeOK'
    <3> DEFINE rows == [id \in DOMAIN accounts \cup {created + 1} |->
                 IF id = created + 1 THEN [username |-> u, password |-> p, is_active |-> TRUE]
                 ELSE accounts[id]]
    <3>1. Change(rows) /\ created' = created + 1 /\ accessLog' = accessLog
      BY <2>1 DEF AdminCreateAccount
    <3>2. DOMAIN rows \subseteq Key' /\ created' \in Nat /\ created <= created'
      BY <3>1 DEF TypeOK, Key
    <3>3. \A id \in DOMAIN rows : rows[id] \in Account
      BY DEF TypeOK, Account
    <3> HIDE DEF rows
    <3> QED
      BY <3>1, <3>2, <3>3, ChangeTyped
  <2>2. ASSUME NEW id \in DOMAIN accounts, NEW rows, Change(rows), DOMAIN rows \subseteq DOMAIN accounts,
               \A k \in DOMAIN rows : rows[k] \in Account, UNCHANGED <<created, accessLog>>
        PROVE  TypeOK'
    <3>1. DOMAIN rows \subseteq Key' /\ created' \in Nat /\ created <= created'
      BY <2>2 DEF TypeOK, Key
    <3> QED
      BY <2>2, <3>1, ChangeTyped
  <2>3. ASSUME NEW id \in DOMAIN accounts, NEW p \in Password, AdminSetPassword(id, p)
        PROVE  TypeOK'
    <3>1. \A k \in DOMAIN accounts : [accounts EXCEPT ![id].password = p][k] \in Account
      BY DEF TypeOK, Account
    <3> QED
      BY <2>2, <2>3, <3>1 DEF AdminSetPassword
  <2>4. ASSUME NEW id \in DOMAIN accounts, NEW active \in BOOLEAN, AdminSetActive(id, active)
        PROVE  TypeOK'
    <3>1. \A k \in DOMAIN accounts : [accounts EXCEPT ![id].is_active = active][k] \in Account
      BY DEF TypeOK, Account
    <3> QED
      BY <2>2, <2>4, <3>1 DEF AdminSetActive
  <2>5. ASSUME NEW id \in DOMAIN accounts, AdminDeleteAccount(id)
        PROVE  TypeOK'
    <3>1. DOMAIN Without(id) \subseteq DOMAIN accounts
          /\ \A k \in DOMAIN Without(id) : Without(id)[k] \in Account
      BY DEF TypeOK, Without
    <3> QED
      BY <2>2, <2>5, <3>1 DEF AdminDeleteAccount
  <2> QED
    BY <1>5, <2>1, <2>3, <2>4, <2>5 DEF Administration
<1>6. CASE Tick
  <2>1. now' \in 0..MaxTime /\ now <= now' /\ created' = created
    BY <1>6, IdentityAssumption DEF Tick, TypeOK, table
  <2>2. /\ Key \subseteq Key' /\ Token \subseteq Token' /\ Call \subseteq Call'
        /\ accessLog \in Seq(Record') /\ served \subseteq [account : Key', at : 0..now']
    BY <2>1, TypesGrow, IdentityAssumption DEF TypeOK
  <2> QED
    BY <1>6, <2>1, <2>2 DEF Tick, TypeOK, table, Account
<1> QED
  BY <1>1, <1>2, <1>3, <1>4, <1>5, <1>6 DEF Next

\* What a step of a call does to it: its endpoint and credentials stay, and its
\* place, its tokens and its record are as its invariants want them.
Advances(c) ==
  LET q == calls[c]
      n == calls'[c]
  IN  /\ DOMAIN calls' = DOMAIN calls
      /\ \A d \in DOMAIN calls : d # c => calls'[d] = calls[d]
      /\ n.endpoint = q.endpoint /\ n.credentials = q.credentials
      /\ n.once = q.once /\ n.throughout = q.throughout
      /\ UNCHANGED <<now, table, served>>
      /\ q.at \notin {"granted", "lost"} /\ (q.at = "failed" => n.at = "lost")

Raises(c) ==
  /\ calls[c].at \in {"check", "find", "grant", "validate"}
  /\ calls'[c].at = "failed" /\ calls'[c].exception \in Raised
  /\ calls'[c].exception = "InvalidLoginException" => Entitled(accounts, calls[c].credentials) = {}
  /\ UNCHANGED <<accessLog, held>>

Proceeds(c) ==
  LET q == calls[c]
      n == calls'[c]
  IN  /\ n.exception = q.exception /\ UNCHANGED <<accessLog, held>>
      /\ \/ q.at = "check" /\ n.at = "find" /\ n.endpoint = "authenticate"
         \/ /\ q.at = "find" /\ n.at = "grant"
            /\ Entitled(accounts, q.credentials) # {}
         \/ q.at = "check" /\ n.at = "validate" /\ n.endpoint = "renew" /\ n.pair \in Pairs
         \/ q.at \in {"answer", "failed"} /\ n.at = "lost"

Grants(c) ==
  LET q == calls[c]
      n == calls'[c]
  IN  /\ q.at = "grant" /\ n.at = "answer" /\ n.exception = q.exception
      /\ q.account \in DOMAIN accounts /\ n.pair \in Pairs
      /\ accessLog' = Append(accessLog, [account |-> q.account, access_type |-> "New", created |-> now])
      /\ n.record = Len(accessLog) + 1
      /\ n.pair.access.user_id = q.account /\ n.pair.refresh.user_id = q.account
      /\ n.pair.access.exp = now + AccessLifetime
      /\ held' = held

Delivers(c) ==
  LET q == calls[c]
      n == calls'[c]
  IN  /\ q.at = "answer" /\ n.at = "granted" /\ n.exception = q.exception
      /\ n.pair = q.pair /\ n.record = q.record
      /\ held' = held \cup {q.pair.access, q.pair.refresh} /\ accessLog' = accessLog

\* Raising moves one request alone.
LEMMA RaiseAdvances ==
  ASSUME TypeOK, NEW c \in DOMAIN calls, NEW ex \in Raised, Raise(c, ex),
         calls[c].at \in {"check", "find", "grant", "validate"},
         ex = "InvalidLoginException" => Entitled(accounts, calls[c].credentials) = {},
         UNCHANGED <<now, table, accessLog, held, served>>
  PROVE  Advances(c) /\ Raises(c)
  BY DEF Raise, Advances, Raises, TypeOK, Call

\* Going on moves one request alone.
LEMMA GoToAdvances ==
  ASSUME TypeOK, NEW c \in DOMAIN calls, NEW step \in Steps, GoTo(c, step),
         calls[c].at \notin {"granted", "lost"}, calls[c].at = "failed" => step = "lost",
         UNCHANGED <<now, table, served>>
  PROVE  /\ Advances(c) /\ calls'[c].at = step /\ calls'[c].exception = calls[c].exception
         /\ calls'[c].pair = calls[c].pair /\ calls'[c].record = calls[c].record
  BY DEF GoTo, Advances, TypeOK, Call

\* A step of an endpoint is one of these.
LEMMA EndpointSteps ==
  ASSUME TypeOK, Places, NEW c \in DOMAIN calls, Endpoint(c)
  PROVE  Advances(c) /\ (Raises(c) \/ Proceeds(c) \/ Grants(c) \/ Delivers(c))
<1> USE DEF Advances
<1>0. calls[c] \in Call /\ calls[c].at \in Steps
  BY DEF TypeOK, Call, Steps
<1>1. CASE CheckHeader(c)
  <2>1. calls[c].at = "check" /\ calls[c].endpoint = "authenticate"
        /\ UNCHANGED <<now, table, accessLog, held, served>>
    BY <1>1 DEF CheckHeader
  <2>2. CASE GoTo(c, "find")
    BY <2>1, <2>2, GoToAdvances DEF Steps, Proceeds
  <2>3. CASE Raise(c, "AuthenticationFailed") \/ Raise(c, "ValidationError")
    BY <2>1, <2>3, RaiseAdvances DEF Raised
  <2> QED
    BY <1>1, <2>2, <2>3 DEF CheckHeader
<1>2. CASE FindAccount(c)
  <2>1. calls[c].at = "find" /\ UNCHANGED <<now, table, accessLog, held, served>>
    BY <1>2 DEF FindAccount
  <2>2. CASE Entitled(accounts, calls[c].credentials) = {} /\ Raise(c, "InvalidLoginException")
    BY <2>1, <2>2, RaiseAdvances DEF Raised
  <2>3. ASSUME NEW id \in Entitled(accounts, calls[c].credentials),
               calls' = [calls EXCEPT ![c].at = "grant", ![c].account = id]
        PROVE  Advances(c) /\ Proceeds(c)
    <3> DEFINE q == [calls[c] EXCEPT !.at = "grant", !.account = id]
    <3>1. /\ q.at = "grant" /\ q.exception = calls[c].exception
          /\ q.endpoint = calls[c].endpoint /\ q.credentials = calls[c].credentials
          /\ q.once = calls[c].once /\ q.throughout = calls[c].throughout
      BY <1>0 DEF Call
    <3>2. DOMAIN calls' = DOMAIN calls /\ calls'[c] = q
          /\ \A d \in DOMAIN calls : d # c => calls'[d] = calls[d]
      BY <2>3
    <3> HIDE DEF q
    <3> QED
      BY <2>1, <2>3, <3>1, <3>2 DEF Proceeds
  <2> QED
    BY <1>2, <2>2, <2>3 DEF FindAccount
<1>3. CASE Grant(c)
  <2>1. CASE calls[c].account \in DOMAIN accounts
    <3> DEFINE id == calls[c].account
               q  == [calls[c] EXCEPT !.at = "answer", !.pair = PairFor(id),
                                      !.record = Len(accessLog) + 1]
    <3>1. id \in Key /\ PairFor(id) \in Pairs
      BY <2>1, PairTyped DEF TypeOK
    <3>2. /\ calls' = [calls EXCEPT ![c] = q] /\ UNCHANGED <<now, table, held, served>>
          /\ calls[c].at = "grant"
          /\ accessLog' = Append(accessLog, [account |-> id, access_type |-> "New", created |-> now])
      BY <1>3, <2>1 DEF Grant, Write
    <3>3. /\ q.at = "answer" /\ q.pair = PairFor(id) /\ q.record = Len(accessLog) + 1
          /\ q.endpoint = calls[c].endpoint /\ q.credentials = calls[c].credentials
          /\ q.once = calls[c].once /\ q.throughout = calls[c].throughout
          /\ q.exception = calls[c].exception
      BY <1>0 DEF Call
    <3>4. /\ PairFor(id).access.user_id = id /\ PairFor(id).refresh.user_id = id
          /\ PairFor(id).access.exp = now + AccessLifetime
      BY DEF PairFor
    <3>5. DOMAIN calls' = DOMAIN calls /\ calls'[c] = q
          /\ \A d \in DOMAIN calls : d # c => calls'[d] = calls[d]
      BY <3>2
    <3> HIDE DEF q
    <3> QED
      BY <2>1, <3>1, <3>2, <3>3, <3>4, <3>5 DEF Grants
  <2>2. CASE Raise(c, "IntegrityError") /\ accessLog' = accessLog
    BY <1>0, <1>3, <2>2 DEF Grant, Raise, Raises, Raised, Call
  <2> QED
    BY <1>3, <2>1, <2>2 DEF Grant
<1>4. CASE Refresh(c)
  <2>1. CASE Raise(c, "InvalidRefreshException")
    BY <1>0, <1>4, <2>1 DEF Refresh, Raise, Raises, Raised, Call
  <2>2. CASE ~Raise(c, "InvalidRefreshException")
    <3> DEFINE id == calls[c].token.user_id
               q  == [calls[c] EXCEPT !.at = "validate", !.account = id, !.pair = PairFor(id)]
    <3>1. calls' = [calls EXCEPT ![c] = q] /\ calls[c].token # NoToken
      BY <1>4, <2>2 DEF Refresh
    <3>2. id \in Key
      BY <1>0, <3>1 DEF Call, Token
    <3>3. /\ q.at = "validate" /\ q.pair = PairFor(id) /\ q.exception = calls[c].exception
          /\ q.endpoint = calls[c].endpoint /\ q.credentials = calls[c].credentials
          /\ q.once = calls[c].once /\ q.throughout = calls[c].throughout
      BY <1>0 DEF Call
    <3>4. DOMAIN calls' = DOMAIN calls /\ calls'[c] = q
          /\ \A d \in DOMAIN calls : d # c => calls'[d] = calls[d]
      BY <3>1
    <3> HIDE DEF q
    <3> QED
      BY <1>4, <3>2, <3>3, <3>4, PairTyped DEF Refresh, Proceeds
  <2> QED
    BY <2>1, <2>2
<1>5. CASE Validate(c)
  <2>1. Raise(c, "InvalidRefreshException") /\ accessLog' = accessLog
    BY <1>5, RenewalRefused DEF Places, PlaceOf, Validate
  <2> QED
    BY <1>0, <1>5, <2>1 DEF Validate, Raise, Raises, Raised, Call
<1>6. CASE Answer(c)
  BY <1>0, <1>6 DEF Answer, GoTo, Delivers, Call
<1>7. CASE Lose(c)
  BY <1>0, <1>7 DEF Lose, GoTo, Proceeds, Call
<1> QED
  BY <1>1, <1>2, <1>3, <1>4, <1>5, <1>6, <1>7 DEF Endpoint

\* A step of the administrator: the accounts that go have no record.
Administers(rows) ==
  /\ Change(rows) /\ accessLog' = accessLog /\ created' \in {created, created + 1}
  /\ \A i \in DOMAIN accessLog : accessLog[i].account \in DOMAIN accounts =>
       accessLog[i].account \in DOMAIN rows

\* What the administrator leaves alone.
LEMMA AdministrationSteps ==
  ASSUME Administration
  PROVE  \E rows : Administers(rows)
<1>1. ASSUME NEW u \in Username, NEW p \in Password, AdminCreateAccount(u, p)
      PROVE  \E rows : Administers(rows)
  <2> DEFINE rows == [id \in DOMAIN accounts \cup {created + 1} |->
               IF id = created + 1 THEN [username |-> u, password |-> p, is_active |-> TRUE]
               ELSE accounts[id]]
  <2>1. /\ Change(rows) /\ accessLog' = accessLog /\ created' = created + 1
        /\ DOMAIN accounts \subseteq DOMAIN rows
    BY <1>1 DEF AdminCreateAccount
  <2> HIDE DEF rows
  <2> QED
    BY <2>1 DEF Administers
<1>2. ASSUME NEW id \in DOMAIN accounts, NEW p \in Password, AdminSetPassword(id, p)
      PROVE  \E rows : Administers(rows)
  <2>1. Administers([accounts EXCEPT ![id].password = p])
    BY <1>2 DEF AdminSetPassword, Administers
  <2> QED
    BY <2>1
<1>3. ASSUME NEW id \in DOMAIN accounts, NEW active \in BOOLEAN, AdminSetActive(id, active)
      PROVE  \E rows : Administers(rows)
  <2>1. Administers([accounts EXCEPT ![id].is_active = active])
    BY <1>3 DEF AdminSetActive, Administers
  <2> QED
    BY <2>1
<1>4. ASSUME NEW id \in DOMAIN accounts, AdminDeleteAccount(id)
      PROVE  \E rows : Administers(rows)
  <2>1. DOMAIN Without(id) = DOMAIN accounts \ {id}
    BY DEF Without
  <2>2. Administers(Without(id))
    BY <1>4, <2>1 DEF AdminDeleteAccount, Administers
  <2> QED
    BY <2>2
<1> QED
  BY <1>1, <1>2, <1>3, <1>4 DEF Administration

\* What a change of the table does to a call: its history, while it is under way.
LEMMA Observed ==
  ASSUME TypeOK, NEW rows, Change(rows)
  PROVE  /\ DOMAIN calls' = DOMAIN calls
         /\ \A c \in DOMAIN calls :
              LET q == calls[c]
                  n == calls'[c]
              IN  /\ n.endpoint = q.endpoint /\ n.credentials = q.credentials /\ n.at = q.at
                  /\ n.pair = q.pair /\ n.exception = q.exception /\ n.record = q.record
                  /\ q.at \in Done => n.throughout = q.throughout /\ n.once = q.once
                  /\ q.at \notin Done =>
                       /\ n.throughout <=> q.throughout /\ Entitled(rows, q.credentials) # {}
                       /\ n.once <=> q.once \/ Entitled(rows, q.credentials) # {}
<1>1. DOMAIN calls' = DOMAIN calls
  BY DEF Change, Observe
<1>2. ASSUME NEW c \in DOMAIN calls
      PROVE  LET q == calls[c]
                 n == calls'[c]
             IN  /\ n.endpoint = q.endpoint /\ n.credentials = q.credentials /\ n.at = q.at
                 /\ n.pair = q.pair /\ n.exception = q.exception /\ n.record = q.record
                 /\ q.at \in Done => n.throughout = q.throughout /\ n.once = q.once
                 /\ q.at \notin Done =>
                      /\ n.throughout <=> q.throughout /\ Entitled(rows, q.credentials) # {}
                      /\ n.once <=> q.once \/ Entitled(rows, q.credentials) # {}
  <2> DEFINE seen == Entitled(rows, calls[c].credentials) # {}
  <2>1. calls'[c] = IF calls[c].at \in Done THEN calls[c]
                    ELSE [calls[c] EXCEPT !.once = @ \/ seen, !.throughout = @ /\ seen]
    BY DEF Change, Observe
  <2>2. calls[c] \in Call
    BY DEF TypeOK
  <2> HIDE DEF seen
  <2>3. CASE calls[c].at \in Done
    BY <2>1, <2>3
  <2>4. CASE calls[c].at \notin Done
    <3>1. calls'[c] = [calls[c] EXCEPT !.once = @ \/ seen, !.throughout = @ /\ seen]
      BY <2>1, <2>4
    <3>2. /\ calls'[c].endpoint = calls[c].endpoint
          /\ calls'[c].credentials = calls[c].credentials /\ calls'[c].at = calls[c].at
          /\ calls'[c].pair = calls[c].pair /\ calls'[c].exception = calls[c].exception
          /\ calls'[c].record = calls[c].record
          /\ calls'[c].once = (calls[c].once \/ seen)
          /\ calls'[c].throughout = (calls[c].throughout /\ seen)
      BY <2>2, <3>1 DEF Call
    <3> QED
      BY <2>4, <3>2 DEF seen
  <2> QED
    BY <2>3, <2>4
<1> QED
  BY <1>1, <1>2

\* A call that has just come.
Arrives(c) ==
  /\ c \notin DOMAIN calls /\ DOMAIN calls' = DOMAIN calls \cup {c}
  /\ \A d \in DOMAIN calls : calls'[d] = calls[d]
  /\ calls'[c].at = "check" /\ calls'[c].exception = NoException
  /\ calls'[c].once <=> Entitled(accounts, calls'[c].credentials) # {}
  /\ calls'[c].throughout <=> Entitled(accounts, calls'[c].credentials) # {}
  /\ UNCHANGED <<now, table, accessLog, held, served>>

\* And a step that no call takes part in.
Aside ==
  /\ UNCHANGED <<table, accessLog, held, calls>> /\ now <= now'
  /\ served' = served \/ \E token \in held : Serve(token)

\* Every step is one of these.
LEMMA NextSteps ==
  ASSUME TypeOK, Places, [Next]_vars
  PROVE  \/ \E c \in Request : Arrives(c)
         \/ \E c \in DOMAIN calls :
              Advances(c) /\ (Raises(c) \/ Proceeds(c) \/ Grants(c) \/ Delivers(c))
         \/ \E rows : Administers(rows)
         \/ Aside
<1>1. ASSUME NEW c \in Request, NEW endpoint, NEW credentials, NEW token,
             Arrive(c, endpoint, credentials, token)
      PROVE  Arrives(c)
  BY <1>1 DEF Arrive, Arrives
<1>2. ASSUME NEW token \in held, Serve(token)
      PROVE  Aside
  BY <1>2 DEF Serve, Aside, TypeOK
<1>3. CASE Tick
  BY <1>3 DEF Tick, Aside, TypeOK
<1>4. CASE UNCHANGED vars
  BY <1>4 DEF vars, Aside, TypeOK
<1> QED
  BY <1>1, <1>2, <1>3, <1>4, EndpointSteps, AdministrationSteps DEF Next

\* Each step of an endpoint leaves its request where that endpoint can be.
LEMMA PlacesStep ==
  ASSUME TypeOK, Places, [Next]_vars
  PROVE  Places'
<1> USE IdentityAssumption
<1>1. ASSUME NEW c \in Request, Arrives(c)
      PROVE  Places'
  BY <1>1 DEF Arrives, Places, PlaceOf, Raised, Steps, table, Pairs, Token, Key, AccessToken,
     RefreshToken, Exceptions
<1>2. ASSUME NEW c \in DOMAIN calls, Advances(c),
             Raises(c) \/ Proceeds(c) \/ Grants(c) \/ Delivers(c)
      PROVE  Places'
  <2>1. Pairs' = Pairs
    BY <1>2 DEF Advances, table, Pairs, Token, Key, AccessToken, RefreshToken
  <2>2. PlaceOf(calls[c]) /\ calls[c].at \in Steps
    BY DEF Places, TypeOK, Call, Steps
  <2>3. PlaceOf(calls[c])' 
    BY <1>2, <2>1, <2>2 DEF Advances, Raises, Proceeds, Grants, Delivers, PlaceOf, Raised,
       Steps, Exceptions
  <2> QED
    BY <1>2, <2>1, <2>3 DEF Advances, Places, PlaceOf
<1>3. ASSUME NEW rows, Administers(rows)
      PROVE  Places'
  <2>1. Pairs \subseteq Pairs'
    BY <1>3, TypesGrow DEF Administers, Change, TypeOK
  <2> QED
    BY <1>3, <2>1, Observed DEF Administers, Places, PlaceOf
<1>4. CASE Aside
  BY <1>4 DEF Aside, Places, PlaceOf, table, Pairs, Token, Key, AccessToken, RefreshToken
<1> QED
  BY <1>1, <1>2, <1>3, <1>4, NextSteps

\* Verdicts stay right: the history of a request only gains moments.
LEMMA JudgedStep ==
  ASSUME TypeOK, Places, Judged, [Next]_vars
  PROVE  Judged'
<1> USE DEF Done
<1>1. ASSUME NEW c \in Request, Arrives(c)
      PROVE  Judged'
  BY <1>1, IdentityAssumption DEF Arrives, Judged, JudgementOf, table, Exceptions, AppExceptions
<1>2. ASSUME NEW c \in DOMAIN calls, Advances(c),
             Raises(c) \/ Proceeds(c) \/ Grants(c) \/ Delivers(c)
      PROVE  Judged'
  <2>1. JudgementOf(calls[c], accounts) /\ PlaceOf(calls[c]) /\ calls[c].at \in Steps
    BY DEF Judged, Places, TypeOK, Call, Steps
  <2>2. JudgementOf(calls'[c], accounts)
    BY <1>2, <2>1, IdentityAssumption DEF Advances, Raises, Proceeds, Grants, Delivers,
       JudgementOf, PlaceOf, Steps, Exceptions, AppExceptions
  <2> QED
    BY <1>2, <2>2 DEF Advances, Judged, table
<1>3. ASSUME NEW rows, Administers(rows)
      PROVE  Judged'
  <2>1. accounts' = rows /\ Change(rows)
    BY <1>3 DEF Administers, Change
  <2> SUFFICES ASSUME NEW c \in DOMAIN calls
               PROVE  JudgementOf(calls'[c], rows)
    BY <2>1, Observed DEF Judged
  <2>2. JudgementOf(calls[c], accounts) /\ PlaceOf(calls[c]) /\ calls[c].at \in Steps
    BY DEF Judged, Places, TypeOK, Call, Steps
  <2> QED
    BY <2>1, <2>2, Observed, IdentityAssumption DEF JudgementOf, PlaceOf, Steps, Exceptions,
       AppExceptions
<1>4. CASE Aside
  BY <1>4 DEF Aside, Judged, table
<1> QED
  BY <1>1, <1>2, <1>3, <1>4, NextSteps

\* The log only grows.
LogExtended ==
  /\ Len(accessLog) <= Len(accessLog') /\ accessLog \in Seq(Record)
  /\ DOMAIN accessLog = 1..Len(accessLog) /\ DOMAIN accessLog' = 1..Len(accessLog')
  /\ \A i \in DOMAIN accessLog : i \in DOMAIN accessLog' /\ accessLog'[i] = accessLog[i]

\* The log keeps its records, in their places.
LEMMA LogGrows ==
  ASSUME TypeOK, Places, [Next]_vars
  PROVE  LogExtended
<1>1. accessLog \in Seq(Record)
  BY DEF TypeOK
<1>2. ASSUME accessLog' # accessLog
      PROVE  \E id \in DOMAIN accounts :
               accessLog' = Append(accessLog, [account |-> id, access_type |-> "New", created |-> now])
  BY <1>2, NextSteps DEF Arrives, Raises, Proceeds, Grants, Delivers, Administers, Aside
<1>3. CASE accessLog' = accessLog
  BY <1>1, <1>3 DEF LogExtended
<1>4. ASSUME NEW r, accessLog' = Append(accessLog, r)
      PROVE  LogExtended
  <2>1. Len(accessLog) \in Nat /\ accessLog \in Seq(Record \cup {r})
    BY <1>1
  <2> QED
    BY <1>1, <1>4, <2>1 DEF LogExtended
<1> QED
  BY <1>2, <1>3, <1>4

\* Records stay with accounts that are there: the only deletion asks for no
\* record.
LEMMA LogKeptStep ==
  ASSUME TypeOK, Places, LogKept, [Next]_vars
  PROVE  LogKept'
<1>1. accessLog \in Seq(Record)
  BY DEF TypeOK
<1>2. ASSUME NEW c \in DOMAIN calls, Advances(c), Grants(c)
      PROVE  LogKept'
  BY <1>1, <1>2 DEF Advances, Grants, LogKept, table
<1>3. ASSUME NEW rows, Administers(rows)
      PROVE  LogKept'
  BY <1>3 DEF Administers, Change, LogKept
<1>4. CASE UNCHANGED <<table, accessLog>>
  BY <1>4 DEF LogKept, table
<1> QED
  BY <1>2, <1>3, <1>4, NextSteps DEF Arrives, Advances, Raises, Proceeds, Delivers, Aside

\* Each access token held or made was made at the time of a record of its
\* account.
LEMMA VouchedStep ==
  ASSUME TypeOK, Places, Recorded, Vouched, [Next]_vars
  PROVE  Vouched'
<1>1. CASE held' = held
  BY <1>1, LogGrows DEF LogExtended, Vouched
<1>2. ASSUME NEW c \in DOMAIN calls, Delivers(c)
      PROVE  Vouched'
  <2>1. RecordedAt(calls[c], calls[c].record)
    BY <1>2 DEF Delivers, Recorded
  <2>2. PlaceOf(calls[c]) /\ calls[c].pair.refresh.token_type = "refresh"
    BY <1>2 DEF Delivers, Places, PlaceOf, Pairs, RefreshToken
  <2> QED
    BY <1>2, <2>1, <2>2 DEF Delivers, Vouched, RecordedAt
<1> QED
  BY <1>1, <1>2, NextSteps DEF Arrives, Raises, Proceeds, Grants, Administers, Change, Aside

\* Who is admitted has an unexpired token, which a record vouches for.
LEMMA ServedStep ==
  ASSUME TypeOK, Places, LogKept, Vouched, ServedAfterRecentLogin, [Next]_vars
  PROVE  ServedAfterRecentLogin'
<1>1. CASE served' = served
  BY <1>1, LogGrows DEF LogExtended, ServedAfterRecentLogin
<1>2. ASSUME NEW token \in held, Serve(token)
      PROVE  ServedAfterRecentLogin'
  <2>1. PICK i \in DOMAIN accessLog :
          accessLog[i].account = token.user_id /\ token.exp = accessLog[i].created + AccessLifetime
    BY <1>2 DEF Serve, Admitted, Unexpired, Vouched
  <2>2. accessLog[i].access_type = "New" /\ accessLog[i].created \in 0..now
    <3>1. accessLog[i] \in Record
      BY DEF TypeOK
    <3> QED
      BY <3>1 DEF LogKept, Record
  <2>3. now < accessLog[i].created + AccessLifetime /\ accessLog[i].created <= now
    BY <1>2, <2>1, <2>2, IdentityAssumption DEF Serve, Admitted, Unexpired, TypeOK, Token
  <2> QED
    BY <1>2, <2>1, <2>2, <2>3 DEF Serve, ServedAfterRecentLogin
<1> QED
  BY <1>1, <1>2, NextSteps DEF Arrives, Advances, Administers, Change, Aside

\* The record of a pair is the one its own request wrote.
LEMMA RecordedStep ==
  ASSUME TypeOK, Places, Recorded, [Next]_vars
  PROVE  Recorded'
<1> DEFINE Kept(c) == c \in DOMAIN calls /\ calls[c].at \in {"answer", "granted"}
<1>0. ASSUME NEW q, NEW i, RecordedAt(q, i)
      PROVE  RecordedAt(q, i)'
  BY <1>0, LogGrows DEF LogExtended, RecordedAt
<1>1. CASE \A c \in DOMAIN calls' : calls'[c].at \in {"answer", "granted"} =>
             Kept(c) /\ calls'[c].pair = calls[c].pair /\ calls'[c].record = calls[c].record
  <2> SUFFICES ASSUME NEW c \in DOMAIN calls', calls'[c].at \in {"answer", "granted"}
               PROVE  /\ RecordedAt(calls[c], calls[c].record)
                      /\ \A d \in DOMAIN calls :
                           d # c /\ calls[d].at \in {"answer", "granted"} =>
                             calls[d].record # calls[c].record
    BY <1>0, <1>1 DEF Recorded, RecordedAt
  <2> QED
    BY <1>1 DEF Recorded
<1>2. ASSUME NEW c \in DOMAIN calls, Advances(c), Grants(c)
      PROVE  Recorded'
  <2>1. /\ Len(accessLog) \in Nat /\ DOMAIN accessLog = 1..Len(accessLog)
        /\ Len(accessLog') = Len(accessLog) + 1
        /\ accessLog'[Len(accessLog) + 1] =
             [account |-> calls[c].account, access_type |-> "New", created |-> now]
        /\ DOMAIN accessLog' = 1..Len(accessLog')
    BY <1>2 DEF Grants, TypeOK
  <2>2. RecordedAt(calls[c], calls[c].record)' /\ calls'[c].record = Len(accessLog) + 1
    BY <1>2, <2>1 DEF Grants, RecordedAt
  <2>3. \A d \in DOMAIN calls : d # c /\ calls[d].at \in {"answer", "granted"} =>
          /\ RecordedAt(calls[d], calls[d].record) /\ RecordedAt(calls[d], calls[d].record)'
          /\ calls[d].record # Len(accessLog) + 1
    <3> SUFFICES ASSUME NEW d \in DOMAIN calls, d # c, calls[d].at \in {"answer", "granted"}
                 PROVE  /\ RecordedAt(calls[d], calls[d].record)
                        /\ RecordedAt(calls[d], calls[d].record)'
                        /\ calls[d].record # Len(accessLog) + 1
      OBVIOUS
    <3>1. RecordedAt(calls[d], calls[d].record) /\ calls'[d] = calls[d]
      BY <1>2 DEF Recorded, Advances
    <3>2. RecordedAt(calls[d], calls[d].record)'
      BY <3>1, LogGrows DEF LogExtended, RecordedAt
    <3> QED
      BY <2>1, <3>1, <3>2 DEF RecordedAt
  <2>4. DOMAIN calls' = DOMAIN calls /\ \A d \in DOMAIN calls : d # c => calls'[d] = calls[d]
    BY <1>2 DEF Advances
  <2> QED
    BY <2>2, <2>3, <2>4 DEF Recorded
<1>3. ASSUME NEW c \in Request, Arrives(c)
      PROVE  Recorded'
  BY <1>1, <1>3 DEF Arrives
<1>4. ASSUME NEW c \in DOMAIN calls, Advances(c), Raises(c) \/ Proceeds(c) \/ Delivers(c)
      PROVE  Recorded'
  BY <1>1, <1>4 DEF Advances, Raises, Proceeds, Delivers
<1>5. ASSUME NEW rows, Administers(rows)
      PROVE  Recorded'
  BY <1>1, <1>5, Observed DEF Administers
<1>6. CASE Aside
  BY <1>1, <1>6 DEF Aside
<1> QED
  BY <1>2, <1>3, <1>4, <1>5, <1>6, NextSteps

\* Every step preserves the invariant.
LEMMA IdentityStep == IdentityInv /\ [Next]_vars => IdentityInv'
  BY TypeStep, PlacesStep, JudgedStep, LogKeptStep, RecordedStep, VouchedStep, ServedStep
     DEF IdentityInv

\* The inductive invariant holds in every state.
LEMMA IdentityInvariant == Spec => []IdentityInv
  BY IdentityInit, IdentityStep, PTL DEF Spec

----------------------------------------------------------------------------
(* The theorems.                                                           *)

\* Whatever is called and changed, the tables, the tokens and the calls are of
\* their types: in particular a call that goes on has a pair of tokens.
THEOREM IdentityTyped == Spec => []TypeOK
<1>1. IdentityInv => TypeOK
  BY DEF IdentityInv
<1> QED
  BY <1>1, IdentityInvariant, PTL

\* A login is granted or refused as it should be at some moment of the request,
\* however the administrator comes between its statements.
THEOREM LoginsJudged == Spec => []JudgedAsOfSomeMoment
<1>1. IdentityInv => JudgedAsOfSomeMoment
  BY DEF IdentityInv, Judged, JudgementOf, JudgedAsOfSomeMoment
<1> QED
  BY <1>1, IdentityInvariant, PTL

\* Every pair of tokens that was made for a client has a record of its own in
\* the audit log.
THEOREM AllPairsOnRecord == Spec => []PairsOnRecord
<1>1. IdentityInv => PairsOnRecord
  BY DEF IdentityInv, Places, PlaceOf, Recorded, RecordedAt, LogKept, PairsOnRecord
<1> QED
  BY <1>1, IdentityInvariant, PTL

\* The audit log is append-only and its accounts stay.
THEOREM AuditTrail == Spec => AuditTrailKept
<1>1. IdentityInv /\ [Next]_vars =>
        /\ IsPrefix(accessLog, accessLog')
        /\ \A i \in DOMAIN accessLog' : accessLog'[i].account \in DOMAIN accounts'
  <2> SUFFICES ASSUME IdentityInv, [Next]_vars
               PROVE  /\ IsPrefix(accessLog, accessLog')
                      /\ \A i \in DOMAIN accessLog' : accessLog'[i].account \in DOMAIN accounts'
    OBVIOUS
  <2>1. IdentityInv'
    BY IdentityStep
  <2>2. IsPrefix(accessLog, accessLog')
    BY LogGrows DEF IdentityInv, LogExtended, IsPrefix
  <2> QED
    BY <2>1, <2>2 DEF IdentityInv, LogKept
<1> QED
  BY <1>1, IdentityInvariant, PTL DEF Spec, AuditTrailKept

\* A refresh token prolongs nothing: who is served has logged in with a password
\* less than the lifetime of an access token ago.
THEOREM SessionsEnd == Spec => []ServedAfterRecentLogin
<1>1. IdentityInv => ServedAfterRecentLogin
  BY DEF IdentityInv
<1> QED
  BY <1>1, IdentityInvariant, PTL

\* The interceptor understands no answer of the installed handler, and would
\* understand those of custom_exception_handler.
THEOREM FailuresAreTold == Spec => []FailuresTold
<1>1. IdentityInv => FailuresTold
  <2> SUFFICES ASSUME IdentityInv, NEW c \in DOMAIN calls, calls[c].at \in {"failed", "lost"}
               PROVE  LET ex == calls[c].exception
                      IN  /\ Learned(c).kind = "ServerClientError" <=> calls[c].at = "lost"
                          /\ ex # NoException =>
                               OnError(CustomHandler(ex)) =
                                 [kind |-> "ServerClientError",
                                  statusCode |-> CustomHandler(ex).status, appCode |-> AppCode(ex)]
    BY DEF FailuresTold
  <2>1. calls[c].at = "failed" => calls[c].exception \in Raised
    BY DEF IdentityInv, Places, PlaceOf
  <2>2. calls[c].exception \in Raised \cup {NoException}
    BY DEF IdentityInv, Places, PlaceOf
  <2>3. \A ex \in Raised :
          /\ OnError(InstalledHandler(ex)).kind = "DioException"
          /\ OnError(CustomHandler(ex)) =
               [kind |-> "ServerClientError", statusCode |-> CustomHandler(ex).status,
                appCode |-> AppCode(ex)]
    BY DEF Raised, OnError, InstalledHandler, CustomHandler, Plain, HasDetail, APIExceptions,
       NormalisedStatus, NormalisedCode, DetailStatus, OwnStatus, AppCode
  <2> QED
    BY <2>1, <2>2, <2>3 DEF Learned, OnNoAnswer
<1> QED
  BY <1>1, IdentityInvariant, PTL
=============================================================================
