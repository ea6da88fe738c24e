------------------------------ MODULE Identity ------------------------------
(***************************************************************************)
(* The identity endpoints: authenticate, which grants an access and a      *)
(* refresh token for a password, and renew, which trades a refresh token   *)
(* for a new pair; the audit log that both write; the administration of    *)
(* accounts meanwhile; and the requests that the tokens admit.  An action  *)
(* is the code from one statement on the database to the next.             *)
(***************************************************************************)
EXTENDS Integers, Sequences, FiniteSets, SequencesExt, ErrorResponses

CONSTANTS
  Username, Password,
  Request,          \* calls of the two endpoints, each made at most once
  Malformed,        \* a body without username and password
  NoToken,          \* no Authorization header, or no token in the body
  NoPair,           \* no tokens made
  NoException,      \* nothing raised
  None,             \* what a token says of a claim it does not carry
  AccessLifetime, RefreshLifetime,
  MaxTime,          \* bound: the clock
  MaxChanges        \* bound: what the administrator does

ASSUME IdentityAssumption ==
  /\ None \notin Username
  /\ NoException \notin Exceptions
  /\ AccessLifetime \in Nat \ {0}
  /\ RefreshLifetime \in Nat \ {0}
  /\ MaxTime \in Nat
  /\ MaxChanges \in Nat

VARIABLES
  now,        \* the clock
  accounts,   \* the table of users, by primary key
  created,    \* the number of rows it ever had: keys are not used again
  changes,    \* the number of changes made by the administrator
  accessLog,  \* AccountAccessLog, in the order of creation
  held,       \* the tokens that clients hold
  calls,      \* the requests made so far
  served      \* history: the account and the time of every request admitted

table == <<accounts, created, changes>>
vars  == <<now, table, accessLog, held, calls, served>>

Key     == 1..created
Account == [username : Username, password : Password, is_active : BOOLEAN]
Record  == [account : Key, access_type : {"New", "Renewed"}, created : 0..now]

\* Claims: what the tokens of this application say.
Token        == [token_type : {"access", "refresh"}, user_id : Key, exp : Nat]
AccessToken  == {t \in Token : t.token_type = "access"}
RefreshToken == {t \in Token : t.token_type = "refresh"}

Credentials == [username : Username, password : Password]

\* A request.  The last three fields are history: the record that it wrote, and
\* whether an account had its credentials and was active at some time since it
\* came, and at all times.
Call ==
  [endpoint : {"authenticate", "renew"}, credentials : Credentials \cup {Malformed},
   token : Token \cup {NoToken},
   at : {"check", "find", "grant", "validate", "answer", "granted", "failed", "lost"},
   account : {0} \cup Key, pair : [access : AccessToken, refresh : RefreshToken] \cup {NoPair},
   exception : Exceptions \cup {NoException},
   record : Nat, once : BOOLEAN, throughout : BOOLEAN]

TypeOK ==
  /\ now \in 0..MaxTime
  /\ created \in Nat
  /\ changes \in 0..MaxChanges
  /\ DOMAIN accounts \subseteq Key
  /\ \A id \in DOMAIN accounts : accounts[id] \in Account
  /\ accessLog \in Seq(Record)
  /\ held \subseteq Token
  /\ DOMAIN calls \subseteq Request
  /\ \A c \in DOMAIN calls : calls[c] \in Call
  /\ served \subseteq [account : Key, at : 0..now]

Init ==
  /\ now = 0
  /\ accounts = << >>
  /\ created = 0
  /\ changes = 0
  /\ accessLog = << >>
  /\ held = {}
  /\ calls = << >>
  /\ served = {}

----------------------------------------------------------------------------
(* Accounts and tokens.                                                    *)

\* The rows of a table that a login with these credentials may use.
Entitled(rows, credentials) ==
  {id \in DOMAIN rows : credentials # Malformed /\ rows[id].is_active
     /\ rows[id].username = credentials.username /\ rows[id].password = credentials.password}

\* The pair made for an account now.
PairFor(id) ==
  [access  |-> [token_type |-> "access", user_id |-> id, exp |-> now + AccessLifetime],
   refresh |-> [token_type |-> "refresh", user_id |-> id, exp |-> now + RefreshLifetime]]

\* token.get(claim)
Claim(token, claim) == IF claim \in DOMAIN token THEN token[claim] ELSE None

Unexpired(token, type) == token.token_type = type /\ token.exp > now

\* JWTAuthentication: the account of an access token must exist and be active.
Admitted(token) ==
  /\ Unexpired(token, "access")
  /\ token.user_id \in DOMAIN accounts
  /\ accounts[token.user_id].is_active

----------------------------------------------------------------------------
(* The endpoints.                                                          *)

GoTo(c, step) == calls' = [calls EXCEPT ![c].at = step]

Raise(c, ex) == calls' = [calls EXCEPT ![c].at = "failed", ![c].exception = ex]

Arrive(c, endpoint, credentials, token) ==
  /\ c \notin DOMAIN calls
  /\ calls' = [d \in DOMAIN calls \cup {c} |->
       IF d # c THEN calls[d]
       ELSE [endpoint |-> endpoint, credentials |-> credentials, token |-> token,
             at |-> "check", account |-> 0, pair |-> NoPair, exception |-> NoException,
             record |-> 0, once |-> Entitled(accounts, credentials) # {},
             throughout |-> Entitled(accounts, credentials) # {}]]
  /\ UNCHANGED <<now, table, accessLog, held, served>>

\* authenticate is open to all, but a header that is sent is checked; then the
\* body is parsed.
CheckHeader(c) ==
  LET q == calls[c]
  IN  /\ q.endpoint = "authenticate" /\ q.at = "check"
      /\ IF q.token # NoToken /\ ~Admitted(q.token) THEN Raise(c, "AuthenticationFailed")
         ELSE IF q.credentials = Malformed THEN Raise(c, "ValidationError")
         ELSE GoTo(c, "find")
      /\ UNCHANGED <<now, table, accessLog, held, served>>

\* Defect: it does not matter whether the account is active.
FindAnyAccount(c) ==
  LET q    == calls[c]
      rows == Entitled([id \in DOMAIN accounts |-> [accounts[id] EXCEPT !.is_active = TRUE]],
                       q.credentials)
  IN  /\ q.at = "find"
      /\ \/ /\ rows = {}
            /\ Raise(c, "InvalidLoginException")
         \/ \E id \in rows : calls' = [calls EXCEPT ![c].at = "grant", ![c].account = id]
      /\ UNCHANGED <<now, table, accessLog, held, served>>

\* authenticate_account: the row of the username is read once and judged.
FindAccount(c) ==
  LET q    == calls[c]
      rows == Entitled(accounts, q.credentials)
  IN  /\ q.at = "find"
      /\ \/ /\ rows = {}
            /\ Raise(c, "InvalidLoginException")
         \/ \E id \in rows : calls' = [calls EXCEPT ![c].at = "grant", ![c].account = id]
      /\ UNCHANGED <<now, table, accessLog, held, served>>

\* The record of an access, and the call that wrote it.
Write(c, id, type, pair) ==
  /\ accessLog' = Append(accessLog, [account |-> id, access_type |-> type, created |-> now])
  /\ calls' = [calls EXCEPT ![c].at = "answer", ![c].pair = pair,
                            ![c].record = Len(accessLog) + 1]

\* Defect: an account that was granted before is not recorded again.
GrantRecordingOnce(c) ==
  LET id == calls[c].account
  IN  /\ calls[c].at = "grant"
      /\ IF id \notin DOMAIN accounts THEN Raise(c, "IntegrityError") /\ UNCHANGED accessLog
         ELSE IF \E i \in DOMAIN accessLog : accessLog[i].account = id
           THEN /\ calls' = [calls EXCEPT ![c].at = "answer", ![c].pair = PairFor(id),
                                          ![c].record = Len(accessLog)]
                /\ UNCHANGED accessLog
         ELSE Write(c, id, "New", PairFor(id))
      /\ UNCHANGED <<now, table, held, served>>

\* grant_authorization: the record needs the account, which may be gone since
\* it was read.
Grant(c) ==
  LET id == calls[c].account
  IN  /\ calls[c].at = "grant"
      /\ IF id \in DOMAIN accounts THEN Write(c, id, "New", PairFor(id))
         ELSE Raise(c, "IntegrityError") /\ UNCHANGED accessLog
      /\ UNCHANGED <<now, table, held, served>>

\* Defect: the refresh token is not rotated, and none is answered.
RefreshWithoutRotation(c) ==
  LET q == calls[c]
  IN  /\ q.endpoint = "renew" /\ q.at = "check"
      /\ IF q.token # NoToken /\ Unexpired(q.token, "refresh")
           THEN calls' = [calls EXCEPT ![c].at = "validate", ![c].account = q.token.user_id,
                            ![c].pair = [PairFor(q.token.user_id) EXCEPT !.refresh = NoToken]]
           ELSE Raise(c, "InvalidRefreshException")
      /\ UNCHANGED <<now, table, accessLog, held, served>>

\* TokenRefreshView.post makes a new pair for a refresh token that is good, and
\* does not look at its account; any exception of it becomes a refusal.
Refresh(c) ==
  LET q == calls[c]
  IN  /\ q.endpoint = "renew" /\ q.at = "check"
      /\ IF q.token # NoToken /\ Unexpired(q.token, "refresh")
           THEN calls' = [calls EXCEPT ![c].at = "validate", ![c].account = q.token.user_id,
                                       ![c].pair = PairFor(q.token.user_id)]
           ELSE Raise(c, "InvalidRefreshException")
      /\ UNCHANGED <<now, table, accessLog, held, served>>

\* Defect: the account is found by the claim that the tokens do carry.
AffectedUserByKey(token) == {id \in DOMAIN accounts : id = Claim(token, "user_id")}

\* The account of a renewed token is looked up by a claim it does not carry.
AffectedUser(token) ==
  {id \in DOMAIN accounts : accounts[id].username = Claim(token, "username")}

\* validate_renewed_authorization
Validate(c) ==
  LET q == calls[c]
  IN  /\ q.at = "validate"
      /\ IF \E id \in AffectedUser(q.pair.access) : accounts[id].is_active
           THEN \E id \in AffectedUser(q.pair.access) : Write(c, id, "Renewed", q.pair)
           ELSE Raise(c, "InvalidRefreshException") /\ UNCHANGED accessLog
      /\ UNCHANGED <<now, table, held, served>>

\* The client has the tokens.
Answer(c) ==
  /\ calls[c].at = "answer"
  /\ GoTo(c, "granted")
  /\ held' = held \cup {calls[c].pair.access, calls[c].pair.refresh}
  /\ UNCHANGED <<now, table, accessLog, served>>

\* The answer is lost.
Lose(c) ==
  /\ calls[c].at \in {"answer", "failed"}
  /\ GoTo(c, "lost")
  /\ UNCHANGED <<now, table, accessLog, held, served>>

\* A request to an endpoint that wants an authenticated user.
Serve(token) ==
  /\ Admitted(token)
  /\ served' = served \cup {[account |-> token.user_id, at |-> now]}
  /\ UNCHANGED <<now, table, accessLog, held, calls>>

Endpoint(c) ==
  \/ CheckHeader(c) \/ FindAccount(c) \/ Grant(c)
  \/ Refresh(c) \/ Validate(c)
  \/ Answer(c) \/ Lose(c)

----------------------------------------------------------------------------
(* The administrator.                                                      *)

Done == {"granted", "failed", "lost"}

\* What the calls under way see of a new table.
Observe(rows) ==
  calls' = [c \in DOMAIN calls |->
    LET entitled == Entitled(rows, calls[c].credentials) # {}
    IN  IF calls[c].at \in Done THEN calls[c]
        ELSE [calls[c] EXCEPT !.once = @ \/ entitled, !.throughout = @ /\ entitled]]

Change(rows) ==
  /\ changes < MaxChanges
  /\ changes' = changes + 1
  /\ accounts' = rows
  /\ Observe(rows)
  /\ UNCHANGED <<now, held, served>>

AdminCreateAccount(u, p) ==
  /\ \A id \in DOMAIN accounts : accounts[id].username # u
  /\ created' = created + 1
  /\ Change([id \in DOMAIN accounts \cup {created + 1} |->
       IF id = created + 1 THEN [username |-> u, password |-> p, is_active |-> TRUE]
       ELSE accounts[id]])
  /\ UNCHANGED accessLog

AdminSetPassword(id, p) ==
  /\ Change([accounts EXCEPT ![id].password = p])
  /\ UNCHANGED <<created, accessLog>>

AdminSetActive(id, active) ==
  /\ Change([accounts EXCEPT ![id].is_active = active])
  /\ UNCHANGED <<created, accessLog>>

Without(id) == [k \in DOMAIN accounts \ {id} |-> accounts[k]]

\* Defect: the records of an account may be deleted, and go with it.
AdminDeleteAnyAccount(id) ==
  /\ Change(Without(id))
  /\ accessLog' = SelectSeq(accessLog, LAMBDA r : r.account # id)
  /\ UNCHANGED created

\* Deleting an account would delete its records, which nobody may delete: it is
\* refused when there are any.
AdminDeleteAccount(id) ==
  /\ \A i \in DOMAIN accessLog : accessLog[i].account # id
  /\ Change(Without(id))
  /\ UNCHANGED <<created, accessLog>>

Administration ==
  \/ \E u \in Username, p \in Password : AdminCreateAccount(u, p)
  \/ \E id \in DOMAIN accounts :
       \/ \E p \in Password : AdminSetPassword(id, p)
       \/ \E active \in BOOLEAN : AdminSetActive(id, active)
       \/ AdminDeleteAccount(id)

Tick ==
  /\ now < MaxTime
  /\ now' = now + 1
  /\ UNCHANGED <<table, accessLog, held, calls, served>>

Next ==
  \/ \E c \in Request, token \in held \cup {NoToken} :
       \/ \E credentials \in Credentials \cup {Malformed} :
            Arrive(c, "authenticate", credentials, token)
       \/ Arrive(c, "renew", Malformed, token)
  \/ \E c \in DOMAIN calls : Endpoint(c)
  \/ \E token \in held : Serve(token)
  \/ Administration
  \/ Tick

Spec == Init /\ [][Next]_vars

----------------------------------------------------------------------------
(* Properties.                                                             *)

\* A login is judged by the account as it was at some moment of the request,
\* whatever the administrator does between the statements: whom it grants
\* tokens had an active account with that password then, and whom it refuses
\* as an invalid login had none.
JudgedAsOfSomeMoment ==
  \A c \in DOMAIN calls :
    LET q == calls[c]
    IN  /\ q.endpoint = "authenticate" /\ q.at \in {"answer", "granted"} => q.once
        /\ q.exception = "InvalidLoginException" => ~q.throughout

\* Each pair of tokens that was made for an answer, even one that was lost, has
\* a record of its own, of its account and of its endpoint, made no later than
\* the answer (grant_authorization, validate_renewed_authorization).
PairsOnRecord ==
  \A c \in DOMAIN calls : calls[c].at \in {"answer", "granted"} =>
    /\ calls[c].record \in DOMAIN accessLog
    /\ LET r == accessLog[calls[c].record]
       IN  /\ r.account = calls[c].pair.access.user_id
           /\ r.account = calls[c].pair.refresh.user_id
           /\ r.access_type = IF calls[c].endpoint = "authenticate" THEN "New" ELSE "Renewed"
    /\ \A d \in DOMAIN calls :
         d # c /\ calls[d].at \in {"answer", "granted"} => calls[d].record # calls[c].record

\* The audit log only grows, and no account with a record goes: its cascade
\* would take the records along (AccountAccessLog.account), which the audit
\* page forbids (has_delete_permission).
AuditTrailKept ==
  [][/\ IsPrefix(accessLog, accessLog')
     /\ \A i \in DOMAIN accessLog' : accessLog'[i].account \in DOMAIN accounts']_vars

\* Nobody is served who has not logged in with a password less than the
\* lifetime of an access token ago: the refresh token, which lives longer,
\* prolongs nothing, since renewal always looks for an account without a name.
ServedAfterRecentLogin ==
  \A s \in served : \E i \in DOMAIN accessLog :
    /\ accessLog[i].account = s.account
    /\ accessLog[i].access_type = "New"
    /\ accessLog[i].created <= s.at /\ s.at < accessLog[i].created + AccessLifetime

\* What the client of a call that ended badly learns.
Learned(c) ==
  IF calls[c].at = "lost" THEN OnNoAnswer ELSE OnError(InstalledHandler(calls[c].exception))

\* As the server is set up, the client understands an error only if there was no
\* answer at all: the interceptor finds its fields in no answer to a call that
\* failed, and the login screen never gives the server's reason.
\* custom_exception_handler would make every one of them understood, with its
\* status and its code.
FailuresTold ==
  \A c \in DOMAIN calls : calls[c].at \in {"failed", "lost"} =>
    LET ex == calls[c].exception
    IN  /\ Learned(c).kind = "ServerClientError" <=> calls[c].at = "lost"
        /\ ex # NoException =>
             OnError(CustomHandler(ex)) =
               [kind |-> "ServerClientError", statusCode |-> CustomHandler(ex).status,
                appCode |-> AppCode(ex)]
=============================================================================
