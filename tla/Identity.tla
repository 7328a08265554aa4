------------------------------ MODULE Identity ------------------------------
(***************************************************************************)
(* Sign-in, sessions and e-mail verification of one customer account: the  *)
(* rows of users, password_credentials and email_verification_tokens, the  *)
(* Redis session store, and the browsers that hold a session cookie.       *)
(*                                                                         *)
(* Every request loads its session into memory when it arrives and works   *)
(* on that copy, while other requests of the same or another browser read  *)
(* and write the store and the rows.  One action is one database or store  *)
(* call with the code up to the next await.  A transaction whose rows are  *)
(* locked until it commits is one action, at its commit.                   *)
(*                                                                         *)
(* A session id, a CSRF token and a verification token are named by the    *)
(* request that generated them; those a browser starts with are named by   *)
(* the browser.                                                            *)
(***************************************************************************)
EXTENDS Naturals, FiniteSets

CONSTANTS
  Requests,              \* HTTP requests
  Browsers,              \* cookie jars, each with at most one session cookie
  Passwords,
  Endpoints,             \* Endpoints[v]: where requests go if verification is v
  MaxVersion,            \* bound on staff commands: versions stay at or below it
  None                   \* no session, cookie, token or password

Kinds == {"csrf", "register", "login", "me", "logout", "logoutAll", "change",
          "requestMail", "confirm"}

Guarded   == {"me", "logout", "logoutAll", "change"}     \* not @Public
SafeKinds == {"csrf", "me"}                              \* GET: no CSRF check
Names     == Browsers \cup Requests

ASSUME IdentityAssumption ==
  /\ Browsers \cap Requests = {}
  /\ None \notin Names \cup Passwords
  /\ DOMAIN Endpoints \subseteq BOOLEAN
  /\ \A v \in DOMAIN Endpoints : Endpoints[v] \subseteq Kinds
  /\ MaxVersion \in Nat

VARIABLES
  user,      \* the users row and its password_credentials row, as committed
  tokens,    \* email_verification_tokens: tokens[t] is a row's state
  mailed,    \* the tokens that reached the customer's mailbox
  store,     \* the Redis session store: session id -> session or None
  cookie,    \* cookie[b]: the session id in b's cookie
  csrf,      \* csrf[b]: the CSRF token b last fetched
  verification,  \* the requireEmailVerification setting of the installation
  pc,        \* pc[r]: the next step of request r
  req,       \* req[r]: what r carries, with the session copy it loaded
  saw,       \* saw[r]: what r has read from the rows
  outcome    \* outcome[r]: how r ended, or is about to

rows    == <<user, tokens, mailed>>
world   == <<cookie, csrf, verification>>
vars    == <<rows, store, world, pc, req, saw, outcome>>

Statuses == {"absent", "active", "disabled"}
Users    == [status : Statuses, verified : BOOLEAN, version : Nat,
             password : Passwords \cup {None}]
TokenStates == {"absent", "live", "consumed", "expired"}
Sessions == [authenticated : BOOLEAN, version : Nat, csrf : Names \cup {None}]
Commands == [kind : Kinds, browser : Browsers, sid : Names, session : Sessions,
             given : Passwords \cup {None}, wanted : Passwords \cup {None},
             mail : Names \cup {None}]
NoCommand == [kind |-> "none"]
Columns   == {"status", "version"}   \* of users, besides the verification date
Seen      == [version : Nat, verified : BOOLEAN, status : Statuses,
              stale : SUBSET Columns, live : SUBSET Names]
NothingSeen == [version |-> 0, verified |-> FALSE, status |-> "absent",
                stale |-> {}, live |-> {}]

Steps == {"idle", "guard", "invalidate", "saveToken", "insert", "readUser",
          "readCredential", "commitChange", "regenerate", "save", "increment",
          "destroy", "findMailUser", "findLive", "issue", "deliver", "deleteToken",
          "findToken", "findUser", "compare", "saveUser", "respond", "done"}
Running  == Steps \ {"idle", "done"}
Outcomes == {"none", "ok", "unauthorized", "expelled", "refused", "failed"}

Anonymous == [authenticated |-> FALSE, version |-> 0, csrf |-> None]
-----------------------------------------------------------------------------
(* Helpers *)

Kind(r)    == req[r].kind
Browser(r) == req[r].browser
Sid(r)     == req[r].sid

Goto(r, s) == pc' = [pc EXCEPT ![r] = s]

\* The request has its answer; only the response is left.
Answer(r, o) ==
  /\ outcome' = [outcome EXCEPT ![r] = o]
  /\ Goto(r, "respond")

Put(s, session) == store' = [store EXCEPT ![s] = session]
Drop(s)         == store' = [store EXCEPT ![s] = None]

\* The guard's condition on a session, given the account's row.
Accepts(row, session) ==
  /\ session.authenticated
  /\ row.status = "active"
  /\ row.version = session.version
  /\ verification => row.verified

\* The sessions the next guarded request would be served with.
Valid == {s \in Names : store[s] # None /\ Accepts(user, store[s])}

\* The transaction of request r holds the row of token t.
Locked(t) ==
  \E r \in Requests : pc[r] \in {"findUser", "compare", "saveUser"} /\ req[r].mail = t
-----------------------------------------------------------------------------
(* Arrival *)

\* An account that exists or not yet, browsers with or without a session, and,
\* where verification is required, tokens: two issued at once may both be live,
\* and the second still is after the first was confirmed and the customer
\* signed in.
Init ==
  /\ verification \in DOMAIN Endpoints
  /\ user \in {u \in [status : {"absent", "active"}, verified : BOOLEAN,
                     version : {0}, password : Passwords \cup {None}] :
       /\ u.status = "absent" <=> u.password = None
       /\ u.verified => u.status # "absent" /\ verification}
  /\ \E f \in [Browsers -> {None} \cup
                [authenticated : BOOLEAN, version : {0}, csrf : Browsers \cup {None}]] :
       /\ \A b \in Browsers : f[b] # None =>
            /\ f[b].csrf \in {b, None}
            /\ f[b].authenticated => Accepts(user, f[b])
            /\ f[b].authenticated \/ f[b].csrf = b
       /\ store = [s \in Names |-> IF s \in Browsers THEN f[s] ELSE None]
  /\ cookie = [b \in Browsers |-> IF store[b] = None THEN None ELSE b]
  /\ csrf = [b \in Browsers |-> IF store[b] = None THEN None ELSE store[b].csrf]
  /\ \E T \in SUBSET Browsers :
       /\ T # {} => user.status = "active" /\ verification
       /\ tokens = [t \in Names |-> IF t \in T THEN "live" ELSE "absent"]
  /\ mailed = {s \in Names : tokens[s] = "live"}
  /\ pc = [r \in Requests |-> "idle"]
  /\ req = [r \in Requests |-> NoCommand]
  /\ saw = [r \in Requests |-> NothingSeen]
  /\ outcome = [r \in Requests |-> "none"]

\* The session the middleware loads for a request of b: the stored one, or a
\* new anonymous one with an id of the request.
\* Mutation: the id of a session that is gone is used again.
CookieSid(r, b)   == cookie[b]

HasSession(b)     == cookie[b] # None /\ store[cookie[b]] # None
LoadedSid(r, b)   == IF HasSession(b) THEN cookie[b] ELSE r
LoadedSession(b)  == IF HasSession(b) THEN store[cookie[b]] ELSE Anonymous

FirstStep(k) ==
  CASE k \in Guarded       -> "guard"
    [] k = "csrf"          -> "saveToken"
    [] k = "register"      -> "insert"
    [] k = "login"         -> "readUser"
    [] k = "requestMail"   -> "findMailUser"
    [] k = "confirm"       -> "findToken"

\* CSRF check of every POST against the loaded session; a guarded endpoint
\* needs an authenticated one.  A request that fails here touches nothing.
PassesMiddleware(k, b) ==
  /\ k \notin SafeKinds => LoadedSession(b).csrf # None /\ csrf[b] = LoadedSession(b).csrf
  /\ k \in Guarded => LoadedSession(b).authenticated
  /\ k \in {"requestMail", "confirm"} => verification

\* The bodies an endpoint accepts.
Bodies(k) ==
  [given  : IF k \in {"register", "login", "change"} THEN Passwords ELSE {None},
   wanted : IF k = "change" THEN Passwords ELSE {None},
   mail   : IF k = "confirm" THEN mailed ELSE {None}]

Begin(r) ==
  /\ pc[r] = "idle"
  /\ \E k \in Endpoints[verification], b \in Browsers : \E body \in Bodies(k) :
       /\ PassesMiddleware(k, b)
       /\ req' = [req EXCEPT ![r] =
            [kind |-> k, browser |-> b, sid |-> LoadedSid(r, b),
             session |-> LoadedSession(b), given |-> body.given,
             wanted |-> body.wanted, mail |-> body.mail]]
       /\ IF k = "csrf" /\ LoadedSession(b).csrf # None
          THEN Answer(r, "ok")
          ELSE Goto(r, FirstStep(k)) /\ UNCHANGED outcome
  /\ UNCHANGED <<rows, store, world, saw>>

\* The abuse limits refuse a request before it reads anything.
Throttle(r) ==
  /\ pc[r] \in {"insert", "readUser", "findMailUser", "findToken"}
  /\ Answer(r, "refused")
  /\ UNCHANGED <<rows, store, world, req, saw>>
-----------------------------------------------------------------------------
(* The session guard *)

AfterGuard(k) ==
  CASE k = "logout"    -> "destroy"
    [] k = "logoutAll" -> "increment"
    [] k = "change"    -> "readCredential"
    [] OTHER           -> "respond"

PassGuard(r) ==
  /\ pc[r] = "guard"
  /\ Accepts(user, req[r].session)
  /\ IF Kind(r) = "me" THEN Answer(r, "ok")
     ELSE Goto(r, AfterGuard(Kind(r))) /\ UNCHANGED outcome
  /\ UNCHANGED <<rows, store, world, req, saw>>

FailGuard(r) ==
  /\ pc[r] = "guard"
  /\ ~ Accepts(user, req[r].session)
  /\ Goto(r, "invalidate")
  /\ UNCHANGED <<rows, store, world, req, saw, outcome>>

Invalidate(r) ==
  /\ pc[r] = "invalidate"
  /\ Drop(Sid(r))
  /\ Answer(r, "expelled")
  /\ UNCHANGED <<rows, world, req, saw>>
-----------------------------------------------------------------------------
(* CSRF tokens and sign-in *)

\* CsrfService.issue: the whole session copy is written back with the token.
SaveToken(r) ==
  /\ pc[r] = "saveToken"
  /\ req' = [req EXCEPT ![r].session.csrf = r]
  /\ Put(Sid(r), req'[r].session)
  /\ Answer(r, "ok")
  /\ UNCHANGED <<rows, world, saw>>

\* register: the unique address makes the second insert a conflict.
Register(r) ==
  /\ pc[r] = "insert"
  /\ IF user.status # "absent"
     THEN Answer(r, "refused") /\ UNCHANGED user
     ELSE /\ user' = [status |-> "active", verified |-> FALSE, version |-> 0,
                      password |-> req[r].given]
          /\ IF verification THEN Answer(r, "ok")
             ELSE Goto(r, "regenerate") /\ UNCHANGED outcome
  /\ UNCHANGED <<tokens, mailed, store, world, req, saw>>

\* login reads the users row, and with it the version, before the credential.
ReadUser(r) ==
  /\ pc[r] = "readUser"
  /\ saw' = [saw EXCEPT ![r].version = user.version, ![r].verified = user.verified]
  /\ IF user.status = "active"
     THEN Goto(r, "readCredential") /\ UNCHANGED outcome
     ELSE Answer(r, "unauthorized")
  /\ UNCHANGED <<rows, store, world, req>>

\* What login and changePassword make of the stored password.
CredentialVerdict(r) ==
  CASE req[r].given # user.password -> "unauthorized"
    [] Kind(r) = "login" /\ verification /\ ~ saw[r].verified -> "refused"
    [] Kind(r) = "change" /\ req[r].wanted = user.password -> "refused"
    [] OTHER -> "ok"

ReadCredential(r) ==
  /\ pc[r] = "readCredential"
  /\ IF CredentialVerdict(r) # "ok" THEN Answer(r, CredentialVerdict(r))
     ELSE /\ Goto(r, IF Kind(r) = "change" THEN "commitChange" ELSE "regenerate")
          /\ UNCHANGED outcome
  /\ UNCHANGED <<rows, store, world, req, saw>>

\* Mutation: a version computed from the one the session was loaded with.
VersionAfterLoaded(r) == req[r].session.version + 1

\* The version changePassword writes: one more than the locked row has.
VersionAfter(r) == user.version + 1

\* changePassword's transaction, with the users row locked throughout.
CommitChange(r) ==
  /\ pc[r] = "commitChange"
  /\ IF user.status # "active"
     THEN Answer(r, "unauthorized") /\ UNCHANGED <<user, saw>>
     ELSE /\ user' = [user EXCEPT !.password = req[r].wanted,
                                  !.version = VersionAfter(r)]
          /\ saw' = [saw EXCEPT ![r].version = VersionAfter(r)]
          /\ Goto(r, "regenerate") /\ UNCHANGED outcome
  /\ UNCHANGED <<tokens, mailed, store, world, req>>

\* Mutation: the id of the anonymous session is kept.
KeepId(r) ==
  /\ pc[r] = "regenerate"
  /\ Goto(r, "save")
  /\ UNCHANGED <<rows, store, world, req, saw, outcome>>

\* establishAuthenticatedSession: drop the old session, take a new id ...
Regenerate(r) ==
  /\ pc[r] = "regenerate"
  /\ Drop(Sid(r))
  /\ req' = [req EXCEPT ![r].sid = r]
  /\ Goto(r, "save")
  /\ UNCHANGED <<rows, world, saw, outcome>>

\* Mutation: the version is looked up when the session is written.
LatestVersion(r) == user.version

\* ... and write it under the version that was read with the account.
EstablishedVersion(r) == saw[r].version

SaveSession(r) ==
  /\ pc[r] = "save"
  /\ Put(Sid(r), [authenticated |-> TRUE, version |-> EstablishedVersion(r),
                  csrf |-> None])
  /\ Answer(r, "ok")
  /\ UNCHANGED <<rows, world, req, saw>>
-----------------------------------------------------------------------------
(* Sign-out *)

\* logoutAll increments in place, then ends the current session.
Increment(r) ==
  /\ pc[r] = "increment"
  /\ user' = [user EXCEPT !.version = user.version + 1]
  /\ Goto(r, "destroy")
  /\ UNCHANGED <<tokens, mailed, store, world, req, saw, outcome>>

Destroy(r) ==
  /\ pc[r] = "destroy"
  /\ Drop(Sid(r))
  /\ Answer(r, "ok")
  /\ UNCHANGED <<rows, world, req, saw>>
-----------------------------------------------------------------------------
(* E-mail verification *)

\* request: a verified or unknown address is answered like any other.
FindMailUser(r) ==
  /\ pc[r] = "findMailUser"
  /\ IF user.status = "absent" \/ user.verified THEN Answer(r, "ok")
     ELSE Goto(r, "findLive") /\ UNCHANGED outcome
  /\ UNCHANGED <<rows, store, world, req, saw>>

LiveTokens == {t \in Names : tokens[t] = "live"}

\* The UPDATE that supersedes older tokens works on its own snapshot ...
FindLive(r) ==
  /\ pc[r] = "findLive"
  /\ saw' = [saw EXCEPT ![r].live = LiveTokens]
  /\ Goto(r, "issue")
  /\ UNCHANGED <<rows, store, world, req, outcome>>

\* ... waits for confirmations of those tokens, and commits with the new one.
Issue(r) ==
  /\ pc[r] = "issue"
  /\ \A t \in saw[r].live : ~ Locked(t)
  /\ tokens' = [t \in Names |->
       CASE t = r -> "live"
         [] t \in saw[r].live \cap LiveTokens -> "consumed"
         [] OTHER -> tokens[t]]
  /\ Goto(r, "deliver")
  /\ UNCHANGED <<user, mailed, store, world, req, saw, outcome>>

Deliver(r) ==
  /\ pc[r] = "deliver"
  /\ mailed' = mailed \cup {r}
  /\ Answer(r, "ok")
  /\ UNCHANGED <<user, tokens, store, world, req, saw>>

\* The adapter reports a failure, whether or not the mail goes out.
FailDelivery(r) ==
  /\ pc[r] = "deliver"
  /\ mailed' \in {mailed, mailed \cup {r}}
  /\ Goto(r, "deleteToken")
  /\ UNCHANGED <<user, tokens, store, world, req, saw, outcome>>

DeleteToken(r) ==
  /\ pc[r] = "deleteToken"
  /\ ~ Locked(r)
  /\ tokens' = [tokens EXCEPT ![r] = "absent"]
  /\ Answer(r, "failed")
  /\ UNCHANGED <<user, mailed, store, world, req, saw>>

\* Mutation: the token is read without a lock.
FindTokenUnlocked(r) ==
  /\ pc[r] = "findToken"
  /\ IF tokens[req[r].mail] = "live"
     THEN Goto(r, "findUser") /\ UNCHANGED outcome
     ELSE Answer(r, "refused")
  /\ UNCHANGED <<rows, store, world, req, saw>>

\* confirm: the token FOR UPDATE, unconsumed and unexpired after any wait.
FindToken(r) ==
  /\ pc[r] = "findToken"
  /\ ~ Locked(req[r].mail)
  /\ IF tokens[req[r].mail] = "live"
     THEN Goto(r, "findUser") /\ UNCHANGED outcome
     ELSE Answer(r, "refused")
  /\ UNCHANGED <<rows, store, world, req, saw>>

\* The user is read without a lock.
FindUser(r) ==
  /\ pc[r] = "findUser"
  /\ saw' = [saw EXCEPT ![r].version = user.version, ![r].status = user.status]
  /\ Goto(r, "compare")
  /\ UNCHANGED <<rows, store, world, req, outcome>>

\* save loads the row again and picks the columns that differ from its copy.
Compare(r) ==
  /\ pc[r] = "compare"
  /\ saw' = [saw EXCEPT ![r].stale =
       {c \in Columns : \/ c = "version" /\ user.version # saw[r].version
                        \/ c = "status" /\ user.status # saw[r].status}]
  /\ Goto(r, "saveUser")
  /\ UNCHANGED <<rows, store, world, req, outcome>>

SaveUser(r) ==
  /\ pc[r] = "saveUser"
  /\ user' = [user EXCEPT
       !.verified = TRUE,
       !.version = IF "version" \in saw[r].stale THEN saw[r].version ELSE user.version,
       !.status = IF "status" \in saw[r].stale THEN saw[r].status ELSE user.status]
  /\ tokens' = [tokens EXCEPT ![req[r].mail] = "consumed"]
  /\ Answer(r, "ok")
  /\ UNCHANGED <<mailed, store, world, req, saw>>
-----------------------------------------------------------------------------
(* Responses, failures and the world outside *)

\* With the request, its copy of the session and what it has read are gone.
Forget(r) ==
  /\ req' = [req EXCEPT ![r].session = Anonymous]
  /\ saw' = [saw EXCEPT ![r] = NothingSeen]

SignsOut(r)    == Kind(r) \in {"logout", "logoutAll"} /\ outcome[r] = "ok"
EndsSession(r) == SignsOut(r) \/ outcome[r] = "expelled"

\* express-session with rolling cookies and unset: 'destroy'.  A request that
\* still has its session sets the cookie to it, one that ended it destroys the
\* stored session once more.
Respond(r) ==
  LET b == Browser(r)
  IN  /\ pc[r] = "respond"
      /\ IF EndsSession(r) THEN Drop(Sid(r)) ELSE UNCHANGED store
      /\ cookie' = [cookie EXCEPT ![b] =
           IF SignsOut(r) THEN None
           ELSE IF EndsSession(r) THEN cookie[b] ELSE Sid(r)]
      /\ csrf' = IF Kind(r) = "csrf"
                 THEN [csrf EXCEPT ![b] = req[r].session.csrf] ELSE csrf
      /\ Goto(r, "done")
      /\ Forget(r)
      /\ UNCHANGED <<rows, verification, outcome>>

\* A crash, or a failing database or store call: what was done stays done.
Fail(r) ==
  /\ pc[r] \in Running
  /\ Goto(r, "done")
  /\ outcome' = [outcome EXCEPT ![r] = "failed"]
  /\ Forget(r)
  /\ UNCHANGED <<rows, store, world>>

\* The session's key expires in Redis.
ExpireSession(s) ==
  /\ store[s] # None
  /\ Drop(s)
  /\ UNCHANGED <<rows, world, pc, req, saw, outcome>>

ExpireToken(t) ==
  /\ tokens[t] = "live" /\ ~ Locked(t)
  /\ tokens' = [tokens EXCEPT ![t] = "expired"]
  /\ UNCHANGED <<user, mailed, store, world, pc, req, saw, outcome>>

\* A committed staff command about this user (StaffLifecycle!Commit).
StaffCommand ==
  /\ user.status = "active" /\ user.version < MaxVersion
  /\ user' = [user EXCEPT !.version = user.version + 1]
  /\ UNCHANGED <<tokens, mailed, store, world, pc, req, saw, outcome>>

\* An operator disables the account; no endpoint does.
Disable ==
  /\ user.status = "active"
  /\ user' = [user EXCEPT !.status = "disabled"]
  /\ UNCHANGED <<tokens, mailed, store, world, pc, req, saw, outcome>>

\* No request is under way; none needs to come.
Finished ==
  /\ \A r \in Requests : pc[r] \in {"idle", "done"}
  /\ UNCHANGED vars

Next ==
  \/ \E r \in Requests :
       \/ Begin(r) \/ Throttle(r)
       \/ PassGuard(r) \/ FailGuard(r) \/ Invalidate(r)
       \/ SaveToken(r) \/ Register(r) \/ ReadUser(r) \/ ReadCredential(r)
       \/ CommitChange(r) \/ Regenerate(r) \/ SaveSession(r)
       \/ Increment(r) \/ Destroy(r)
       \/ FindMailUser(r) \/ FindLive(r) \/ Issue(r)
       \/ Deliver(r) \/ FailDelivery(r) \/ DeleteToken(r)
       \/ FindToken(r) \/ FindUser(r) \/ Compare(r) \/ SaveUser(r)
       \/ Respond(r) \/ Fail(r)
  \/ \E s \in Names : ExpireSession(s) \/ ExpireToken(s)
  \/ StaffCommand \/ Disable
  \/ Finished

Spec == Init /\ [][Next]_vars
-----------------------------------------------------------------------------
(* Safety *)

TypeOK ==
  /\ user \in Users
  /\ tokens \in [Names -> TokenStates]
  /\ mailed \subseteq Names
  /\ store \in [Names -> Sessions \cup {None}]
  /\ cookie \in [Browsers -> Names \cup {None}]
  /\ csrf \in [Browsers -> Names \cup {None}]
  /\ verification \in DOMAIN Endpoints
  /\ pc \in [Requests -> Steps]
  /\ req \in [Requests -> Commands \cup {NoCommand}]
  /\ \A r \in Requests : pc[r] \in Running => req[r] \in Commands
  /\ saw \in [Requests -> Seen]
  /\ outcome \in [Requests -> Outcomes]

\* The password that was proved to obtain session s: the one a sign-in checked
\* or stored, or a change set.  A browser's first session has no such request.
ProvedBy(s) == IF Kind(s) = "change" THEN req[s].wanted ELSE req[s].given

\* A confirmation has saved the user it had read, or may have before it failed:
\* from then on the row's version may be one that it had left (OlderSessionsFail).
MayHaveConfirmed ==
  \E r \in Requests : Kind(r) = "confirm" /\ outcome[r] \in {"ok", "failed"}

\* Until a confirmation writes a stale row back, a session that still counts was
\* obtained with the password of today, whatever changes, sign-outs and staff
\* commands ran while its own request did.
SessionsKnowPassword ==
  ~ MayHaveConfirmed => \A r \in Requests : r \in Valid => ProvedBy(r) = user.password

\* Session s as the store has it, and as CSRF requests loaded it and will write
\* it back.
Copies(s) ==
  ({store[s]} \ {None})
    \cup {req[r].session : r \in {q \in Requests : pc[q] = "saveToken" /\ Sid(q) = s}}

Counts(s) == \E copy \in Copies(s) : Accepts(user, copy)
Fails(s)  == \E copy \in Copies(s) : ~ Accepts(user, copy)

\* Until then, too, a session that a change of the row revoked never counts again,
\* whichever request writes back the copy it loaded: a session counts only because
\* every copy of it did, in the store or in the hands of such a request, or because
\* it is signed in.  (Destroying it takes it from the store only: LogoutRemoves.)
NoRevival ==
  [][MayHaveConfirmed' \/
     \A s \in Names : Counts(s)' =>
       \/ Counts(s) /\ ~ Fails(s)
       \/ s \in Requests /\ pc[s] = "save"]_vars

\* Only a session whose id was generated by the sign-in itself is authenticated:
\* the id a browser had before does not become one.
FreshIdentifiers ==
  \A r \in Requests : store[r] # None =>
    (store[r].authenticated <=> Kind(r) \in {"register", "login", "change"})

\* One verification token confirms once.
TokensUsedOnce ==
  \A r, s \in Requests :
    /\ Kind(r) = "confirm" /\ outcome[r] = "ok"
    /\ Kind(s) = "confirm" /\ outcome[s] = "ok"
    /\ req[r].mail = req[s].mail
    => r = s
-----------------------------------------------------------------------------
(* What the documents say and the code does not keep *)

\* README.md: logout removes the current session.
LogoutRemoves ==
  \A r \in Requests :
    pc[r] = "done" /\ Kind(r) = "logout" /\ outcome[r] = "ok" => store[Sid(r)] = None

\* local-development.md: the next request with a session older than the version
\* fails authentication, and so does every one after it.
OlderSessionsFail ==
  [][\A s \in Names :
       store[s] # None /\ user.version > store[s].version
         => ~ Accepts(user', store[s])]_user
=============================================================================
