--------------------------- MODULE IdentityProofs ---------------------------
(***************************************************************************)
(* Proofs about Identity for every set of requests, browsers and           *)
(* passwords, and whatever endpoints the requests go to.                   *)
(***************************************************************************)
EXTENDS Identity, TLAPS

-----------------------------------------------------------------------------
(* Types *)

\* The initial states have the types.
LEMMA TypeInit == Init => TypeOK
<1> SUFFICES ASSUME Init
             PROVE  TypeOK
  OBVIOUS
<1>1. user \in Users /\ verification \in DOMAIN Endpoints
  BY DEF Init, Users, Statuses
<1>2. /\ store \in [Names -> Sessions \cup {None}]
      /\ \A b \in Browsers : store[b] # None => store[b].csrf \in Browsers \cup {None}
  <2>1. PICK f \in [Browsers -> {None} \cup
                     [authenticated : BOOLEAN, version : {0}, csrf : Browsers \cup {None}]] :
          store = [s \in Names |-> IF s \in Browsers THEN f[s] ELSE None]
    BY DEF Init
  <2>2. [authenticated : BOOLEAN, version : {0}, csrf : Browsers \cup {None}]
          \subseteq Sessions
    BY DEF Sessions, Names
  <2>3. \A b \in Browsers : store[b] = f[b]
    BY <2>1 DEF Names
  <2> QED
    BY <2>1, <2>2, <2>3 DEF Names
<1>3. /\ cookie \in [Browsers -> Names \cup {None}]
      /\ csrf \in [Browsers -> Names \cup {None}]
  BY <1>2 DEF Init, Names
<1>4. tokens \in [Names -> TokenStates] /\ mailed \subseteq Names
  BY DEF Init, TokenStates
<1>5. /\ pc \in [Requests -> Steps] /\ req \in [Requests -> Commands \cup {NoCommand}]
      /\ \A r \in Requests : pc[r] \notin Running
      /\ saw \in [Requests -> Seen] /\ outcome \in [Requests -> Outcomes]
  BY DEF Init, Steps, Running, Seen, NothingSeen, Statuses, Outcomes
<1> QED
  BY <1>1, <1>2, <1>3, <1>4, <1>5 DEF TypeOK

\* What a request of browser b loads is a session, under a name.
LEMMA LoadedTyped ==
  ASSUME TypeOK, NEW r \in Requests, NEW b \in Browsers
  PROVE  LoadedSid(r, b) \in Names /\ LoadedSession(b) \in Sessions
BY IdentityAssumption
   DEF TypeOK, LoadedSid, LoadedSession, HasSession, Anonymous, Sessions, Names

\* A request that is under way goes on, or is about to be answered.
Proceeds(r) ==
  \/ \E s \in Steps : Goto(r, s) /\ UNCHANGED outcome
  \/ \E o \in Outcomes : Answer(r, o)

\* Wherever it goes on to, the types of where requests are hold.
LEMMA ControlTyped ==
  ASSUME TypeOK, NEW r \in Requests, pc[r] \in Running, Proceeds(r)
  PROVE  /\ pc' \in [Requests -> Steps] /\ outcome' \in [Requests -> Outcomes]
         /\ \A q \in Requests : pc'[q] \in Running => req[q] \in Commands
         /\ req[r] \in Commands
BY DEF TypeOK, Proceeds, Goto, Answer, Steps, Running

\* It may do so having read something, or nothing.
LEMMA PassTyped ==
  ASSUME TypeOK, NEW r \in Requests, pc[r] \in Running, Proceeds(r),
         UNCHANGED <<rows, store, world, req>>, saw' \in [Requests -> Seen]
  PROVE  TypeOK'
BY ControlTyped DEF TypeOK, rows, world

\* The columns of the users row.
LEMMA UserTyped ==
  ASSUME TypeOK
  PROVE  /\ user.status \in Statuses /\ user.verified \in BOOLEAN
         /\ user.version \in Nat /\ user.password \in Passwords \cup {None}
BY DEF TypeOK, Users

\* A change of its password and version leaves a users row.
LEMMA UserUpdated ==
  ASSUME NEW u \in Users, NEW v \in Nat, NEW p \in Passwords \cup {None}
  PROVE  [u EXCEPT !.password = p, !.version = v] \in Users
BY DEF Users

\* What is read of it may be remembered.
LEMMA SeenTyped ==
  ASSUME NEW sn \in Seen, NEW v \in Nat, NEW b \in BOOLEAN, NEW st \in Statuses
  PROVE  /\ [sn EXCEPT !.version = v] \in Seen
         /\ [sn EXCEPT !.version = v, !.verified = b] \in Seen
         /\ [sn EXCEPT !.version = v, !.status = st] \in Seen
<1> USE DEF Seen
<1>1. [sn EXCEPT !.version = v] \in Seen
  OBVIOUS
<1>2. [sn EXCEPT !.version = v, !.verified = b] \in Seen
  OBVIOUS
<1>3. [sn EXCEPT !.version = v, !.status = st] \in Seen
  OBVIOUS
<1> QED
  BY <1>1, <1>2, <1>3

\* Every step keeps the types.
LEMMA TypeStep == TypeOK /\ [Next]_vars => TypeOK'
<1> SUFFICES ASSUME TypeOK, [Next]_vars
             PROVE  TypeOK'
  OBVIOUS
<1>0. CASE UNCHANGED vars
  BY <1>0 DEF TypeOK, vars, rows, world
<1>1. ASSUME NEW r \in Requests, Begin(r)
      PROVE  TypeOK'
  <2>1. PICK k \in Endpoints[verification], b \in Browsers :
             \E body \in Bodies(k) :
               /\ req' = [req EXCEPT ![r] =
                    [kind |-> k, browser |-> b, sid |-> LoadedSid(r, b),
                     session |-> LoadedSession(b), given |-> body.given,
                     wanted |-> body.wanted, mail |-> body.mail]]
               /\ \/ Answer(r, "ok")
                  \/ Goto(r, FirstStep(k)) /\ UNCHANGED outcome
    BY <1>1 DEF Begin
  <2>2. k \in Kinds
    BY IdentityAssumption DEF TypeOK
  <2>3. FirstStep(k) \in Steps
    BY <2>2 DEF FirstStep, Kinds, Guarded, Steps
  <2>4. \A body \in Bodies(k) : /\ body.given \in Passwords \cup {None}
                                /\ body.wanted \in Passwords \cup {None}
                                /\ body.mail \in Names \cup {None}
    BY DEF Bodies, TypeOK
  <2>5. req'[r] \in Commands /\ req' \in [Requests -> Commands \cup {NoCommand}]
    BY <2>1, <2>2, <2>4, LoadedTyped DEF TypeOK, Commands
  <2>6. pc' \in [Requests -> Steps] /\ outcome' \in [Requests -> Outcomes]
    BY <2>1, <2>3 DEF TypeOK, Answer, Goto, Steps, Outcomes
  <2>7. \A s \in Requests : pc'[s] \in Running => req'[s] \in Commands
    BY <2>1, <2>5, <2>6 DEF TypeOK, Answer, Goto
  <2>8. UNCHANGED <<rows, store, world, saw>>
    BY <1>1 DEF Begin
  <2> QED
    BY <2>5, <2>6, <2>7, <2>8 DEF TypeOK, rows, world
<1>2. ASSUME NEW r \in Requests, Throttle(r)
      PROVE  TypeOK'
  <2>1. pc[r] \in Running /\ Proceeds(r)
    BY <1>2 DEF Throttle, Proceeds, Steps, Outcomes, Running
  <2> QED
    BY <1>2, <2>1, PassTyped DEF TypeOK, Throttle
<1>3. ASSUME NEW r \in Requests, PassGuard(r)
      PROVE  TypeOK'
  <2>1. pc[r] \in Running /\ Proceeds(r)
    BY <1>3 DEF PassGuard, AfterGuard, Proceeds, Steps, Outcomes, Running
  <2> QED
    BY <1>3, <2>1, PassTyped DEF TypeOK, PassGuard
<1>4. ASSUME NEW r \in Requests, FailGuard(r)
      PROVE  TypeOK'
  <2>1. pc[r] \in Running /\ Proceeds(r)
    BY <1>4 DEF FailGuard, Proceeds, Steps, Outcomes, Running
  <2> QED
    BY <1>4, <2>1, PassTyped DEF TypeOK, FailGuard
<1>5. ASSUME NEW r \in Requests, ReadCredential(r)
      PROVE  TypeOK'
  <2>1. pc[r] \in Running /\ Proceeds(r)
    BY <1>5 DEF ReadCredential, CredentialVerdict, Proceeds, Steps, Outcomes, Running
  <2> QED
    BY <1>5, <2>1, PassTyped DEF TypeOK, ReadCredential
<1>6. ASSUME NEW r \in Requests, FindMailUser(r)
      PROVE  TypeOK'
  <2>1. pc[r] \in Running /\ Proceeds(r)
    BY <1>6 DEF FindMailUser, Proceeds, Steps, Outcomes, Running
  <2> QED
    BY <1>6, <2>1, PassTyped DEF TypeOK, FindMailUser
<1>7. ASSUME NEW r \in Requests, FindToken(r)
      PROVE  TypeOK'
  <2>1. pc[r] \in Running /\ Proceeds(r)
    BY <1>7 DEF FindToken, Proceeds, Steps, Outcomes, Running
  <2> QED
    BY <1>7, <2>1, PassTyped DEF TypeOK, FindToken
<1>8. ASSUME NEW r \in Requests, ReadUser(r)
      PROVE  TypeOK'
  <2>1. pc[r] \in Running /\ Proceeds(r)
    BY <1>8 DEF ReadUser, Proceeds, Steps, Outcomes, Running
  <2>2. saw' \in [Requests -> Seen]
    BY <1>8, UserTyped, SeenTyped DEF TypeOK, ReadUser
  <2> QED
    BY <1>8, <2>1, <2>2, PassTyped DEF ReadUser
<1>9. ASSUME NEW r \in Requests, FindLive(r)
      PROVE  TypeOK'
  <2>1. pc[r] \in Running /\ Proceeds(r)
    BY <1>9 DEF FindLive, Proceeds, Steps, Outcomes, Running
  <2>2. saw' \in [Requests -> Seen]
    BY <1>9 DEF TypeOK, FindLive, Seen, LiveTokens
  <2> QED
    BY <1>9, <2>1, <2>2, PassTyped DEF FindLive
<1>10. ASSUME NEW r \in Requests, FindUser(r)
      PROVE  TypeOK'
  <2>1. pc[r] \in Running /\ Proceeds(r)
    BY <1>10 DEF FindUser, Proceeds, Steps, Outcomes, Running
  <2>2. saw' \in [Requests -> Seen]
    BY <1>10, UserTyped, SeenTyped DEF TypeOK, FindUser
  <2> QED
    BY <1>10, <2>1, <2>2, PassTyped DEF FindUser
<1>11. ASSUME NEW r \in Requests, Compare(r)
      PROVE  TypeOK'
  <2>1. pc[r] \in Running /\ Proceeds(r)
    BY <1>11 DEF Compare, Proceeds, Steps, Outcomes, Running
  <2>2. saw' \in [Requests -> Seen]
    BY <1>11 DEF TypeOK, Compare, Seen
  <2> QED
    BY <1>11, <2>1, <2>2, PassTyped DEF Compare
<1>12. ASSUME NEW r \in Requests, Invalidate(r)
      PROVE  TypeOK'
  <2>1. pc[r] \in Running /\ Proceeds(r)
    BY <1>12 DEF Invalidate, Proceeds, Steps, Outcomes, Running
  <2>2. store' \in [Names -> Sessions \cup {None}]
    BY <1>12, <2>1, ControlTyped DEF TypeOK, Invalidate, Drop
  <2> QED
    BY <1>12, <2>1, <2>2, ControlTyped DEF TypeOK, Invalidate, rows, world
<1>13. ASSUME NEW r \in Requests, SaveToken(r)
      PROVE  TypeOK'
  <2>1. pc[r] \in Running /\ Proceeds(r)
    BY <1>13 DEF SaveToken, Proceeds, Steps, Outcomes, Running
  <2>2. req' \in [Requests -> Commands \cup {NoCommand}] /\ req'[r] \in Commands
    BY <1>13, <2>1, ControlTyped DEF TypeOK, SaveToken, Commands, Sessions, Names
  <2>3. store' \in [Names -> Sessions \cup {None}]
    BY <1>13, <2>2 DEF TypeOK, SaveToken, Put, Commands
  <2> QED
    BY <1>13, <2>1, <2>2, <2>3, ControlTyped DEF TypeOK, SaveToken, rows, world
<1>14. ASSUME NEW r \in Requests, Register(r)
      PROVE  TypeOK'
  <2>1. pc[r] \in Running /\ Proceeds(r)
    BY <1>14 DEF Register, Proceeds, Steps, Outcomes, Running
  <2>2. req[r].given \in Passwords \cup {None}
    BY <2>1, ControlTyped DEF Commands
  <2>3. [status |-> "active", verified |-> FALSE, version |-> 0,
         password |-> req[r].given] \in Users
    BY <2>2 DEF Users, Statuses
  <2>4. user' \in Users
    BY <1>14, <2>3 DEF TypeOK, Register
  <2> QED
    BY <1>14, <2>1, <2>4, ControlTyped DEF TypeOK, Register, rows, world
<1>15. ASSUME NEW r \in Requests, CommitChange(r)
      PROVE  TypeOK'
  <2>1. pc[r] \in Running /\ Proceeds(r)
    BY <1>15 DEF CommitChange, Proceeds, Steps, Outcomes, Running
  <2>2. user.version + 1 \in Nat /\ req[r].wanted \in Passwords \cup {None}
    BY <2>1, ControlTyped, UserTyped DEF Commands
  <2>3. user' \in Users
    <3>1. [user EXCEPT !.password = req[r].wanted, !.version = user.version + 1]
            \in Users
      BY <2>2, UserUpdated DEF TypeOK
    <3>2. \/ user' = user
          \/ user' = [user EXCEPT !.password = req[r].wanted, !.version = user.version + 1]
      BY <1>15 DEF CommitChange, VersionAfter
    <3> QED
      BY <3>1, <3>2 DEF TypeOK
  <2>4. saw' \in [Requests -> Seen]
    <3>1. saw' = saw \/ saw' = [saw EXCEPT ![r].version = user.version + 1]
      BY <1>15 DEF CommitChange, VersionAfter
    <3>2. [saw[r] EXCEPT !.version = user.version + 1] \in Seen
      BY <2>2, SeenTyped, UserTyped DEF TypeOK
    <3> QED
      BY <3>1, <3>2 DEF TypeOK
  <2> QED
    BY <1>15, <2>1, <2>3, <2>4, ControlTyped DEF TypeOK, CommitChange, rows, world
<1>16. ASSUME NEW r \in Requests, Regenerate(r)
      PROVE  TypeOK'
  <2>1. pc[r] \in Running /\ Proceeds(r)
    BY <1>16 DEF Regenerate, Proceeds, Steps, Outcomes, Running
  <2>2. /\ store' \in [Names -> Sessions \cup {None}]
        /\ req' \in [Requests -> Commands \cup {NoCommand}]
        /\ req'[r] \in Commands
    BY <1>16, <2>1, ControlTyped DEF TypeOK, Regenerate, Drop, Commands, Names
  <2> QED
    BY <1>16, <2>1, <2>2, ControlTyped DEF TypeOK, Regenerate, rows, world
<1>17. ASSUME NEW r \in Requests, SaveSession(r)
      PROVE  TypeOK'
  <2>1. pc[r] \in Running /\ Proceeds(r)
    BY <1>17 DEF SaveSession, Proceeds, Steps, Outcomes, Running
  <2>2. store' \in [Names -> Sessions \cup {None}]
    BY <1>17, <2>1, ControlTyped DEF TypeOK, SaveSession, Put, EstablishedVersion, Sessions, Seen
  <2> QED
    BY <1>17, <2>1, <2>2, ControlTyped DEF TypeOK, SaveSession, rows, world
<1>18. ASSUME NEW r \in Requests, Increment(r)
      PROVE  TypeOK'
  <2>1. pc[r] \in Running /\ Proceeds(r)
    BY <1>18 DEF Increment, Proceeds, Steps, Outcomes, Running
  <2>2. user' \in Users
    BY <1>18, <2>1, ControlTyped DEF TypeOK, Increment, Users
  <2> QED
    BY <1>18, <2>1, <2>2, ControlTyped DEF TypeOK, Increment, rows, world
<1>19. ASSUME NEW r \in Requests, Destroy(r)
      PROVE  TypeOK'
  <2>1. pc[r] \in Running /\ Proceeds(r)
    BY <1>19 DEF Destroy, Proceeds, Steps, Outcomes, Running
  <2>2. store' \in [Names -> Sessions \cup {None}]
    BY <1>19, <2>1, ControlTyped DEF TypeOK, Destroy, Drop
  <2> QED
    BY <1>19, <2>1, <2>2, ControlTyped DEF TypeOK, Destroy, rows, world
<1>20. ASSUME NEW r \in Requests, Issue(r)
      PROVE  TypeOK'
  <2>1. pc[r] \in Running /\ Proceeds(r)
    BY <1>20 DEF Issue, Proceeds, Steps, Outcomes, Running
  <2>2. tokens' \in [Names -> TokenStates]
    BY <1>20, <2>1, ControlTyped DEF TypeOK, Issue, TokenStates
  <2> QED
    BY <1>20, <2>1, <2>2, ControlTyped DEF TypeOK, Issue, rows, world
<1>21. ASSUME NEW r \in Requests, Deliver(r)
      PROVE  TypeOK'
  <2>1. pc[r] \in Running /\ Proceeds(r)
    BY <1>21 DEF Deliver, Proceeds, Steps, Outcomes, Running
  <2>2. mailed' \subseteq Names
    BY <1>21, <2>1, ControlTyped DEF TypeOK, Deliver, Names
  <2> QED
    BY <1>21, <2>1, <2>2, ControlTyped DEF TypeOK, Deliver, rows, world
<1>22. ASSUME NEW r \in Requests, FailDelivery(r)
      PROVE  TypeOK'
  <2>1. pc[r] \in Running /\ Proceeds(r)
    BY <1>22 DEF FailDelivery, Proceeds, Steps, Outcomes, Running
  <2>2. mailed' \subseteq Names
    BY <1>22, <2>1, ControlTyped DEF TypeOK, FailDelivery, Names
  <2> QED
    BY <1>22, <2>1, <2>2, ControlTyped DEF TypeOK, FailDelivery, rows, world
<1>23. ASSUME NEW r \in Requests, DeleteToken(r)
      PROVE  TypeOK'
  <2>1. pc[r] \in Running /\ Proceeds(r)
    BY <1>23 DEF DeleteToken, Proceeds, Steps, Outcomes, Running
  <2>2. tokens' \in [Names -> TokenStates]
    BY <1>23, <2>1, ControlTyped DEF TypeOK, DeleteToken, TokenStates
  <2> QED
    BY <1>23, <2>1, <2>2, ControlTyped DEF TypeOK, DeleteToken, rows, world
<1>24. ASSUME NEW r \in Requests, SaveUser(r)
      PROVE  TypeOK'
  <2>1. pc[r] \in Running /\ Proceeds(r)
    BY <1>24 DEF SaveUser, Proceeds, Steps, Outcomes, Running
  <2>2. /\ user' \in Users
        /\ tokens' \in [Names -> TokenStates]
    BY <1>24, <2>1, ControlTyped DEF TypeOK, SaveUser, Users, Seen, TokenStates
  <2> QED
    BY <1>24, <2>1, <2>2, ControlTyped DEF TypeOK, SaveUser, rows, world
<1>25. ASSUME NEW r \in Requests, Respond(r) \/ Fail(r)
      PROVE  TypeOK'
  <2>1. pc[r] \in Running /\ req[r] \in Commands /\ Anonymous \in Sessions
    BY <1>25 DEF TypeOK, Respond, Fail, Running, Steps, Anonymous, Sessions
  <2>2. /\ pc' \in [Requests -> Steps] /\ outcome' \in [Requests -> Outcomes]
        /\ \A q \in Requests : pc'[q] \in Running => q # r /\ req[q] \in Commands
    BY <1>25 DEF TypeOK, Respond, Fail, Goto, Steps, Running, Outcomes
  <2>3. /\ req' \in [Requests -> Commands \cup {NoCommand}]
        /\ \A q \in Requests \ {r} : req'[q] = req[q]
    BY <1>25, <2>1 DEF TypeOK, Respond, Fail, Forget, Commands
  <2>4. saw' \in [Requests -> Seen]
    <3>1. NothingSeen \in Seen
      BY DEF Seen, NothingSeen, Statuses
    <3> QED
      BY <1>25, <3>1 DEF TypeOK, Respond, Fail, Forget
  <2>5. store' \in [Names -> Sessions \cup {None}]
    BY <1>25 DEF TypeOK, Respond, Fail, Drop
  <2>6. /\ cookie' \in [Browsers -> Names \cup {None}]
        /\ csrf' \in [Browsers -> Names \cup {None}]
    BY <1>25, <2>1 DEF TypeOK, Respond, Fail, Sid, Browser, Commands, Sessions, world
  <2>7. UNCHANGED <<rows, verification>>
    BY <1>25 DEF Respond, Fail, world
  <2> QED
    BY <2>2, <2>3, <2>4, <2>5, <2>6, <2>7 DEF TypeOK, rows
<1>26. ASSUME NEW s \in Names, ExpireSession(s)
      PROVE  TypeOK'
  BY <1>26 DEF TypeOK, ExpireSession, Drop, TokenStates, rows, world
<1>27. ASSUME NEW s \in Names, ExpireToken(s)
      PROVE  TypeOK'
  BY <1>27 DEF TypeOK, ExpireToken, Drop, TokenStates, rows, world
<1>28. CASE StaffCommand
  BY <1>28 DEF TypeOK, StaffCommand, Users, Statuses, rows, world
<1>29. CASE Disable
  BY <1>29 DEF TypeOK, Disable, Users, Statuses, rows, world
<1> QED
  BY <1>0, <1>1, <1>2, <1>3, <1>4, <1>5, <1>6, <1>7, <1>8, <1>9, <1>10, <1>11,
     <1>12, <1>13, <1>14, <1>15, <1>16, <1>17, <1>18, <1>19, <1>20, <1>21,
     <1>22, <1>23, <1>24, <1>25, <1>26, <1>27, <1>28, <1>29 DEF Next, Finished

\* Identity.TypeOK, for every instance.
THEOREM TypeCorrect == Spec => []TypeOK
BY TypeInit, TypeStep, PTL DEF Spec
-----------------------------------------------------------------------------
(* Steps and kinds *)

Signs == {"register", "login", "change"}   \* the kinds that obtain a session

\* A request is where its endpoint leads, and the endpoints of verification are
\* there only where it is required.
StepsFitKinds ==
  \A r \in Requests :
    /\ pc[r] = "saveToken" => Kind(r) = "csrf"
    /\ pc[r] = "guard" => Kind(r) \in Guarded
    /\ pc[r] = "insert" => Kind(r) = "register"
    /\ pc[r] = "readUser" => Kind(r) = "login"
    /\ pc[r] = "readCredential" => Kind(r) \in {"login", "change"}
    /\ pc[r] = "commitChange" => Kind(r) = "change"
    /\ pc[r] = "increment" => Kind(r) = "logoutAll"
    /\ pc[r] = "destroy" => Kind(r) \in {"logout", "logoutAll"}
    /\ pc[r] \in {"regenerate", "save"} => Kind(r) \in Signs
    /\ pc[r] \in {"findMailUser", "findLive", "issue", "deliver", "deleteToken"}
         => Kind(r) = "requestMail"
    /\ pc[r] \in {"findToken", "findUser", "compare", "saveUser"}
         => Kind(r) = "confirm"
    /\ Kind(r) \in {"requestMail", "confirm"} => verification

\* What a request does.
Moves(r) ==
  \/ Begin(r) \/ Throttle(r)
  \/ PassGuard(r) \/ FailGuard(r) \/ Invalidate(r)
  \/ SaveToken(r) \/ Register(r) \/ ReadUser(r) \/ ReadCredential(r)
  \/ CommitChange(r) \/ Regenerate(r) \/ SaveSession(r)
  \/ Increment(r) \/ Destroy(r)
  \/ FindMailUser(r) \/ FindLive(r) \/ Issue(r)
  \/ Deliver(r) \/ FailDelivery(r) \/ DeleteToken(r)
  \/ FindToken(r) \/ FindUser(r) \/ Compare(r) \/ SaveUser(r)
  \/ Respond(r) \/ Fail(r)

\* What anyone else does: the world outside.
Elsewhere ==
  \/ \E s \in Names : ExpireSession(s) \/ ExpireToken(s)
  \/ StaffCommand \/ Disable \/ UNCHANGED vars

\* A step is a request's or somebody else's, who leaves the requests alone; none
\* changes the setting.
LEMMA NextCases ==
  ASSUME [Next]_vars
  PROVE  /\ (\E r \in Requests : Moves(r)) \/ Elsewhere
         /\ Elsewhere => UNCHANGED <<world, pc, req, saw, outcome>>
         /\ verification' = verification
<1>1. (\E r \in Requests : Moves(r)) \/ Elsewhere
  BY DEF Next, Moves, Elsewhere, Finished
<1>2. Elsewhere => UNCHANGED <<world, pc, req, saw, outcome>>
  BY DEF Elsewhere, ExpireSession, ExpireToken, StaffCommand, Disable, vars
<1>3. \A r \in Requests : Moves(r) => verification' = verification
  <2> SUFFICES ASSUME NEW r \in Requests, Moves(r)
               PROVE  verification' = verification
    OBVIOUS
  <2>1. CASE Respond(r)
    BY <2>1 DEF Respond
  <2>2. CASE ~ Respond(r)
    BY <2>2 DEF Moves, world, Begin, Throttle, PassGuard, FailGuard,
       Invalidate, SaveToken, Register, ReadUser, ReadCredential,
       CommitChange, Regenerate, SaveSession, Increment, Destroy,
       FindMailUser, FindLive, Issue, Deliver, FailDelivery, DeleteToken,
       FindToken, FindUser, Compare, SaveUser, Fail
  <2> QED
    BY <2>1, <2>2
<1> QED
  BY <1>1, <1>2, <1>3 DEF world

\* A step of one request leaves the others where they are and what they carry.
LEMMA OthersKept ==
  ASSUME TypeOK, NEW r \in Requests, Moves(r), NEW q \in Requests, q # r
  PROVE  /\ pc'[q] = pc[q] /\ req'[q] = req[q]
         /\ saw'[q] = saw[q] /\ outcome'[q] = outcome[q]
<1>1. CASE Begin(r)
  BY <1>1 DEF TypeOK, Begin, Goto, Answer, FirstStep
<1>2. CASE Throttle(r)
  BY <1>2 DEF TypeOK, Throttle, Goto, Answer
<1>3. CASE PassGuard(r)
  BY <1>3 DEF TypeOK, PassGuard, Goto, Answer
<1>4. CASE FailGuard(r)
  BY <1>4 DEF TypeOK, FailGuard, Goto, Answer
<1>5. CASE Invalidate(r)
  BY <1>5 DEF TypeOK, Invalidate, Goto, Answer
<1>6. CASE SaveToken(r)
  BY <1>6 DEF TypeOK, SaveToken, Goto, Answer
<1>7. CASE Register(r)
  BY <1>7 DEF TypeOK, Register, Goto, Answer
<1>8. CASE ReadUser(r)
  BY <1>8 DEF TypeOK, ReadUser, Goto, Answer
<1>9. CASE ReadCredential(r)
  BY <1>9 DEF TypeOK, ReadCredential, Goto, Answer
<1>10. CASE CommitChange(r)
  BY <1>10 DEF TypeOK, CommitChange, Goto, Answer
<1>11. CASE Regenerate(r)
  BY <1>11 DEF TypeOK, Regenerate, Goto, Answer
<1>12. CASE SaveSession(r)
  BY <1>12 DEF TypeOK, SaveSession, Goto, Answer
<1>13. CASE Increment(r)
  BY <1>13 DEF TypeOK, Increment, Goto, Answer
<1>14. CASE Destroy(r)
  BY <1>14 DEF TypeOK, Destroy, Goto, Answer
<1>15. CASE FindMailUser(r)
  BY <1>15 DEF TypeOK, FindMailUser, Goto, Answer
<1>16. CASE FindLive(r)
  BY <1>16 DEF TypeOK, FindLive, Goto, Answer
<1>17. CASE Issue(r)
  BY <1>17 DEF TypeOK, Issue, Goto, Answer
<1>18. CASE Deliver(r)
  BY <1>18 DEF TypeOK, Deliver, Goto, Answer
<1>19. CASE FailDelivery(r)
  BY <1>19 DEF TypeOK, FailDelivery, Goto, Answer
<1>20. CASE DeleteToken(r)
  BY <1>20 DEF TypeOK, DeleteToken, Goto, Answer
<1>21. CASE FindToken(r)
  BY <1>21 DEF TypeOK, FindToken, Goto, Answer
<1>22. CASE FindUser(r)
  BY <1>22 DEF TypeOK, FindUser, Goto, Answer
<1>23. CASE Compare(r)
  BY <1>23 DEF TypeOK, Compare, Goto, Answer
<1>24. CASE SaveUser(r)
  BY <1>24 DEF TypeOK, SaveUser, Goto, Answer
<1>25. CASE Respond(r)
  BY <1>25 DEF TypeOK, Respond, Goto, Answer, Forget
<1>26. CASE Fail(r)
  BY <1>26 DEF TypeOK, Fail, Goto, Answer, Forget
<1> QED
  BY <1>1, <1>2, <1>3, <1>4, <1>5, <1>6, <1>7, <1>8, <1>9, <1>10, <1>11,
     <1>12, <1>13, <1>14, <1>15, <1>16, <1>17, <1>18, <1>19, <1>20, <1>21,
     <1>22, <1>23, <1>24, <1>25, <1>26 DEF Moves

\* What a request is, and what it carries besides the session, never changes once
\* it has begun; its session id does where it regenerates the session.
LEMMA CommandKept ==
  ASSUME TypeOK, NEW r \in Requests, Moves(r), pc[r] # "idle"
  PROVE  /\ req'[r].kind = req[r].kind /\ req'[r].given = req[r].given
         /\ req'[r].wanted = req[r].wanted /\ req'[r].mail = req[r].mail
         /\ req'[r].sid = req[r].sid \/ Regenerate(r)
         /\ pc'[r] # "idle"
<1>1. CASE Throttle(r)
  BY <1>1 DEF TypeOK, Throttle, Goto, Answer
<1>2. CASE PassGuard(r)
  BY <1>2 DEF TypeOK, PassGuard, Goto, Answer, AfterGuard
<1>3. CASE FailGuard(r)
  BY <1>3 DEF TypeOK, FailGuard, Goto, Answer
<1>4. CASE Invalidate(r)
  BY <1>4 DEF TypeOK, Invalidate, Goto, Answer
<1>5. CASE SaveToken(r)
  <2>1. req[r] \in Commands /\ pc'[r] # "idle"
    BY <1>5 DEF TypeOK, SaveToken, Goto, Answer, Running, Steps
  <2> QED
    BY <1>5, <2>1 DEF TypeOK, SaveToken, Commands
<1>6. CASE Register(r)
  BY <1>6 DEF TypeOK, Register, Goto, Answer
<1>7. CASE ReadUser(r)
  BY <1>7 DEF TypeOK, ReadUser, Goto, Answer
<1>8. CASE ReadCredential(r)
  BY <1>8 DEF TypeOK, ReadCredential, Goto, Answer
<1>9. CASE CommitChange(r)
  BY <1>9 DEF TypeOK, CommitChange, Goto, Answer
<1>10. CASE Regenerate(r)
  <2>1. req[r] \in Commands /\ pc'[r] # "idle"
    BY <1>10 DEF TypeOK, Regenerate, Goto, Answer, Running, Steps
  <2> QED
    BY <1>10, <2>1 DEF TypeOK, Regenerate, Commands
<1>11. CASE SaveSession(r)
  BY <1>11 DEF TypeOK, SaveSession, Goto, Answer
<1>12. CASE Increment(r)
  BY <1>12 DEF TypeOK, Increment, Goto, Answer
<1>13. CASE Destroy(r)
  BY <1>13 DEF TypeOK, Destroy, Goto, Answer
<1>14. CASE FindMailUser(r)
  BY <1>14 DEF TypeOK, FindMailUser, Goto, Answer
<1>15. CASE FindLive(r)
  BY <1>15 DEF TypeOK, FindLive, Goto, Answer
<1>16. CASE Issue(r)
  BY <1>16 DEF TypeOK, Issue, Goto, Answer
<1>17. CASE Deliver(r)
  BY <1>17 DEF TypeOK, Deliver, Goto, Answer
<1>18. CASE FailDelivery(r)
  BY <1>18 DEF TypeOK, FailDelivery, Goto, Answer
<1>19. CASE DeleteToken(r)
  BY <1>19 DEF TypeOK, DeleteToken, Goto, Answer
<1>20. CASE FindToken(r)
  BY <1>20 DEF TypeOK, FindToken, Goto, Answer
<1>21. CASE FindUser(r)
  BY <1>21 DEF TypeOK, FindUser, Goto, Answer
<1>22. CASE Compare(r)
  BY <1>22 DEF TypeOK, Compare, Goto, Answer
<1>23. CASE SaveUser(r)
  BY <1>23 DEF TypeOK, SaveUser, Goto, Answer
<1>24. CASE Respond(r)
  <2>1. req[r] \in Commands /\ pc'[r] # "idle"
    BY <1>24 DEF TypeOK, Respond, Goto, Answer, Running, Steps
  <2> QED
    BY <1>24, <2>1 DEF TypeOK, Respond, Commands, Forget
<1>25. CASE Fail(r)
  <2>1. req[r] \in Commands /\ pc'[r] # "idle"
    BY <1>25 DEF TypeOK, Fail, Goto, Answer, Running, Steps
  <2> QED
    BY <1>25, <2>1 DEF TypeOK, Fail, Commands, Forget
<1> QED
  BY <1>1, <1>2, <1>3, <1>4, <1>5, <1>6, <1>7, <1>8, <1>9, <1>10, <1>11,
     <1>12, <1>13, <1>14, <1>15, <1>16, <1>17, <1>18, <1>19, <1>20, <1>21,
     <1>22, <1>23, <1>24, <1>25 DEF Moves, Begin

\* At the start no request has begun.
LEMMA StepsInit == Init => StepsFitKinds
BY DEF Init, StepsFitKinds, Kind, NoCommand

\* A request that begins takes the first step of its kind.
LEMMA BegunCommand ==
  ASSUME TypeOK, NEW r \in Requests, Begin(r)
  PROVE  \E k \in Kinds, b \in Browsers :
           /\ PassesMiddleware(k, b)
           /\ req'[r].kind = k /\ req'[r].sid = LoadedSid(r, b)
           /\ req'[r].session = LoadedSession(b)
           /\ k = "confirm" => req'[r].mail \in mailed
           /\ pc[r] = "idle" /\ pc'[r] \in {FirstStep(k), "respond"}
           /\ pc'[r] = "respond" <=> k = "csrf" /\ LoadedSession(b).csrf # None
           /\ outcome'[r] = outcome[r] \/ (pc'[r] = "respond" /\ outcome'[r] = "ok")
           /\ UNCHANGED <<rows, store, world, saw>>
<1>1. PICK k \in Endpoints[verification], b \in Browsers : \E body \in Bodies(k) :
        /\ PassesMiddleware(k, b)
        /\ req' = [req EXCEPT ![r] =
             [kind |-> k, browser |-> b, sid |-> LoadedSid(r, b),
              session |-> LoadedSession(b), given |-> body.given,
              wanted |-> body.wanted, mail |-> body.mail]]
        /\ IF k = "csrf" /\ LoadedSession(b).csrf # None
           THEN Answer(r, "ok")
           ELSE Goto(r, FirstStep(k)) /\ UNCHANGED outcome
  BY DEF Begin
<1>2. k \in Kinds
  BY IdentityAssumption DEF TypeOK
<1>3. FirstStep(k) # "respond"
  BY <1>2 DEF FirstStep, Kinds, Guarded
<1>4. /\ req'[r].kind = k /\ req'[r].sid = LoadedSid(r, b)
      /\ req'[r].session = LoadedSession(b)
      /\ k = "confirm" => req'[r].mail \in mailed
  BY <1>1 DEF TypeOK, Bodies
<1>5. /\ pc'[r] \in {FirstStep(k), "respond"}
      /\ pc'[r] = "respond" <=> k = "csrf" /\ LoadedSession(b).csrf # None
      /\ outcome'[r] = outcome[r] \/ (pc'[r] = "respond" /\ outcome'[r] = "ok")
  BY <1>1, <1>3 DEF TypeOK, Answer, Goto
<1> QED
  BY <1>1, <1>2, <1>4, <1>5 DEF Begin

\* Every step takes a request where its kind leads.
LEMMA StepsStep == TypeOK /\ StepsFitKinds /\ [Next]_vars => StepsFitKinds'
<1> SUFFICES ASSUME TypeOK, StepsFitKinds, [Next]_vars
             PROVE  StepsFitKinds'
  OBVIOUS
<1> DEFINE Fits(r) ==
      /\ pc[r] = "saveToken" => Kind(r) = "csrf"
      /\ pc[r] = "guard" => Kind(r) \in Guarded
      /\ pc[r] = "insert" => Kind(r) = "register"
      /\ pc[r] = "readUser" => Kind(r) = "login"
      /\ pc[r] = "readCredential" => Kind(r) \in {"login", "change"}
      /\ pc[r] = "commitChange" => Kind(r) = "change"
      /\ pc[r] = "increment" => Kind(r) = "logoutAll"
      /\ pc[r] = "destroy" => Kind(r) \in {"logout", "logoutAll"}
      /\ pc[r] \in {"regenerate", "save"} => Kind(r) \in Signs
      /\ pc[r] \in {"findMailUser", "findLive", "issue", "deliver", "deleteToken"}
           => Kind(r) = "requestMail"
      /\ pc[r] \in {"findToken", "findUser", "compare", "saveUser"}
           => Kind(r) = "confirm"
      /\ Kind(r) \in {"requestMail", "confirm"} => verification
<1>1. CASE Elsewhere
  BY <1>1, NextCases DEF StepsFitKinds, Kind
<1>2. ASSUME NEW r \in Requests, Moves(r)
      PROVE  StepsFitKinds'
  <2>1. ASSUME NEW q \in Requests, q # r
        PROVE  Fits(q)'
    <3>1. pc'[q] = pc[q] /\ req'[q] = req[q] /\ verification' = verification
      BY <1>2, <2>1, OthersKept, NextCases
    <3> QED
      BY <3>1 DEF StepsFitKinds, Kind
  <2>2. Fits(r)'
    <3>0. Fits(r) /\ verification' = verification
      BY NextCases DEF StepsFitKinds
    <3>1. CASE Begin(r)
      <4>1. PICK k \in Kinds, b \in Browsers :
              /\ PassesMiddleware(k, b)
              /\ req'[r].kind = k /\ pc'[r] \in {FirstStep(k), "respond"}
        BY <3>1, BegunCommand
      <4> QED
        BY <3>0, <4>1 DEF FirstStep, Kinds, Kind, Guarded, PassesMiddleware, Signs
    <3>2. CASE ~ Begin(r)
      <4>1. Kind(r)' = Kind(r)
        BY <1>2, <3>2, CommandKept DEF Kind, Moves, Running, Steps,
           Throttle, PassGuard, FailGuard, Invalidate, SaveToken, Register,
           ReadUser, ReadCredential, CommitChange, Regenerate, SaveSession,
           Increment, Destroy, FindMailUser, FindLive, Issue, Deliver,
           FailDelivery, DeleteToken, FindToken, FindUser, Compare, SaveUser,
           Respond, Fail
      <4>2. CASE Throttle(r)
        BY <4>2, <3>0, <4>1 DEF TypeOK, Throttle, Goto, Answer
      <4>3. CASE PassGuard(r)
        BY <4>3, <3>0, <4>1 DEF TypeOK, PassGuard, Goto, Answer, AfterGuard, Guarded
      <4>4. CASE FailGuard(r)
        BY <4>4, <3>0, <4>1 DEF TypeOK, FailGuard, Goto, Answer
      <4>5. CASE Invalidate(r)
        BY <4>5, <3>0, <4>1 DEF TypeOK, Invalidate, Goto, Answer
      <4>6. CASE SaveToken(r)
        BY <4>6, <3>0, <4>1 DEF TypeOK, SaveToken, Goto, Answer
      <4>7. CASE Register(r)
        BY <4>7, <3>0, <4>1 DEF TypeOK, Register, Goto, Answer, Signs
      <4>8. CASE ReadUser(r)
        BY <4>8, <3>0, <4>1 DEF TypeOK, ReadUser, Goto, Answer
      <4>9. CASE ReadCredential(r)
        BY <4>9, <3>0, <4>1 DEF TypeOK, ReadCredential, Goto, Answer, Signs
      <4>10. CASE CommitChange(r)
        BY <4>10, <3>0, <4>1 DEF TypeOK, CommitChange, Goto, Answer, Signs
      <4>11. CASE Regenerate(r)
        BY <4>11, <3>0, <4>1 DEF TypeOK, Regenerate, Goto, Answer, Signs
      <4>12. CASE SaveSession(r)
        BY <4>12, <3>0, <4>1 DEF TypeOK, SaveSession, Goto, Answer
      <4>13. CASE Increment(r)
        BY <4>13, <3>0, <4>1 DEF TypeOK, Increment, Goto, Answer
      <4>14. CASE Destroy(r)
        BY <4>14, <3>0, <4>1 DEF TypeOK, Destroy, Goto, Answer
      <4>15. CASE FindMailUser(r)
        BY <4>15, <3>0, <4>1 DEF TypeOK, FindMailUser, Goto, Answer
      <4>16. CASE FindLive(r)
        BY <4>16, <3>0, <4>1 DEF TypeOK, FindLive, Goto, Answer
      <4>17. CASE Issue(r)
        BY <4>17, <3>0, <4>1 DEF TypeOK, Issue, Goto, Answer
      <4>18. CASE Deliver(r)
        BY <4>18, <3>0, <4>1 DEF TypeOK, Deliver, Goto, Answer
      <4>19. CASE FailDelivery(r)
        BY <4>19, <3>0, <4>1 DEF TypeOK, FailDelivery, Goto, Answer
      <4>20. CASE DeleteToken(r)
        BY <4>20, <3>0, <4>1 DEF TypeOK, DeleteToken, Goto, Answer
      <4>21. CASE FindToken(r)
        BY <4>21, <3>0, <4>1 DEF TypeOK, FindToken, Goto, Answer
      <4>22. CASE FindUser(r)
        BY <4>22, <3>0, <4>1 DEF TypeOK, FindUser, Goto, Answer
      <4>23. CASE Compare(r)
        BY <4>23, <3>0, <4>1 DEF TypeOK, Compare, Goto, Answer
      <4>24. CASE SaveUser(r)
        BY <4>24, <3>0, <4>1 DEF TypeOK, SaveUser, Goto, Answer
      <4>25. CASE Respond(r)
        BY <4>25, <3>0, <4>1 DEF TypeOK, Respond, Goto, Answer
      <4>26. CASE Fail(r)
        BY <4>26, <3>0, <4>1 DEF TypeOK, Fail, Goto, Answer
      <4> QED
        BY <1>2, <3>2, <4>2, <4>3, <4>4, <4>5, <4>6, <4>7, <4>8, <4>9, <4>10,
           <4>11, <4>12, <4>13, <4>14, <4>15, <4>16, <4>17, <4>18, <4>19,
           <4>20, <4>21, <4>22, <4>23, <4>24, <4>25, <4>26 DEF Moves
    <3> QED
      BY <3>1, <3>2
  <2> QED
    BY <2>1, <2>2 DEF StepsFitKinds
<1> QED
  BY <1>1, <1>2, NextCases

\* Every request goes the way of its endpoint.
LEMMA StepsCorrect == Spec => []StepsFitKinds
BY TypeCorrect, StepsInit, StepsStep, PTL DEF Spec

\* Each move takes the request on, and into each step from few others only.
LEMMA Arrives ==
  ASSUME TypeOK, NEW r \in Requests, Moves(r)
  PROVE  /\ pc'[r] # pc[r] /\ pc'[r] # "idle"
         /\ pc[r] \in {"respond", "done"} => pc'[r] = "done"
         /\ pc'[r] = "saveToken" => Begin(r)
         /\ pc'[r] = "insert" => Begin(r)
         /\ pc'[r] = "save" => Regenerate(r)
         /\ pc'[r] = "regenerate" => Register(r) \/ ReadCredential(r) \/ CommitChange(r)
         /\ pc'[r] = "readCredential" => ReadUser(r) \/ PassGuard(r)
         /\ pc'[r] = "findToken" => Begin(r)
         /\ pc'[r] = "findUser" => FindToken(r)
         /\ pc'[r] = "compare" => FindUser(r)
         /\ pc'[r] = "saveUser" => Compare(r)
<1>1. CASE Begin(r)
  <2>1. PICK k \in Kinds, b \in Browsers : pc'[r] \in {FirstStep(k), "respond"}
    BY <1>1, BegunCommand
  <2>2. FirstStep(k) # "idle" /\ FirstStep(k) \notin {"save", "regenerate",
          "findUser", "compare", "saveUser"}
    BY DEF FirstStep, Kinds, Guarded
  <2>3. FirstStep(k) # "readCredential" /\ pc[r] = "idle"
    BY <1>1 DEF FirstStep, Kinds, Guarded, Begin
  <2> QED
    BY <1>1, <2>1, <2>2, <2>3
<1>2. CASE Throttle(r)
  BY <1>2 DEF Throttle, TypeOK, Goto, Answer, Running, Steps
<1>3. CASE PassGuard(r)
  BY <1>3 DEF TypeOK, PassGuard, Goto, Answer, AfterGuard, Running, Steps
<1>4. CASE FailGuard(r)
  BY <1>4 DEF FailGuard, TypeOK, Goto, Answer, Running, Steps
<1>5. CASE Invalidate(r)
  BY <1>5 DEF Invalidate, TypeOK, Goto, Answer, Running, Steps
<1>6. CASE SaveToken(r)
  BY <1>6 DEF SaveToken, TypeOK, Goto, Answer, Running, Steps
<1>7. CASE Register(r)
  BY <1>7 DEF Register, TypeOK, Goto, Answer, Running, Steps
<1>8. CASE ReadUser(r)
  BY <1>8 DEF ReadUser, TypeOK, Goto, Answer, Running, Steps
<1>9. CASE ReadCredential(r)
  BY <1>9 DEF ReadCredential, TypeOK, Goto, Answer, Running, Steps
<1>10. CASE CommitChange(r)
  BY <1>10 DEF CommitChange, TypeOK, Goto, Answer, Running, Steps
<1>11. CASE Regenerate(r)
  BY <1>11 DEF Regenerate, TypeOK, Goto, Answer, Running, Steps
<1>12. CASE SaveSession(r)
  BY <1>12 DEF SaveSession, TypeOK, Goto, Answer, Running, Steps
<1>13. CASE Increment(r)
  BY <1>13 DEF Increment, TypeOK, Goto, Answer, Running, Steps
<1>14. CASE Destroy(r)
  BY <1>14 DEF Destroy, TypeOK, Goto, Answer, Running, Steps
<1>15. CASE FindMailUser(r)
  BY <1>15 DEF FindMailUser, TypeOK, Goto, Answer, Running, Steps
<1>16. CASE FindLive(r)
  BY <1>16 DEF FindLive, TypeOK, Goto, Answer, Running, Steps
<1>17. CASE Issue(r)
  BY <1>17 DEF Issue, TypeOK, Goto, Answer, Running, Steps
<1>18. CASE Deliver(r)
  BY <1>18 DEF Deliver, TypeOK, Goto, Answer, Running, Steps
<1>19. CASE FailDelivery(r)
  BY <1>19 DEF FailDelivery, TypeOK, Goto, Answer, Running, Steps
<1>20. CASE DeleteToken(r)
  BY <1>20 DEF DeleteToken, TypeOK, Goto, Answer, Running, Steps
<1>21. CASE FindToken(r)
  BY <1>21 DEF FindToken, TypeOK, Goto, Answer, Running, Steps
<1>22. CASE FindUser(r)
  BY <1>22 DEF FindUser, TypeOK, Goto, Answer, Running, Steps
<1>23. CASE Compare(r)
  BY <1>23 DEF Compare, TypeOK, Goto, Answer, Running, Steps
<1>24. CASE SaveUser(r)
  BY <1>24 DEF SaveUser, TypeOK, Goto, Answer, Running, Steps
<1>25. CASE Respond(r)
  BY <1>25 DEF Respond, TypeOK, Goto, Answer, Running, Steps
<1>26. CASE Fail(r)
  BY <1>26 DEF Fail, TypeOK, Goto, Answer, Running, Steps
<1> QED
  BY <1>1, <1>2, <1>3, <1>4, <1>5, <1>6, <1>7, <1>8, <1>9, <1>10, <1>11,
     <1>12, <1>13, <1>14, <1>15, <1>16, <1>17, <1>18, <1>19, <1>20, <1>21,
     <1>22, <1>23, <1>24, <1>25, <1>26 DEF Moves

\* The store is written where a token or a session is saved; everything else
\* only removes sessions.
LEMMA StoreWrites ==
  ASSUME TypeOK, [Next]_vars, NEW s \in Names
  PROVE  \/ store'[s] = store[s]
         \/ store'[s] = None
         \/ \E r \in Requests : Sid(r) = s /\ (SaveToken(r) \/ SaveSession(r))
<1>1. CASE Elsewhere
  BY <1>1 DEF TypeOK, Elsewhere, ExpireSession, ExpireToken, StaffCommand, Disable,
     vars, Drop
<1>2. ASSUME NEW r \in Requests, Moves(r), ~ SaveToken(r), ~ SaveSession(r)
      PROVE  store'[s] = store[s] \/ store'[s] = None
  <2>1. UNCHANGED store \/ Drop(Sid(r))
    BY <1>2 DEF Moves, Begin, Throttle, PassGuard, FailGuard, Invalidate, Register,
       ReadUser, ReadCredential, CommitChange, Regenerate, Increment, Destroy,
       FindMailUser, FindLive, Issue, Deliver, FailDelivery, DeleteToken, FindToken,
       FindUser, Compare, SaveUser, Respond, Fail
  <2> QED
    BY <2>1 DEF TypeOK, Drop
<1>3. ASSUME NEW r \in Requests, SaveToken(r) \/ SaveSession(r)
      PROVE  store'[s] = store[s] \/ Sid(r) = s
  BY <1>3 DEF TypeOK, SaveToken, SaveSession, Put
<1> QED
  BY <1>1, <1>2, <1>3, NextCases

\* What a request is does not change once it has begun, whoever moves.
LEMMA KindKept ==
  ASSUME TypeOK, [Next]_vars, NEW q \in Requests, pc[q] # "idle"
  PROVE  /\ Kind(q)' = Kind(q) /\ req'[q].given = req[q].given
         /\ req'[q].wanted = req[q].wanted /\ req'[q].mail = req[q].mail
<1>1. CASE Elsewhere
  BY <1>1, NextCases DEF Kind
<1>2. ASSUME NEW r \in Requests, Moves(r)
      PROVE  /\ Kind(q)' = Kind(q) /\ req'[q].given = req[q].given
             /\ req'[q].wanted = req[q].wanted /\ req'[q].mail = req[q].mail
  BY <1>2, OthersKept, CommandKept DEF Kind
<1> QED
  BY <1>1, <1>2, NextCases

\* A request that a step leaves where it was is left alone.
LEMMA StandsStill ==
  ASSUME TypeOK, [Next]_vars, NEW q \in Requests
  PROVE  \/ /\ pc'[q] = pc[q] /\ req'[q] = req[q]
            /\ saw'[q] = saw[q] /\ outcome'[q] = outcome[q]
         \/ Moves(q)
BY NextCases, OthersKept
-----------------------------------------------------------------------------
(* Answers *)

\* A request has an outcome only where it is answered.
AnsweredLast == \A r \in Requests : outcome[r] # "none" => pc[r] \in {"respond", "done"}

\* A request gets its outcome where it is answered, and loses none; only a
\* confirmation that saved the user is answered well.
LEMMA AnswerCases ==
  ASSUME TypeOK, StepsFitKinds, NEW r \in Requests, Moves(r)
  PROVE  /\ outcome'[r] = outcome[r] \/ pc'[r] \in {"respond", "done"}
         /\ pc[r] \in {"respond", "done"} => outcome'[r] \in {outcome[r], "failed"}
         /\ Kind(r)' = "confirm" /\ outcome'[r] = "ok" => outcome[r] = "ok" \/ SaveUser(r)
<1>1. CASE Begin(r)
  BY <1>1, BegunCommand DEF Kind
<1>2. CASE ~ Begin(r)
  <2>1. Kind(r)' = Kind(r) /\ pc[r] # "idle"
    BY <1>2, CommandKept DEF Kind, Moves, Running, Steps, Throttle, PassGuard,
       FailGuard, Invalidate, SaveToken, Register, ReadUser, ReadCredential,
       CommitChange, Regenerate, SaveSession, Increment, Destroy, FindMailUser,
       FindLive, Issue, Deliver, FailDelivery, DeleteToken, FindToken, FindUser,
       Compare, SaveUser, Respond, Fail
  <2>2. /\ outcome'[r] = outcome[r] \/ pc'[r] \in {"respond", "done"}
        /\ pc[r] \in {"respond", "done"} => outcome'[r] \in {outcome[r], "failed"}
        /\ \/ outcome'[r] = outcome[r] \/ outcome'[r] # "ok" \/ SaveUser(r)
           \/ Kind(r) # "confirm"
    <3>2. CASE Throttle(r)
      BY <3>2 DEF TypeOK, Throttle, Goto, Answer, Running, Steps
    <3>3. CASE PassGuard(r)
      BY <3>3 DEF TypeOK, PassGuard, Goto, Answer, Running, Steps
    <3>4. CASE FailGuard(r)
      BY <3>4 DEF TypeOK, FailGuard, Goto, Answer, Running, Steps
    <3>5. CASE Invalidate(r)
      BY <3>5 DEF TypeOK, Invalidate, Goto, Answer, Running, Steps
    <3>6. CASE SaveToken(r)
      BY <3>6 DEF StepsFitKinds, Signs, TypeOK, SaveToken, Goto, Answer
    <3>7. CASE Register(r)
      BY <3>7 DEF StepsFitKinds, Signs, TypeOK, Register, Goto, Answer
    <3>8. CASE ReadUser(r)
      BY <3>8 DEF TypeOK, ReadUser, Goto, Answer, Running, Steps
    <3>9. CASE ReadCredential(r)
      BY <3>9 DEF TypeOK, ReadCredential, Goto, Answer, Running, Steps
    <3>10. CASE CommitChange(r)
      BY <3>10 DEF TypeOK, CommitChange, Goto, Answer, Running, Steps
    <3>11. CASE Regenerate(r)
      BY <3>11 DEF TypeOK, Regenerate, Goto, Answer, Running, Steps
    <3>12. CASE SaveSession(r)
      BY <3>12 DEF StepsFitKinds, Signs, TypeOK, SaveSession, Goto, Answer
    <3>13. CASE Increment(r)
      BY <3>13 DEF TypeOK, Increment, Goto, Answer, Running, Steps
    <3>14. CASE Destroy(r)
      BY <3>14 DEF StepsFitKinds, Signs, TypeOK, Destroy, Goto, Answer
    <3>15. CASE FindMailUser(r)
      BY <3>15 DEF StepsFitKinds, Signs, TypeOK, FindMailUser, Goto, Answer
    <3>16. CASE FindLive(r)
      BY <3>16 DEF TypeOK, FindLive, Goto, Answer, Running, Steps
    <3>17. CASE Issue(r)
      BY <3>17 DEF TypeOK, Issue, Goto, Answer, Running, Steps
    <3>18. CASE Deliver(r)
      BY <3>18 DEF StepsFitKinds, Signs, TypeOK, Deliver, Goto, Answer
    <3>19. CASE FailDelivery(r)
      BY <3>19 DEF TypeOK, FailDelivery, Goto, Answer, Running, Steps
    <3>20. CASE DeleteToken(r)
      BY <3>20 DEF TypeOK, DeleteToken, Goto, Answer, Running, Steps
    <3>21. CASE FindToken(r)
      BY <3>21 DEF TypeOK, FindToken, Goto, Answer, Running, Steps
    <3>22. CASE FindUser(r)
      BY <3>22 DEF TypeOK, FindUser, Goto, Answer, Running, Steps
    <3>23. CASE Compare(r)
      BY <3>23 DEF TypeOK, Compare, Goto, Answer, Running, Steps
    <3>24. CASE SaveUser(r)
      BY <3>24 DEF TypeOK, SaveUser, Goto, Answer, Running, Steps
    <3>25. CASE Respond(r)
      BY <3>25 DEF TypeOK, Respond, Goto, Answer, Running, Steps
    <3>26. CASE Fail(r)
      BY <3>26 DEF TypeOK, Fail, Goto, Answer, Running, Steps
    <3> QED
      BY <1>2, <3>2, <3>3, <3>4, <3>5, <3>6, <3>7, <3>8, <3>9, <3>10, <3>11,
         <3>12, <3>13, <3>14, <3>15, <3>16, <3>17, <3>18, <3>19, <3>20, <3>21,
         <3>22, <3>23, <3>24, <3>25, <3>26 DEF Moves
  <2> QED
    BY <2>1, <2>2
<1> QED
  BY <1>1, <1>2

\* At the start there is no outcome.
LEMMA AnsweredInit == Init => AnsweredLast
BY DEF Init, AnsweredLast

\* Every step keeps that, and an outcome that may be of a confirmation.
LEMMA AnsweredStep ==
  ASSUME TypeOK, StepsFitKinds, AnsweredLast, [Next]_vars
  PROVE  AnsweredLast' /\ (MayHaveConfirmed => MayHaveConfirmed')
<1>1. AnsweredLast'
  <2> SUFFICES ASSUME NEW r \in Requests, outcome'[r] # "none"
               PROVE  pc'[r] \in {"respond", "done"}
    BY DEF AnsweredLast
  <2> QED
    BY StandsStill, Arrives, AnswerCases DEF AnsweredLast
<1>2. ASSUME NEW r \in Requests, Kind(r) = "confirm", outcome[r] \in {"ok", "failed"}
      PROVE  Kind(r)' = "confirm" /\ outcome'[r] \in {"ok", "failed"}
  <2>1. pc[r] \in {"respond", "done"}
    BY <1>2 DEF AnsweredLast
  <2> QED
    BY <1>2, <2>1, KindKept, StandsStill, AnswerCases
<1> QED
  BY <1>1, <1>2 DEF MayHaveConfirmed

\* Outcomes come last in every reachable state.
LEMMA AnsweredCorrect == Spec => []AnsweredLast
BY TypeCorrect, StepsCorrect, AnsweredInit, AnsweredStep, PTL DEF Spec
-----------------------------------------------------------------------------
(* Identifiers *)

\* The requests that are about to write back the session they loaded.
Writers == {r \in Requests : pc[r] = "saveToken"}

\* A request's name is a session id only after the request has written it, and
\* until then nobody holds a copy of it; what it wrote tells its kind.
IdsInv ==
  /\ FreshIdentifiers
  /\ \A r \in Requests : pc[r] = "save" => Sid(r) = r
  /\ \A r \in Requests : pc[r] \notin {"respond", "done"} =>
       store[r] = None /\ \A q \in Writers : Sid(q) = r => q = r
  /\ \A q \in Writers : Sid(q) \in Requests =>
       (req[q].session.authenticated <=> Kind(Sid(q)) \in Signs)

\* At the start only browsers have sessions.
LEMMA IdsInit == Init => IdsInv
<1> SUFFICES ASSUME Init
             PROVE  IdsInv
  OBVIOUS
<1>1. \A r \in Requests : store[r] = None /\ pc[r] = "idle"
  BY IdentityAssumption DEF Init, Names
<1> QED
  BY <1>1 DEF IdsInv, FreshIdentifiers, Writers

\* What a new copy holds: a stored session that is no request's under way, or an
\* anonymous one under the name of the request.
LEMMA NewCopy ==
  ASSUME TypeOK, IdsInv, NEW r \in Requests, Begin(r)
  PROVE  /\ store' = store /\ store[r] = None
         /\ \/ req'[r].sid = r /\ req'[r].session = Anonymous
            \/ /\ req'[r].sid \in Names /\ store[req'[r].sid] # None
               /\ req'[r].session = store[req'[r].sid]
<1>1. PICK b \in Browsers : /\ req'[r].sid = LoadedSid(r, b)
                            /\ req'[r].session = LoadedSession(b)
                            /\ pc[r] = "idle" /\ store' = store
  BY BegunCommand
<1>2. store[r] = None
  BY <1>1 DEF IdsInv
<1> QED
  BY <1>1, <1>2, LoadedTyped DEF LoadedSid, LoadedSession, HasSession

\* A copy is kept until it is written back, and taken where a request begins.
LEMMA CopyCases ==
  ASSUME TypeOK, [Next]_vars, NEW q \in Requests, pc'[q] = "saveToken"
  PROVE  (q \in Writers /\ req'[q] = req[q]) \/ Begin(q)
BY StandsStill, Arrives DEF Writers

\* Every step keeps what identifiers tell.
LEMMA IdsStep == TypeOK /\ StepsFitKinds /\ IdsInv /\ [Next]_vars => IdsInv'
<1> SUFFICES ASSUME TypeOK, StepsFitKinds, IdsInv, [Next]_vars
             PROVE  IdsInv'
  OBVIOUS
<1>1. StepsFitKinds' /\ TypeOK'
  BY StepsStep, TypeStep
<1>2. Requests \subseteq Names /\ Writers \subseteq Requests
  BY DEF Names, Writers
<1>3. \A r \in Requests : pc'[r] = "save" => Sid(r)' = r
  <2> SUFFICES ASSUME NEW r \in Requests, pc'[r] = "save"
               PROVE  Sid(r)' = r
    OBVIOUS
  <2>1. CASE pc[r] = "save" /\ req'[r] = req[r]
    BY <2>1 DEF IdsInv, Sid
  <2>2. CASE Regenerate(r)
    <3>1. req[r] \in Commands
      BY <2>2 DEF TypeOK, Regenerate, Running, Steps
    <3> QED
      BY <2>2, <3>1 DEF TypeOK, Regenerate, Sid, Commands
  <2> QED
    BY <2>1, <2>2, StandsStill, Arrives
<1>4. ASSUME NEW r \in Requests, pc'[r] \notin {"respond", "done"}
      PROVE  store'[r] = None /\ \A q \in Writers' : Sid(q)' = r => q = r
  <2>1. pc[r] \notin {"respond", "done"}
    BY <1>4, StandsStill, Arrives
  <2>2. store[r] = None /\ \A q \in Writers : Sid(q) = r => q = r
    BY <2>1 DEF IdsInv
  <2>3. store'[r] = None
    <3>1. ASSUME NEW q \in Requests, Sid(q) = r, SaveToken(q) \/ SaveSession(q)
          PROVE  FALSE
      <4>1. q = r
        BY <3>1, <2>2 DEF IdsInv, Writers, SaveToken, SaveSession
      <4>2. pc'[q] = "respond"
        BY <3>1 DEF TypeOK, SaveToken, SaveSession, Answer, Goto
      <4> QED
        BY <4>1, <4>2, <1>4
    <3> QED
      BY <1>2, <2>2, <3>1, StoreWrites
  <2>4. ASSUME NEW q \in Requests, pc'[q] = "saveToken", Sid(q)' = r
        PROVE  q = r
    <3>1. CASE q \in Writers /\ req'[q] = req[q]
      BY <2>2, <2>4, <3>1 DEF Sid
    <3>2. CASE Begin(q)
      BY <2>2, <2>4, <3>2, NewCopy DEF Sid
    <3> QED
      BY <2>4, <3>1, <3>2, CopyCases
  <2> QED
    BY <2>3, <2>4 DEF Writers
<1>5. ASSUME NEW q \in Requests, pc'[q] = "saveToken", Sid(q)' \in Requests
      PROVE  req'[q].session.authenticated <=> Kind(Sid(q))' \in Signs
  <2>1. CASE q \in Writers /\ req'[q] = req[q]
    <3>1. pc[Sid(q)] # "idle"
      BY <1>5, <2>1 DEF IdsInv, Writers, Sid
    <3>2. Kind(Sid(q))' = Kind(Sid(q)) /\ Sid(q)' = Sid(q)
      BY <1>5, <2>1, <3>1, KindKept DEF Sid, Kind
    <3> QED
      BY <1>5, <2>1, <3>2 DEF IdsInv, Sid
  <2>2. CASE Begin(q) /\ req'[q].sid = q /\ req'[q].session = Anonymous
    BY <1>1, <1>5, <2>2 DEF StepsFitKinds, Kind, Sid, Anonymous, Signs
  <2>3. CASE /\ Begin(q) /\ store[req'[q].sid] # None
             /\ req'[q].session = store[req'[q].sid]
    <3>1. pc[Sid(q)'] # "idle"
      BY <1>5, <2>3 DEF IdsInv, Sid
    <3>2. Kind(Sid(q))' = Kind(Sid(q)')
      BY <1>5, <3>1, KindKept DEF Sid, Kind
    <3> QED
      BY <1>5, <2>3, <3>2 DEF IdsInv, FreshIdentifiers, Sid, Signs
  <2> QED
    BY <1>5, <2>1, <2>2, <2>3, CopyCases, NewCopy
<1>6. ASSUME NEW s \in Requests, store'[s] # None
      PROVE  store'[s].authenticated <=> Kind(s)' \in Signs
  <2>1. pc[s] # "idle"
    <3>1. ASSUME NEW r \in Requests, Sid(r) = s, SaveToken(r) \/ SaveSession(r)
          PROVE  pc[s] # "idle"
      BY <3>1 DEF IdsInv, Writers, SaveToken, SaveSession
    <3> QED
      BY <1>2, <1>6, <3>1, StoreWrites DEF IdsInv
  <2>2. Kind(s)' = Kind(s)
    BY <2>1, KindKept
  <2>3. CASE store'[s] = store[s]
    BY <1>6, <2>2, <2>3 DEF IdsInv, FreshIdentifiers, Signs
  <2>4. ASSUME NEW r \in Requests, Sid(r) = s, SaveToken(r)
        PROVE  store'[s].authenticated <=> Kind(s)' \in Signs
    <3>1. req[r] \in Commands /\ r \in Writers
      BY <2>4 DEF TypeOK, SaveToken, Running, Steps, Writers
    <3>2. store'[s].authenticated = req[r].session.authenticated
      BY <1>2, <2>4, <3>1 DEF TypeOK, SaveToken, Put, Commands, Sessions
    <3> QED
      BY <2>2, <2>4, <3>1, <3>2 DEF IdsInv
  <2>5. ASSUME NEW r \in Requests, Sid(r) = s, SaveSession(r)
        PROVE  store'[s].authenticated <=> Kind(s)' \in Signs
    <3>1. r = s /\ Kind(s) \in Signs
      BY <2>5 DEF SaveSession, IdsInv, StepsFitKinds
    <3>2. store'[s].authenticated = TRUE
      BY <1>2, <2>5 DEF TypeOK, SaveSession, Put
    <3> QED
      BY <2>2, <3>1, <3>2
  <2> QED
    BY <1>2, <1>6, <2>3, <2>4, <2>5, StoreWrites
<1>7. FreshIdentifiers'
  BY <1>6 DEF FreshIdentifiers, Signs
<1> QED
  BY <1>3, <1>4, <1>5, <1>7 DEF IdsInv, Writers

\* What identifiers tell, in every reachable state.
LEMMA IdsCorrect == Spec => []IdsInv
BY TypeCorrect, StepsCorrect, IdsInit, IdsStep, PTL DEF Spec

\* Identity.FreshIdentifiers, for every instance: the id a browser had before it
\* signed in is never the id of its authenticated session.
THEOREM IdentifiersFresh == Spec => []FreshIdentifiers
<1>1. IdsInv => FreshIdentifiers
  BY DEF IdsInv
<1> QED
  BY <1>1, IdsCorrect, PTL

\* Two contents that the guard cannot tell apart.
Alike(x, y) == (x.authenticated <=> y.authenticated) /\ x.version = y.version

\* All copies of a session, the stored one included, are alike.
CopiesAlike ==
  \A q \in Writers :
    /\ store[Sid(q)] # None => Alike(store[Sid(q)], req[q].session)
    /\ \A p \in Writers : Sid(p) = Sid(q) => Alike(req[p].session, req[q].session)

\* At the start nobody holds a copy.
LEMMA AlikeInit == Init => CopiesAlike
BY DEF Init, CopiesAlike, Writers

\* Every step keeps the copies alike: what is written back differs in its CSRF
\* token only, and a sign-in writes under an id nobody has a copy of.
LEMMA AlikeStep == TypeOK /\ IdsInv /\ CopiesAlike /\ [Next]_vars => CopiesAlike'
<1> SUFFICES ASSUME TypeOK, IdsInv, CopiesAlike, [Next]_vars
             PROVE  CopiesAlike'
  OBVIOUS
<1>1. ASSUME NEW q \in Requests, pc'[q] = "saveToken", store'[Sid(q)'] # None
      PROVE  Alike(store'[Sid(q)'], req'[q].session)
  <2>1. CASE Begin(q)
    BY <1>1, <2>1, NewCopy DEF Alike, Sid
  <2>2. CASE q \in Writers /\ req'[q] = req[q]
    <3>1. Sid(q)' = Sid(q) /\ Sid(q) \in Names
      BY <2>2 DEF TypeOK, Writers, Sid, Running, Steps, Commands
    <3>2. CASE store'[Sid(q)] = store[Sid(q)]
      BY <1>1, <2>2, <3>1, <3>2 DEF CopiesAlike
    <3>3. ASSUME NEW r \in Requests, Sid(r) = Sid(q), SaveToken(r)
          PROVE  Alike(store'[Sid(q)'], req'[q].session)
      <4>1. req[r] \in Commands /\ r \in Writers
        BY <3>3 DEF TypeOK, SaveToken, Running, Steps, Writers
      <4>2. store'[Sid(q)] = req'[r].session /\ Alike(req'[r].session, req[r].session)
        BY <3>1, <3>3, <4>1 DEF TypeOK, SaveToken, Put, Commands, Sessions, Alike
      <4>3. Alike(req[r].session, req[q].session)
        BY <2>2, <3>3, <4>1 DEF CopiesAlike
      <4> QED
        BY <2>2, <3>1, <4>2, <4>3 DEF Alike
    <3>4. ASSUME NEW r \in Requests, Sid(r) = Sid(q), SaveSession(r)
          PROVE  FALSE
      BY <2>2, <3>4 DEF IdsInv, SaveSession, Writers
    <3> QED
      BY <1>1, <3>1, <3>2, <3>3, <3>4, StoreWrites
  <2> QED
    BY <1>1, <2>1, <2>2, CopyCases
<1>2. ASSUME NEW q \in Requests, pc'[q] = "saveToken",
             NEW p \in Requests, pc'[p] = "saveToken", Sid(p)' = Sid(q)'
      PROVE  Alike(req'[p].session, req'[q].session)
  <2>1. CASE Begin(q)
    <3>1. CASE p = q
      BY <3>1 DEF Alike
    <3>2. CASE p # q
      <4>1. p \in Writers /\ req'[p] = req[p] /\ pc[q] = "idle"
        BY <1>2, <2>1, <3>2, OthersKept DEF Moves, Writers, Begin
      <4>2. Sid(p) # q
        BY <3>2, <4>1 DEF IdsInv
      <4>3. store[Sid(p)] # None /\ req'[q].session = store[Sid(p)]
        BY <1>2, <2>1, <4>1, <4>2, NewCopy DEF Sid
      <4> QED
        BY <4>1, <4>3 DEF CopiesAlike, Alike
    <3> QED
      BY <3>1, <3>2
  <2>2. CASE Begin(p) /\ q # p
    <3>1. q \in Writers /\ req'[q] = req[q] /\ pc[p] = "idle"
      BY <1>2, <2>2, OthersKept DEF Moves, Writers, Begin
    <3>2. Sid(q) # p
      BY <2>2, <3>1 DEF IdsInv
    <3>3. store[Sid(q)] # None /\ req'[p].session = store[Sid(q)]
      BY <1>2, <2>2, <3>1, <3>2, NewCopy DEF Sid
    <3> QED
      BY <3>1, <3>3 DEF CopiesAlike
  <2>3. CASE /\ p \in Writers /\ req'[p] = req[p]
             /\ q \in Writers /\ req'[q] = req[q]
    BY <1>2, <2>3 DEF CopiesAlike, Sid
  <2> QED
    BY <1>2, <2>1, <2>2, <2>3, CopyCases
<1> QED
  BY <1>1, <1>2 DEF CopiesAlike, Writers

\* Writers are alike in every reachable state.
LEMMA AlikeCorrect == Spec => []CopiesAlike
BY TypeCorrect, IdsCorrect, AlikeInit, AlikeStep, PTL DEF Spec

\* An account version that the row has had, the one of today only with the
\* password of today.
Known(s, version) ==
  /\ user.status # "absent"
  /\ version <= user.version
  /\ s \in Requests /\ version = user.version => ProvedBy(s) = user.password

\* Until a confirmation saves the user, every authenticated session, stored, held
\* or about to be written, is of such a version.
VersionsKnown ==
  ~ MayHaveConfirmed =>
    /\ \A s \in Names : store[s] # None /\ store[s].authenticated
         => Known(s, store[s].version)
    /\ \A q \in Writers : req[q].session.authenticated
         => Known(Sid(q), req[q].session.version)
    /\ \A r \in Requests : pc[r] \in {"regenerate", "save"} => Known(r, saw[r].version)
    /\ \A r \in Requests : pc[r] = "readCredential" /\ Kind(r) = "login"
         => user.status # "absent" /\ saw[r].version <= user.version
    /\ \A r \in Requests : pc[r] \in {"idle", "insert"} => saw[r].version = 0

\* But for confirmations, the row is created once, and after that its version only
\* rises, always when its password changes.
LEMMA RowCases ==
  ASSUME TypeOK, StepsFitKinds, [Next]_vars, ~ MayHaveConfirmed'
  PROVE  \/ user' = user
         \/ user.status = "absent" /\ \E r \in Requests : Register(r)
         \/ /\ \E r \in Requests : CommitChange(r)
            /\ user'.status = user.status /\ user'.version = user.version + 1
         \/ /\ user'.password = user.password /\ user'.status = user.status
            /\ user'.version = user.version + 1
         \/ /\ user'.password = user.password /\ user'.version = user.version
            /\ user.status = "active" /\ user'.status = "disabled"
<1>1. CASE Elsewhere
  BY <1>1, UserTyped DEF TypeOK, Users, Elsewhere, ExpireSession, ExpireToken,
     StaffCommand, Disable, vars, rows
<1>2. ASSUME NEW r \in Requests, Moves(r)
      PROVE  \/ user' = user
             \/ user.status = "absent" /\ Register(r)
             \/ /\ CommitChange(r)
                /\ user'.status = user.status /\ user'.version = user.version + 1
             \/ /\ user'.password = user.password /\ user'.status = user.status
                /\ user'.version = user.version + 1
  <2>1. CASE Register(r)
    BY <2>1 DEF Register
  <2>2. CASE CommitChange(r)
    BY <2>2 DEF TypeOK, Users, CommitChange, VersionAfter
  <2>3. CASE Increment(r)
    BY <2>3 DEF TypeOK, Users, Increment
  <2>4. CASE SaveUser(r)
    BY <2>4 DEF TypeOK, StepsFitKinds, SaveUser, Answer, MayHaveConfirmed, Kind
  <2>5. CASE ~ (Register(r) \/ CommitChange(r) \/ Increment(r) \/ SaveUser(r))
    BY <1>2, <2>5 DEF Moves, rows, Begin, Throttle, PassGuard, FailGuard, Invalidate,
       SaveToken, ReadUser, ReadCredential, Regenerate, SaveSession, Destroy,
       FindMailUser, FindLive, Issue, Deliver, FailDelivery, DeleteToken, FindToken,
       FindUser, Compare, Respond, Fail
  <2> QED
    BY <2>1, <2>2, <2>3, <2>4, <2>5
<1> QED
  BY <1>1, <1>2, NextCases

\* A known version stays known.
LEMMA KnownKept ==
  ASSUME TypeOK, StepsFitKinds, [Next]_vars, ~ MayHaveConfirmed',
         NEW s, NEW v \in Nat, Known(s, v), s \in Requests => pc[s] # "idle"
  PROVE  Known(s, v)'
<1>1. s \in Requests => ProvedBy(s)' = ProvedBy(s)
  BY KindKept DEF ProvedBy, Kind
<1>2. user.version \in Nat
  BY UserTyped
<1> QED
  BY <1>1, <1>2, RowCases DEF Known

\* An authenticated session of the start is of the version the row then has.
LEMMA VersionsInit == Init => VersionsKnown
<1> SUFFICES ASSUME Init, ~ MayHaveConfirmed
             PROVE  VersionsKnown
  BY DEF VersionsKnown
<1>1. \A s \in Names : store[s] # None /\ store[s].authenticated
        => s \in Browsers /\ Accepts(user, store[s])
  BY DEF Init, Names
<1>2. user.version = 0
  BY DEF Init
<1>3. \A r \in Requests : pc[r] = "idle" /\ saw[r].version = 0
  BY DEF Init, NothingSeen
<1> QED
  BY <1>1, <1>2, <1>3, IdentityAssumption DEF VersionsKnown, Known, Accepts, Writers

\* The name of a stored session, or of a copy, is of no request yet to begin.
LEMMA NamesBegun ==
  ASSUME IdsInv
  PROVE  /\ \A s \in Requests : store[s] # None => pc[s] # "idle"
         /\ \A q \in Writers : Sid(q) \in Requests => pc[Sid(q)] # "idle"
BY DEF IdsInv, Writers

\* Every step keeps the versions known.
LEMMA VersionsStep ==
  TypeOK /\ StepsFitKinds /\ AnsweredLast /\ IdsInv /\ VersionsKnown /\ [Next]_vars
    => VersionsKnown'
<1> SUFFICES ASSUME TypeOK, StepsFitKinds, AnsweredLast, IdsInv, VersionsKnown,
                    [Next]_vars, ~ MayHaveConfirmed'
             PROVE  VersionsKnown'
  BY DEF VersionsKnown
<1>0. ~ MayHaveConfirmed
  BY AnsweredStep
<1> USE <1>0
<1>1. TypeOK' /\ StepsFitKinds'
  BY TypeStep, StepsStep
<1>2. Requests \subseteq Names /\ Writers \subseteq Requests
  BY DEF Names, Writers
<1>3. /\ \A s \in Names : store[s] # None => store[s] \in Sessions
      /\ \A s \in Names : store[s] # None => store[s].version \in Nat
      /\ \A r \in Requests : saw[r].version \in Nat
      /\ \A q \in Writers : req[q] \in Commands /\ req[q].session.version \in Nat
  BY DEF TypeOK, Sessions, Seen, Writers, Running, Steps, Commands
<1>4. ASSUME NEW s \in Names, store'[s] # None, store'[s].authenticated,
             NEW v, v = store'[s].version
      PROVE  Known(s, v)'
  <2>1. CASE store'[s] = store[s]
    <3>1. Known(s, store[s].version)
      BY <1>4, <2>1 DEF VersionsKnown
    <3> QED
      BY <1>3, <1>4, <2>1, <3>1, NamesBegun, KnownKept
  <2>2. ASSUME NEW r \in Requests, Sid(r) = s, SaveToken(r)
        PROVE  Known(s, v)'
    <3>1. r \in Writers /\ req[r] \in Commands
      BY <1>3, <2>2 DEF SaveToken, Writers
    <3>2. /\ store'[s].authenticated = req[r].session.authenticated
          /\ store'[s].version = req[r].session.version
      BY <2>2, <3>1 DEF TypeOK, SaveToken, Put, Commands, Sessions
    <3>3. Known(s, req[r].session.version)
      BY <1>4, <2>2, <3>1, <3>2 DEF VersionsKnown
    <3> QED
      BY <1>3, <1>4, <2>2, <3>1, <3>2, <3>3, NamesBegun, KnownKept
  <2>3. ASSUME NEW r \in Requests, Sid(r) = s, SaveSession(r)
        PROVE  Known(s, v)'
    <3>1. pc[r] = "save" /\ r = s
      BY <2>3 DEF SaveSession, IdsInv
    <3>2. store'[s].version = saw[r].version
      BY <2>3 DEF TypeOK, SaveSession, Put, EstablishedVersion
    <3>3. Known(s, saw[r].version)
      BY <3>1 DEF VersionsKnown
    <3> QED
      BY <1>3, <1>4, <3>1, <3>2, <3>3, KnownKept
  <2> QED
    BY <1>4, <2>1, <2>2, <2>3, StoreWrites
<1>5. ASSUME NEW q \in Requests, pc'[q] = "saveToken", req'[q].session.authenticated,
             NEW s, s = req'[q].sid, NEW v, v = req'[q].session.version
      PROVE  Known(s, v)'
  <2>1. CASE q \in Writers /\ req'[q] = req[q]
    <3>1. Known(s, v) /\ s = Sid(q) /\ v \in Nat
      BY <1>3, <1>5, <2>1 DEF VersionsKnown, Sid
    <3> QED
      BY <2>1, <3>1, NamesBegun, KnownKept
  <2>2. CASE Begin(q)
    <3>1. s \in Names /\ store[s] # None /\ req'[q].session = store[s]
      BY <1>5, <2>2, NewCopy DEF Anonymous
    <3>2. Known(s, v) /\ v \in Nat
      BY <1>3, <1>5, <3>1 DEF VersionsKnown
    <3> QED
      BY <3>1, <3>2, NamesBegun, KnownKept
  <2> QED
    BY <1>5, <2>1, <2>2, CopyCases
<1>6. ASSUME NEW r \in Requests, pc'[r] \in {"regenerate", "save"},
             NEW v, v = saw'[r].version
      PROVE  Known(r, v)'
  <2>1. CASE pc[r] \in {"regenerate", "save"} /\ saw'[r] = saw[r]
    <3>1. Known(r, saw[r].version)
      BY <2>1 DEF VersionsKnown
    <3> QED
      BY <1>3, <1>6, <2>1, <3>1, KnownKept
  <2>2. CASE Regenerate(r)
    BY <2>1, <2>2 DEF Regenerate
  <2>3. CASE Register(r)
    <3>1. /\ user'.status = "active" /\ user'.version = 0
          /\ user'.password = req[r].given
      BY <1>6, <2>3 DEF TypeOK, Register, Answer, Goto
    <3>2. saw'[r].version = 0 /\ Kind(r) = "register" /\ req' = req
      BY <2>3 DEF Register, VersionsKnown, StepsFitKinds
    <3> QED
      BY <1>6, <3>1, <3>2 DEF Known, ProvedBy, Kind
  <2>4. CASE ReadCredential(r)
    <3>1. /\ req[r].given = user.password /\ Kind(r) = "login"
          /\ UNCHANGED <<user, saw, req>>
      BY <1>6, <2>4 DEF TypeOK, ReadCredential, CredentialVerdict, Answer, Goto,
         StepsFitKinds, rows
    <3>2. user.status # "absent" /\ saw[r].version <= user.version
      BY <2>4, <3>1 DEF VersionsKnown, ReadCredential
    <3> QED
      BY <1>6, <3>1, <3>2 DEF Known, ProvedBy, Kind
  <2>5. CASE CommitChange(r)
    <3>1. /\ user'.status = "active" /\ user'.version = user.version + 1
          /\ user'.password = req[r].wanted /\ saw'[r].version = user.version + 1
      <4>1. /\ user \in Users /\ saw \in [Requests -> Seen]
            /\ pc \in [Requests -> Steps]
        BY DEF TypeOK
      <4>2. pc'[r] # "respond"
        BY <1>6
      <4>3. ~ Answer(r, "unauthorized")
        BY <4>1, <4>2 DEF Answer, Goto
      <4>4. /\ user.status = "active"
            /\ user' = [user EXCEPT !.password = req[r].wanted, !.version = user.version + 1]
            /\ saw' = [saw EXCEPT ![r].version = user.version + 1]
        BY <2>5, <4>3 DEF CommitChange, VersionAfter
      <4> QED
        BY <4>1, <4>4 DEF Users, Seen
    <3>2. Kind(r) = "change" /\ req' = req
      BY <2>5 DEF CommitChange, StepsFitKinds
    <3>3. user.version + 1 <= user.version + 1
      BY UserTyped
    <3> QED
      BY <1>6, <3>1, <3>2, <3>3 DEF Known, ProvedBy, Kind
  <2> QED
    BY <1>6, <2>1, <2>2, <2>3, <2>4, <2>5, StandsStill, Arrives
<1>7. ASSUME NEW r \in Requests, pc'[r] = "readCredential", Kind(r)' = "login"
      PROVE  user'.status # "absent" /\ saw'[r].version <= user'.version
  <2>1. CASE pc[r] = "readCredential" /\ req'[r] = req[r] /\ saw'[r] = saw[r]
    <3>1. user.status # "absent" /\ saw[r].version <= user.version
      BY <1>7, <2>1 DEF VersionsKnown, Kind
    <3> QED
      BY <1>3, <2>1, <3>1, RowCases, UserTyped
  <2>2. CASE ReadUser(r)
    <3>1. user.status = "active" /\ user' = user /\ saw'[r].version = user.version
      BY <1>7, <2>2 DEF TypeOK, Seen, ReadUser, Answer, Goto, rows
    <3> QED
      BY <3>1, UserTyped
  <2>3. CASE PassGuard(r)
    BY <1>7, <2>3 DEF PassGuard, StepsFitKinds, Kind, Guarded
  <2> QED
    BY <1>7, <2>1, <2>2, <2>3, StandsStill, Arrives
<1>8. ASSUME NEW r \in Requests, pc'[r] \in {"idle", "insert"}
      PROVE  saw'[r].version = 0
  <2>1. CASE Begin(r)
    BY <2>1 DEF Begin, VersionsKnown
  <2> QED
    BY <1>8, <2>1, StandsStill, Arrives DEF VersionsKnown
<1> QED
  BY <1>4, <1>5, <1>6, <1>7, <1>8 DEF VersionsKnown, Known, Writers, ProvedBy, Kind, Sid

\* The versions are known in every reachable state.
LEMMA VersionsCorrect == Spec => []VersionsKnown
BY TypeCorrect, StepsCorrect, AnsweredCorrect, IdsCorrect, VersionsInit, VersionsStep,
   PTL DEF Spec

\* Identity.SessionsKnowPassword, for every instance: until a confirmation saves
\* the user, a session that counts was obtained with the password of today.
THEOREM PasswordKnown == Spec => []SessionsKnowPassword
<1>1. VersionsKnown => SessionsKnowPassword
  BY DEF VersionsKnown, SessionsKnowPassword, Known, Valid, Accepts, Names
<1> QED
  BY <1>1, VersionsCorrect, PTL

\* The copies of a session are alike.
LEMMA SameContents ==
  ASSUME CopiesAlike, NEW s, NEW x \in Copies(s), NEW y \in Copies(s)
  PROVE  Alike(x, y)
BY DEF CopiesAlike, Copies, Writers, Alike, Sid

\* An authenticated copy of a session is like one it had before, unless the
\* session is signed in.
LEMMA CopyOrigin ==
  ASSUME TypeOK, IdsInv, [Next]_vars, NEW s \in Names,
         NEW x \in Copies(s)', x.authenticated
  PROVE  \/ s \in Requests /\ pc[s] = "save"
         \/ \E y \in Copies(s) : Alike(x, y)
<1>1. \/ x = store'[s] /\ x # None
      \/ \E q \in Requests : pc'[q] = "saveToken" /\ Sid(q)' = s /\ x = req'[q].session
  BY DEF Copies, Sid
<1>2. CASE x = store'[s] /\ x # None
  <2>1. CASE store'[s] = store[s]
    BY <1>2, <2>1 DEF Copies, Alike
  <2>2. ASSUME NEW r \in Requests, Sid(r) = s, SaveToken(r)
        PROVE  \E y \in Copies(s) : Alike(x, y)
    <3>1. pc[r] = "saveToken" /\ req[r] \in Commands
      BY <2>2 DEF TypeOK, SaveToken, Running, Steps
    <3>2. store'[s] = req'[r].session /\ Alike(req'[r].session, req[r].session)
      BY <2>2, <3>1 DEF TypeOK, SaveToken, Put, Commands, Sessions, Alike
    <3>3. req[r].session \in Copies(s)
      BY <2>2, <3>1 DEF Copies
    <3> QED
      BY <1>2, <3>2, <3>3
  <2>3. ASSUME NEW r \in Requests, Sid(r) = s, SaveSession(r)
        PROVE  s \in Requests /\ pc[s] = "save"
    BY <2>3 DEF IdsInv, SaveSession
  <2> QED
    BY <1>2, <2>1, <2>2, <2>3, StoreWrites
<1>3. ASSUME NEW q \in Requests, pc'[q] = "saveToken", Sid(q)' = s, x = req'[q].session
      PROVE  \E y \in Copies(s) : Alike(x, y)
  <2>1. CASE q \in Writers /\ req'[q] = req[q]
    <3>1. x \in Copies(s)
      BY <1>3, <2>1 DEF Copies, Writers, Sid
    <3> QED
      BY <3>1 DEF Alike
  <2>2. CASE Begin(q)
    <3>1. store[s] # None /\ x = store[s]
      BY <1>3, <2>2, NewCopy DEF Anonymous, Sid
    <3>2. x \in Copies(s)
      BY <3>1 DEF Copies
    <3> QED
      BY <3>2 DEF Alike
  <2> QED
    BY <1>3, <2>1, <2>2, CopyCases
<1> QED
  BY <1>1, <1>2, <1>3

\* No step that is no confirmation's makes the row accept a copy that it did not.
LEMMA NeverAcceptedAgain ==
  ASSUME TypeOK, StepsFitKinds, AnsweredLast, VersionsKnown, [Next]_vars,
         ~ MayHaveConfirmed', NEW s \in Names, NEW y \in Copies(s), NEW x,
         Alike(x, y), Accepts(user, x)'
  PROVE  Accepts(user, y)
<1>1. /\ y.authenticated /\ user'.status = "active" /\ user'.version = y.version
      /\ verification => user'.verified
  BY NextCases DEF Alike, Accepts
<1>2. ~ MayHaveConfirmed
  BY AnsweredStep
<1>3. Known(s, y.version)
  BY <1>1, <1>2 DEF VersionsKnown, Copies, Writers, Sid
<1>4. user' = user
  BY <1>1, <1>3, RowCases, UserTyped DEF Known
<1> QED
  BY <1>1, <1>4 DEF Accepts

\* A step that is no confirmation's revives no session.
LEMMA RevivalStep ==
  ASSUME TypeOK, StepsFitKinds, AnsweredLast, IdsInv, CopiesAlike, VersionsKnown,
         [Next]_vars, ~ MayHaveConfirmed', NEW s \in Names, Counts(s)'
  PROVE  \/ Counts(s) /\ ~ Fails(s)
         \/ s \in Requests /\ pc[s] = "save"
<1> SUFFICES ASSUME ~ (s \in Requests /\ pc[s] = "save")
             PROVE  Counts(s) /\ ~ Fails(s)
  OBVIOUS
<1>1. PICK x \in Copies(s)' : Accepts(user, x)'
  BY DEF Counts
<1>2. PICK y \in Copies(s) : Alike(x, y)
  <2>1. x.authenticated
    BY <1>1 DEF Accepts
  <2> QED
    BY <2>1, CopyOrigin
<1>3. Accepts(user, y)
  BY <1>1, <1>2, NeverAcceptedAgain
<1>4. \A z \in Copies(s) : Accepts(user, z)
  BY <1>3, SameContents DEF Alike, Accepts
<1> QED
  BY <1>3, <1>4 DEF Counts, Fails

\* Identity.NoRevival, for every instance: until a confirmation saves the user, a
\* session counts after a step only if each of its copies, stored or about to be
\* written back, counted before, or if the step signs it in.
THEOREM NothingRevived == Spec => NoRevival
<1>1. TypeOK /\ StepsFitKinds /\ AnsweredLast /\ IdsInv /\ CopiesAlike /\ VersionsKnown
        /\ [Next]_vars
      => [MayHaveConfirmed' \/
          \A s \in Names : Counts(s)' =>
            \/ Counts(s) /\ ~ Fails(s)
            \/ s \in Requests /\ pc[s] = "save"]_vars
  BY RevivalStep
<1> QED
  BY <1>1, TypeCorrect, StepsCorrect, AnsweredCorrect, IdsCorrect, AlikeCorrect,
     VersionsCorrect, PTL DEF Spec, NoRevival

\* The requests that hold the row of their token.
Holders == {r \in Requests : pc[r] \in {"findUser", "compare", "saveUser"}}

\* A token is confirmed by the one request that holds its row, and is then no
\* longer live; it comes into the mail only after it was issued, once.
TokensInv ==
  /\ \A t \in mailed \cap Requests : pc[t] \in {"deleteToken", "respond", "done"}
  /\ \A r \in Requests : Kind(r) = "confirm" => req[r].mail \in mailed
  /\ \A r \in Holders : tokens[req[r].mail] = "live"
  /\ \A r, s \in Holders : req[r].mail = req[s].mail => r = s
  /\ \A r \in Requests : Kind(r) = "confirm" /\ outcome[r] = "ok"
       => pc[r] \in {"respond", "done"} /\ tokens[req[r].mail] # "live"
  /\ TokensUsedOnce

\* At the start no request has begun, and only browsers' tokens are in the mail.
LEMMA TokensInit == Init => TokensInv
<1> SUFFICES ASSUME Init
             PROVE  TokensInv
  OBVIOUS
<1>1. mailed \cap Requests = {}
  BY IdentityAssumption DEF Init, Names
<1>2. \A r \in Requests : pc[r] = "idle" /\ Kind(r) = "none"
  BY DEF Init, Kind, NoCommand
<1> QED
  BY <1>1, <1>2 DEF TokensInv, TokensUsedOnce, Holders

\* What becomes of a token: it is issued, is confirmed, or ends while nobody holds
\* its row.
LEMMA TokenCases ==
  ASSUME TypeOK, [Next]_vars, NEW t \in Names
  PROVE  \/ tokens'[t] = tokens[t]
         \/ t \in Requests /\ Issue(t)
         \/ ~ Locked(t) /\ tokens'[t] # "live"
         \/ \E r \in Requests : SaveUser(r) /\ req[r].mail = t
<1>1. CASE Elsewhere
  BY <1>1 DEF TypeOK, Elsewhere, ExpireSession, ExpireToken, StaffCommand, Disable,
     vars, rows
<1>2. ASSUME NEW r \in Requests, Moves(r)
      PROVE  \/ tokens'[t] = tokens[t]
             \/ t \in Requests /\ Issue(t)
             \/ ~ Locked(t) /\ tokens'[t] # "live"
             \/ SaveUser(r) /\ req[r].mail = t
  <2>1. CASE Issue(r)
    BY <2>1 DEF TypeOK, Issue
  <2>2. CASE DeleteToken(r)
    BY <2>2 DEF TypeOK, DeleteToken
  <2>3. CASE SaveUser(r)
    BY <2>3 DEF TypeOK, SaveUser
  <2>4. CASE ~ (Issue(r) \/ DeleteToken(r) \/ SaveUser(r))
    BY <1>2, <2>4 DEF Moves, rows, Begin, Throttle, PassGuard, FailGuard, Invalidate,
       SaveToken, Register, ReadUser, ReadCredential, CommitChange, Regenerate,
       SaveSession, Increment, Destroy, FindMailUser, FindLive, Deliver,
       FailDelivery, FindToken, FindUser, Compare, Respond, Fail
  <2> QED
    BY <2>1, <2>2, <2>3, <2>4
<1> QED
  BY <1>1, <1>2, NextCases

\* A mail that arrived stays, and arrives where its token's request ends.
LEMMA MailCases ==
  ASSUME TypeOK, [Next]_vars
  PROVE  /\ mailed \subseteq mailed'
         /\ \A t \in mailed' \ mailed :
              t \in Requests => pc'[t] \in {"deleteToken", "respond"}
<1>1. CASE Elsewhere
  BY <1>1 DEF Elsewhere, ExpireSession, ExpireToken, StaffCommand, Disable, vars, rows
<1>2. ASSUME NEW r \in Requests, Moves(r)
      PROVE  \/ mailed' = mailed
             \/ mailed' = mailed \cup {r} /\ pc'[r] \in {"deleteToken", "respond"}
  <2>1. CASE Deliver(r)
    BY <2>1 DEF TypeOK, Deliver, Answer, Goto
  <2>2. CASE FailDelivery(r)
    BY <2>2 DEF TypeOK, FailDelivery, Goto
  <2>3. CASE ~ (Deliver(r) \/ FailDelivery(r))
    BY <1>2, <2>3 DEF Moves, rows, Begin, Throttle, PassGuard, FailGuard, Invalidate,
       SaveToken, Register, ReadUser, ReadCredential, CommitChange, Regenerate,
       SaveSession, Increment, Destroy, FindMailUser, FindLive, Issue, DeleteToken,
       FindToken, FindUser, Compare, SaveUser, Respond, Fail
  <2> QED
    BY <2>1, <2>2, <2>3
<1> QED
  BY <1>1, <1>2, NextCases

\* Every step keeps the tokens right.
LEMMA TokensStep ==
  TypeOK /\ StepsFitKinds /\ AnsweredLast /\ TokensInv /\ [Next]_vars => TokensInv'
<1> SUFFICES ASSUME TypeOK, StepsFitKinds, AnsweredLast, TokensInv, [Next]_vars
             PROVE  TokensInv'
  OBVIOUS
<1>1. TypeOK' /\ StepsFitKinds' /\ AnsweredLast'
  BY TypeStep, StepsStep, AnsweredStep
<1>2. \A r \in Holders : Kind(r) = "confirm" /\ pc[r] # "idle"
  BY DEF Holders, StepsFitKinds
<1>3. ASSUME NEW t \in mailed' \cap Requests
      PROVE  pc'[t] \in {"deleteToken", "respond", "done"}
  <2>1. CASE t \in mailed
    <3>1. pc[t] \in {"deleteToken", "respond", "done"}
      BY <1>3, <2>1 DEF TokensInv
    <3>2. CASE Moves(t)
      BY <1>3, <3>1, <3>2 DEF TypeOK, Moves, Answer, Goto, Begin, Throttle, PassGuard,
         FailGuard, Invalidate, SaveToken, Register, ReadUser, ReadCredential,
         CommitChange, Regenerate, SaveSession, Increment, Destroy, FindMailUser,
         FindLive, Issue, Deliver, FailDelivery, DeleteToken, FindToken, FindUser,
         Compare, SaveUser, Respond, Fail
    <3> QED
      BY <1>3, <3>1, <3>2, StandsStill
  <2> QED
    BY <1>3, <2>1, MailCases
<1>4. ASSUME NEW r \in Requests, Kind(r)' = "confirm"
      PROVE  req'[r].mail \in mailed /\ req'[r].mail \in Names
  <2>1. CASE pc[r] # "idle"
    BY <1>4, <2>1, KindKept DEF TokensInv, TypeOK
  <2>2. CASE Begin(r)
    BY <1>4, <2>2, BegunCommand DEF Kind, TypeOK
  <2>3. CASE req'[r] = req[r]
    BY <1>4, <2>3 DEF TokensInv, TypeOK, Kind
  <2> QED
    BY <2>1, <2>2, <2>3, StandsStill DEF Moves, Throttle, PassGuard, FailGuard,
       Invalidate, SaveToken, Register, ReadUser, ReadCredential, CommitChange,
       Regenerate, SaveSession, Increment, Destroy, FindMailUser, FindLive, Issue,
       Deliver, FailDelivery, DeleteToken, FindToken, FindUser, Compare, SaveUser,
       Respond, Fail, Running, Steps
<1>5. \A t \in mailed : ~ (t \in Requests /\ Issue(t))
  BY DEF TokensInv, Issue
<1>6. ASSUME NEW r \in Requests, r \in Holders'
      PROVE  \/ r \in Holders /\ req'[r].mail = req[r].mail
             \/ /\ FindToken(r) /\ req' = req /\ tokens' = tokens
                /\ tokens[req[r].mail] = "live" /\ ~ Locked(req[r].mail)
  <2>1. CASE FindToken(r)
    BY <1>6, <2>1 DEF TypeOK, FindToken, Holders, Answer, Goto, rows
  <2>2. CASE r \in Holders
    BY <1>2, <1>6, <2>2, KindKept
  <2> QED
    BY <1>6, <2>1, <2>2, StandsStill, Arrives DEF Holders, FindUser, Compare
<1>7. ASSUME NEW r \in Requests, r \in Holders'
      PROVE  tokens'[req'[r].mail] = "live"
  <2>1. CASE r \in Holders /\ req'[r].mail = req[r].mail
    <3>1. /\ req[r].mail \in mailed /\ req[r].mail \in Names
          /\ tokens[req[r].mail] = "live" /\ Locked(req[r].mail)
      BY <1>2, <1>7, <2>1 DEF TokensInv, TypeOK, Holders, Locked
    <3>2. ASSUME NEW q \in Requests, SaveUser(q), req[q].mail = req[r].mail
          PROVE  FALSE
      <4>1. q = r
        BY <2>1, <3>2 DEF TokensInv, Holders, SaveUser
      <4> QED
        BY <1>7, <3>2, <4>1 DEF TypeOK, SaveUser, Answer, Goto, Holders
    <3> QED
      BY <1>5, <2>1, <3>1, <3>2, TokenCases
  <2> QED
    BY <1>6, <1>7, <2>1
<1>8. ASSUME NEW r \in Requests, r \in Holders', NEW q \in Requests, q \in Holders',
             req'[r].mail = req'[q].mail
      PROVE  r = q
  <2>1. \A h \in Holders : Locked(req[h].mail)
    BY DEF Holders, Locked
  <2>2. CASE FindToken(r) /\ FindToken(q)
    BY <1>8, <2>2, OthersKept DEF Moves, Holders, FindToken
  <2>3. CASE FindToken(r) /\ q \in Holders /\ req'[q].mail = req[q].mail
    <3>1. req' = req /\ ~ Locked(req[r].mail)
      BY <1>6, <1>8, <2>3 DEF FindToken, Holders
    <3> QED
      BY <1>8, <2>1, <2>3, <3>1
  <2>4. CASE FindToken(q) /\ r \in Holders /\ req'[r].mail = req[r].mail
    <3>1. req' = req /\ ~ Locked(req[q].mail)
      BY <1>6, <1>8, <2>4 DEF FindToken, Holders
    <3> QED
      BY <1>8, <2>1, <2>4, <3>1
  <2>5. CASE /\ r \in Holders /\ req'[r].mail = req[r].mail
             /\ q \in Holders /\ req'[q].mail = req[q].mail
    BY <1>8, <2>5 DEF TokensInv
  <2> QED
    BY <1>6, <1>8, <2>2, <2>3, <2>4, <2>5
<1>9. ASSUME NEW r \in Requests, Kind(r)' = "confirm", outcome'[r] = "ok"
      PROVE  /\ pc'[r] \in {"respond", "done"}
             /\ tokens'[req'[r].mail] # "live"
             /\ req'[r].mail = req[r].mail
             /\ \/ SaveUser(r)
                \/ Kind(r) = "confirm" /\ outcome[r] = "ok"
  <2>1. pc'[r] \in {"respond", "done"}
    BY <1>1, <1>9 DEF AnsweredLast
  <2>2. CASE SaveUser(r)
    <3>1. req'[r].mail = req[r].mail /\ req[r].mail \in Names
      BY <1>4, <1>9, <2>2 DEF SaveUser
    <3> QED
      BY <2>1, <2>2, <3>1 DEF TypeOK, SaveUser
  <2>3. CASE outcome[r] = "ok" /\ ~ SaveUser(r)
    <3>1. pc[r] # "idle"
      BY <2>3 DEF AnsweredLast
    <3>2. Kind(r) = "confirm" /\ req'[r].mail = req[r].mail
      BY <1>9, <3>1, KindKept
    <3>3. tokens[req[r].mail] # "live" /\ req[r].mail \in mailed /\ req[r].mail \in Names
      BY <2>3, <3>2 DEF TokensInv, TypeOK
    <3>4. ASSUME NEW q \in Requests, SaveUser(q), req[q].mail = req[r].mail
          PROVE  tokens'[req[r].mail] # "live"
      BY <3>3, <3>4 DEF TypeOK, SaveUser
    <3> QED
      BY <1>5, <2>1, <2>3, <3>2, <3>3, <3>4, TokenCases
  <2> QED
    BY <1>9, <2>2, <2>3, StandsStill, AnswerCases
<1>10. ASSUME NEW r \in Requests, Kind(r)' = "confirm", outcome'[r] = "ok",
              NEW q \in Requests, Kind(q)' = "confirm", outcome'[q] = "ok",
              req'[r].mail = req'[q].mail
       PROVE  r = q
  <2>1. \A p \in Requests : SaveUser(p) => p \in Holders /\ Moves(p) /\ pc'[p] = "respond"
    BY DEF SaveUser, Holders, Moves, Answer, Goto, TypeOK
  <2>2. CASE SaveUser(r) /\ SaveUser(q)
    BY <2>1, <2>2, OthersKept DEF SaveUser
  <2>3. CASE SaveUser(r) /\ Kind(q) = "confirm" /\ outcome[q] = "ok"
    BY <1>9, <1>10, <2>1, <2>3 DEF TokensInv
  <2>4. CASE SaveUser(q) /\ Kind(r) = "confirm" /\ outcome[r] = "ok"
    BY <1>9, <1>10, <2>1, <2>4 DEF TokensInv
  <2>5. CASE /\ Kind(r) = "confirm" /\ outcome[r] = "ok"
             /\ Kind(q) = "confirm" /\ outcome[q] = "ok"
    BY <1>9, <1>10, <2>5 DEF TokensInv, TokensUsedOnce
  <2> QED
    BY <1>9, <1>10, <2>2, <2>3, <2>4, <2>5
<1>11. TokensUsedOnce'
  BY <1>10 DEF TokensUsedOnce
<1>12. Holders' \subseteq Requests
  BY DEF Holders
<1> QED
  BY <1>3, <1>4, <1>7, <1>8, <1>9, <1>11, <1>12, MailCases DEF TokensInv

\* Tokens are right in every reachable state.
LEMMA TokensCorrect == Spec => []TokensInv
BY TypeCorrect, StepsCorrect, AnsweredCorrect, TokensInit, TokensStep, PTL DEF Spec

\* Identity.TokensUsedOnce, for every instance: of the confirmations of one token,
\* however many at once, one succeeds.
THEOREM TokensConfirmOnce == Spec => []TokensUsedOnce
<1>1. TokensInv => TokensUsedOnce
  BY DEF TokensInv
<1> QED
  BY <1>1, TokensCorrect, PTL
=============================================================================
