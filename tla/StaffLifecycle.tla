--------------------------- MODULE StaffLifecycle ---------------------------
(***************************************************************************)
(* The staff and owner-bootstrap transactions as PostgreSQL runs them at   *)
(* READ COMMITTED: one action per statement (or group of statements that   *)
(* cannot be told apart), each reading the rows committed at that moment.  *)
(* Writes stay invisible until Commit, which publishes them together and   *)
(* releases every lock of the transaction.                                 *)
(*                                                                         *)
(* Locks: users rows FOR UPDATE, staff_profiles rows FOR UPDATE, the owner *)
(* advisory lock, and the FOR KEY SHARE lock that a foreign key to the     *)
(* actor's users row takes when a row naming the actor is inserted.        *)
(***************************************************************************)
EXTENDS StaffRules, Naturals, FiniteSets

VARIABLES
  status,       \* committed staff_profiles.status, "none" without a row
  roles,        \* committed staff_role_assignments
  authVersion,  \* committed users.auth_version, counted from the start
  audit,        \* committed authorization_audit_events
  pc,           \* pc[r]: the next statement of request r
  req,          \* req[r]: its command, with the permissions the guard loaded
  seen,         \* seen[r]: the profile and roles its transaction read
  outcome,      \* outcome[r]: how it ended
  userLock,     \* userLock[u]: the holder of u's users row FOR UPDATE
  keyShare,     \* keyShare[u]: the holders of u's users row FOR KEY SHARE
  profileLock,  \* profileLock[u]: the holder of u's staff_profiles row
  ownerLock     \* the holder of the advisory owner lock

rows  == <<status, roles, authVersion, audit>>
locks == <<userLock, keyShare, profileLock, ownerLock>>
vars  == <<rows, pc, req, seen, outcome, locks>>

InTransaction == {"lockUser", "readProfile", "lockOwner", "countOwners",
                  "write", "commit"}
Steps    == {"idle", "done"} \cup InTransaction
Outcomes == {"none", "changed", "unchanged", "refused", "lastOwner", "aborted"}
NothingSeen == [status |-> "none", roles |-> {}]
-----------------------------------------------------------------------------
(* Locks *)

Target(r) == req[r].target
Actor(r)  == req[r].actor

\* Mutation: the users row is read without a lock.
UserRowAlwaysFree(r, u) == TRUE

\* FOR UPDATE conflicts with FOR UPDATE and with FOR KEY SHARE of others.
UserRowFree(r, u) == userLock[u] \in {NoOne, r} /\ keyShare[u] \subseteq {r}

\* The transactions that r's next statement waits for.
WaitsFor(r) ==
  CASE pc[r] = "lockUser" ->
         ({userLock[Target(r)]} \cup keyShare[Target(r)]) \ {NoOne, r}
    [] pc[r] = "readProfile" /\ req[r].kind # "create" ->
         {profileLock[Target(r)]} \ {NoOne, r}
    [] pc[r] = "lockOwner" -> {ownerLock} \ {NoOne, r}
    [] pc[r] = "write" /\ Actor(r) # NoOne ->
         {userLock[Actor(r)]} \ {NoOne, r}
    [] OTHER -> {}

Stuck(C)   == \A r \in C : WaitsFor(r) \cap C # {}

\* C is a cycle of waiting transactions: nothing smaller in it is stuck.
WaitCycle(C) ==
  /\ C # {} /\ Stuck(C)
  /\ \A D \in SUBSET C \ {C, {}} : ~ Stuck(D)

\* Mutation: pg_advisory_lock, which belongs to the session, not the transaction.
ReleaseRowsOnly(r) ==
  /\ userLock' = [u \in Users |-> IF userLock[u] = r THEN NoOne ELSE userLock[u]]
  /\ keyShare' = [u \in Users |-> keyShare[u] \ {r}]
  /\ profileLock' = [u \in Users |-> IF profileLock[u] = r THEN NoOne ELSE profileLock[u]]
  /\ UNCHANGED ownerLock

\* Every lock of r goes with the end of its transaction.
ReleaseAll(r) ==
  /\ userLock' = [u \in Users |-> IF userLock[u] = r THEN NoOne ELSE userLock[u]]
  /\ keyShare' = [u \in Users |-> keyShare[u] \ {r}]
  /\ profileLock' = [u \in Users |-> IF profileLock[u] = r THEN NoOne ELSE profileLock[u]]
  /\ ownerLock' = IF ownerLock = r THEN NoOne ELSE ownerLock

\* The transaction ends: its locks and all it remembered are gone.
End(r, o) ==
  /\ pc' = [pc EXCEPT ![r] = "done"]
  /\ outcome' = [outcome EXCEPT ![r] = o]
  /\ req' = [req EXCEPT ![r] = NoCommand]
  /\ seen' = [seen EXCEPT ![r] = NothingSeen]
  /\ ReleaseAll(r)

\* ROLLBACK: none of its writes are seen.
Rollback(r, o) == End(r, o) /\ UNCHANGED rows

Goto(r, s) == pc' = [pc EXCEPT ![r] = s]
-----------------------------------------------------------------------------
(* Steps of one request *)

\* The staff there is at the start: none in a fresh installation, otherwise
\* any that has an active owner's profile.
Init ==
  /\ status \in [Users -> Statuses]
  /\ roles \in [Users -> RoleChoices \cup {{}}]
  /\ \A u \in Users : status[u] = "none" => roles[u] = {}
  /\ \/ \A u \in Users : status[u] = "none"
     \/ \E u \in Users : status[u] = "active" /\ Owner \in roles[u]
  /\ authVersion = [u \in Users |-> 0]
  /\ audit = {}
  /\ pc = [r \in Requests |-> "idle"]
  /\ req = [r \in Requests |-> NoCommand]
  /\ seen = [r \in Requests |-> NothingSeen]
  /\ outcome = [r \in Requests |-> "none"]
  /\ userLock = [u \in Users |-> NoOne]
  /\ keyShare = [u \in Users |-> {}]
  /\ profileLock = [u \in Users |-> NoOne]
  /\ ownerLock = NoOne

\* The guards let a staff request through and hand on the permissions they
\* loaded; its transaction begins some time later.
Admit(r) ==
  /\ pc[r] = "idle"
  /\ \E q \in Admitted(status, roles) : req' = [req EXCEPT ![r] = q]
  /\ Goto(r, "lockUser")
  /\ UNCHANGED <<rows, seen, outcome, locks>>

\* The bootstrap command takes the owner lock before anything else.
StartBootstrap(r) ==
  /\ pc[r] = "idle"
  /\ \E q \in Bootstraps : req' = [req EXCEPT ![r] = q]
  /\ Goto(r, "lockOwner")
  /\ UNCHANGED <<rows, seen, outcome, locks>>

LockUser(r) ==
  /\ pc[r] = "lockUser"
  /\ UserRowFree(r, Target(r))
  /\ Target(r) \notin Disabled
  /\ userLock' = [userLock EXCEPT ![Target(r)] = r]
  /\ Goto(r, "readProfile")
  /\ UNCHANGED <<rows, req, seen, outcome, keyShare, profileLock, ownerLock>>

RefuseInactiveIdentity(r) ==
  /\ pc[r] = "lockUser"
  /\ UserRowFree(r, Target(r))
  /\ Target(r) \in Disabled
  /\ Rollback(r, "refused")

\* create reads the profile without a lock, the others FOR UPDATE.
ProfileReadable(r) ==
  /\ pc[r] = "readProfile"
  /\ req[r].kind = "create" \/ profileLock[Target(r)] \in {NoOne, r}

RefuseCommand(r) ==
  /\ ProfileReadable(r)
  /\ Refused(req[r], status[Target(r)], roles[Target(r)])
  /\ Rollback(r, "refused")

FindAlreadyOwner(r) ==
  /\ ProfileReadable(r)
  /\ AlreadyOwner(req[r], status[Target(r)], roles[Target(r)])
  /\ Rollback(r, "unchanged")

ReadProfile(r) ==
  LET t == Target(r)
  IN  /\ ProfileReadable(r)
      /\ ~ Refused(req[r], status[t], roles[t])
      /\ ~ AlreadyOwner(req[r], status[t], roles[t])
      /\ seen' = [seen EXCEPT ![r] = [status |-> status[t], roles |-> roles[t]]]
      /\ profileLock' = IF req[r].kind = "create" \/ status[t] = "none"
                        THEN profileLock
                        ELSE [profileLock EXCEPT ![t] = r]
      /\ Goto(r, IF ChangesOwners(req[r], roles[t]) THEN "lockOwner" ELSE "write")
      /\ UNCHANGED <<rows, req, outcome, userLock, keyShare, ownerLock>>

\* Mutation: pg_try_advisory_xact_lock with its answer ignored.
LockOwnerWithoutWaiting(r) ==
  /\ pc[r] = "lockOwner"
  /\ ownerLock' = r
  /\ Goto(r, IF req[r].kind = "bootstrap" THEN "lockUser"
             ELSE IF RemovesOwner(req[r], seen[r].roles) THEN "countOwners"
             ELSE "write")
  /\ UNCHANGED <<rows, req, seen, outcome, userLock, keyShare, profileLock>>

\* Mutation: owners are counted for a suspension only.
LockOwnerCountSuspensions(r) ==
  /\ pc[r] = "lockOwner"
  /\ ownerLock = NoOne
  /\ ownerLock' = r
  /\ Goto(r, IF req[r].kind = "bootstrap" THEN "lockUser"
             ELSE IF req[r].kind = "suspend" THEN "countOwners"
             ELSE "write")
  /\ UNCHANGED <<rows, req, seen, outcome, userLock, keyShare, profileLock>>

\* pg_advisory_xact_lock; only a command that takes an owner away counts them.
LockOwner(r) ==
  /\ pc[r] = "lockOwner"
  /\ ownerLock = NoOne
  /\ ownerLock' = r
  /\ Goto(r, IF req[r].kind = "bootstrap" THEN "lockUser"
             ELSE IF RemovesOwner(req[r], seen[r].roles) THEN "countOwners"
             ELSE "write")
  /\ UNCHANGED <<rows, req, seen, outcome, userLock, keyShare, profileLock>>

\* Mutation: the comparison is < 1 instead of <= 1.
AnyActiveOwner == ActiveOwners(status, roles) # {}

\* assertNotLastActiveOwner: more than one active owner is left to count.
SeveralActiveOwners ==
  \E u, v \in ActiveOwners(status, roles) : u # v

CountOwners(r) ==
  /\ pc[r] = "countOwners"
  /\ SeveralActiveOwners
  /\ Goto(r, "write")
  /\ UNCHANGED <<rows, req, seen, outcome, locks>>

RefuseLastOwner(r) ==
  /\ pc[r] = "countOwners"
  /\ ~ SeveralActiveOwners
  /\ Rollback(r, "lastOwner")

\* The inserts, updates and deletes.  The first row naming the actor (profile,
\* assignment or audit event) waits for the actor's users row.
Write(r) ==
  /\ pc[r] = "write"
  /\ IF Actor(r) = NoOne
     THEN UNCHANGED keyShare
     ELSE /\ userLock[Actor(r)] \in {NoOne, r}
          /\ keyShare' = [keyShare EXCEPT ![Actor(r)] = @ \cup {r}]
  /\ Goto(r, "commit")
  /\ UNCHANGED <<rows, req, seen, outcome, userLock, profileLock, ownerLock>>

\* Mutations of the two calls below.
DecrementVersion(v) == v - 1
AuditActorsOnly(log, e) == IF e.actor = NoOne THEN log ELSE log \cup {e}

\* incrementAuthenticationVersion and writeAudit.
IncrementVersion(v) == v + 1
WriteAudit(log, e)  == log \cup {e}

\* The columns a command assigns, from its request and what it read.
Commit(r) ==
  LET q == req[r]
      t == q.target
  IN  /\ pc[r] = "commit"
      /\ status' = IF q.kind = "replace" THEN status
                   ELSE [status EXCEPT ![t] = NextStatus(q)]
      /\ roles' = IF q.kind \in {"suspend", "activate"} THEN roles
                  ELSE [roles EXCEPT ![t] = WrittenRoles(q, seen[r].roles)]
      /\ authVersion' = [authVersion EXCEPT ![t] = IncrementVersion(authVersion[t])]
      /\ audit' = WriteAudit(audit, AuditEvent(r, q, seen[r].roles))
      /\ End(r, "changed")

\* A crash, a lost connection or a failing statement.
Abort(r) ==
  /\ pc[r] \in InTransaction
  /\ Rollback(r, "aborted")

\* PostgreSQL's deadlock detector fails one transaction of a waiting cycle.
BreakDeadlock(r) ==
  /\ \E C \in SUBSET Requests : r \in C /\ WaitCycle(C)
  /\ Rollback(r, "aborted")

\* Every request there was has ended.
Finished ==
  /\ \A r \in Requests : pc[r] = "done"
  /\ UNCHANGED vars
-----------------------------------------------------------------------------
(* What the server and the database do by themselves once a request began. *)
Statement(r) ==
  \/ LockUser(r) \/ RefuseInactiveIdentity(r)
  \/ RefuseCommand(r) \/ FindAlreadyOwner(r) \/ ReadProfile(r)
  \/ LockOwner(r)
  \/ CountOwners(r) \/ RefuseLastOwner(r)
  \/ Write(r) \/ Commit(r)

Next ==
  \/ \E r \in Requests :
       Admit(r) \/ StartBootstrap(r) \/ Statement(r) \/ Abort(r) \/ BreakDeadlock(r)
  \/ Finished

Spec == Init /\ [][Next]_vars

Fairness ==
  \A r \in Requests : WF_vars(Statement(r)) /\ WF_vars(BreakDeadlock(r))

FairSpec == Spec /\ Fairness
-----------------------------------------------------------------------------
(* Safety *)

TypeOK ==
  /\ status \in [Users -> Statuses]
  /\ roles \in [Users -> SUBSET Roles]
  /\ authVersion \in [Users -> Nat]
  /\ audit \subseteq AuditEvents
  /\ pc \in [Requests -> Steps]
  /\ req \in [Requests -> Commands \cup {NoCommand}]
  /\ \A r \in Requests : pc[r] \in InTransaction => req[r] \in Commands
  /\ seen \in [Requests -> [status : Statuses, roles : SUBSET Roles]]
  /\ outcome \in [Requests -> Outcomes]
  /\ userLock \in [Users -> Requests \cup {NoOne}]
  /\ keyShare \in [Users -> SUBSET Requests]
  /\ profileLock \in [Users -> Requests \cup {NoOne}]
  /\ ownerLock \in Requests \cup {NoOne}


\* The statements a transaction has behind it, by the one it is about to run.
HoldsUser(r)    == \/ pc[r] \in {"readProfile", "countOwners", "write", "commit"}
                   \/ pc[r] = "lockOwner" /\ req[r].kind # "bootstrap"
HasDecided(r)   == \/ pc[r] \in {"countOwners", "write", "commit"}
                   \/ pc[r] = "lockOwner" /\ req[r].kind # "bootstrap"
HoldsProfile(r) == HasDecided(r) /\ seen[r].status # "none"
HoldsOwner(r)   == \/ pc[r] = "countOwners"
                   \/ pc[r] \in {"write", "commit"} /\ ChangesOwners(req[r], seen[r].roles)
                   \/ pc[r] \in InTransaction \ {"lockOwner"} /\ req[r].kind = "bootstrap"

\* The locks are held by exactly the transactions that are past taking them,
\* and what a staff command read decides whether it takes the owner lock.
LocksMatchSteps ==
  \A r \in Requests :
    /\ pc[r] = "lockOwner" /\ req[r].kind # "bootstrap"
         => ChangesOwners(req[r], seen[r].roles)
    /\ pc[r] = "countOwners" => RemovesOwner(req[r], seen[r].roles)
    /\ \A u \in Users : userLock[u] = r <=> HoldsUser(r) /\ Target(r) = u
    /\ \A u \in Users : profileLock[u] = r <=> HoldsProfile(r) /\ Target(r) = u
    /\ ownerLock = r <=> HoldsOwner(r)

\* Nobody ever waits for a staff_profiles row, because the users row was
\* locked first.  It matters: a FOR UPDATE that waits re-reads only the locked
\* row, and would return it with the role assignments of its older snapshot.
ProfileRowUncontended ==
  \A r \in Requests :
    pc[r] = "readProfile" => profileLock[Target(r)] \in {NoOne, r}

\* Until its commit, what a transaction decided on is still what the rows say:
\* no profile or role change slips in between the check and the write.
DecisionHolds ==
  \A r \in Requests :
    /\ HoldsUser(r) => Target(r) \notin Disabled
    /\ HasDecided(r) =>
         LET t == Target(r)
         IN  /\ seen[r] = [status |-> status[t], roles |-> roles[t]]
             /\ ~ Refused(req[r], status[t], roles[t])
             /\ ~ AlreadyOwner(req[r], status[t], roles[t])

\* Behind the count, and until the commit, another active owner stays.
LastOwnerGuarded ==
  \A r \in Requests :
    pc[r] \in {"write", "commit"} /\ RemovesOwner(req[r], seen[r].roles)
      => ActiveOwners(status, roles) \ {Target(r)} # {}

\* Every successful command has written exactly one audit event, a command
\* that ended otherwise none, and each event is one authVersion increment.
AuditedOnce ==
  /\ \A r \in Requests :
       Cardinality({e \in audit : e.request = r}) =
         IF outcome[r] = "changed" THEN 1 ELSE 0
  /\ \A u \in Users : authVersion[u] = Cardinality({e \in audit : e.target = u})

Succeeds(r) == pc[r] = "commit" /\ outcome'[r] = "changed"

\* Once there is an active owner there always is one.
OwnerRetained ==
  [][ActiveOwners(status, roles) # {} => ActiveOwners(status', roles') # {}]_rows

\* A staff command grants only permissions of the authority it was admitted
\* with, and it neither makes nor changes an owner without staff.assign_owner,
\* whatever the target's roles had become by the time it commits.
NoEscalation ==
  [][\A r \in Requests : Succeeds(r) /\ req[r].kind \in StaffKinds =>
       LET t == Target(r)
           gained == roles'[t] \ roles[t]
           lost   == roles[t] \ roles'[t]
       IN  /\ \A k \in gained : Grants[k] \subseteq req[r].authority
           /\ Owner \in gained \cup lost \/ (Owner \in roles[t] /\ status'[t] # status[t])
                => AssignOwner \in req[r].authority]_vars

\* The transactions implement the one-step commands of StaffRegister.
Phase(r) == CASE pc[r] = "idle" -> "idle" [] pc[r] = "done" -> "done" [] OTHER -> "open"

Register == INSTANCE StaffRegister WITH phase <- [r \in Requests |-> Phase(r)]

ActsAtomically == Register!Spec
-----------------------------------------------------------------------------
(* Liveness *)

\* A transaction that began ends: no wait for a lock lasts forever, although
\* staff commands and bootstrap take the users row and the owner lock in
\* opposite orders and two actors may be each other's targets.
EveryRequestEnds == \A r \in Requests : pc[r] \in InTransaction ~> pc[r] = "done"
-----------------------------------------------------------------------------
(* What the documents say and the code does not keep *)

\* authorization.md 10.8: a staff user cannot reactivate themselves while
\* suspended.
NoSelfReactivation ==
  [][\A r \in Requests :
       Succeeds(r) /\ req[r].kind = "activate" => Actor(r) # Target(r)]_vars
=============================================================================
