------------------------ MODULE StaffLifecycleProofs ------------------------
(***************************************************************************)
(* Proofs about StaffLifecycle for every set of users and requests, every  *)
(* role catalogue and every choice of role lists.                          *)
(***************************************************************************)
EXTENDS StaffLifecycle, FiniteSetTheorems, TLAPS

-----------------------------------------------------------------------------
(* Types *)

\* The permissions of a set of roles are permissions of the catalogue.
LEMMA PermissionsTyped ==
  ASSUME NEW rs \in SUBSET Roles
  PROVE  PermissionsOf(rs) \in SUBSET Permissions
BY CatalogueAssumption DEF PermissionsOf

\* A command the guards admit, and a bootstrap run, is a command.
LEMMA AdmittedTyped ==
  ASSUME NEW st \in [Users -> Statuses], NEW rs \in [Users -> SUBSET Roles]
  PROVE  Admitted(st, rs) \subseteq Commands
<1> SUFFICES ASSUME NEW q \in Admitted(st, rs)
             PROVE  q \in Commands
  OBVIOUS
<1>1. \A u \in Users : EffectivePermissions(st, rs, u) \in SUBSET Permissions
  BY PermissionsTyped DEF EffectivePermissions
<1>2. q \in [kind : StaffKinds, actor : Users \ Disabled, target : Users,
             wanted : RoleChoices,
             authority : {EffectivePermissions(st, rs, u) : u \in Users}]
  BY DEF Admitted
<1>3. q.authority \in SUBSET Permissions
  BY <1>1, <1>2
<1>4. q = [kind |-> q.kind, actor |-> q.actor, target |-> q.target,
           wanted |-> q.wanted, authority |-> q.authority]
  BY <1>2
<1>5. /\ q.kind \in StaffKinds  /\ q.actor \in Users  /\ q.target \in Users
      /\ q.wanted \in SUBSET Roles
  BY <1>2, CatalogueAssumption
<1> QED
  BY <1>3, <1>4, <1>5 DEF Commands, Kinds

\* A bootstrap run is a command.
LEMMA BootstrapsTyped == Bootstraps \subseteq Commands
BY CatalogueAssumption DEF Bootstraps, Commands, Kinds, Owner

\* What a command writes, and the event it logs, have their types.
LEMMA WritesTyped ==
  ASSUME NEW q \in Commands, NEW rs \in SUBSET Roles, NEW r \in Requests
  PROVE  /\ NextStatus(q) \in Statuses
         /\ WrittenRoles(q, rs) \in SUBSET Roles
         /\ AuditEvent(r, q, rs) \in AuditEvents
BY DEF NextStatus, WrittenRoles, AuditEvent, AuditAction, AuditEvents, Actions,
       Statuses, Commands

\* Every statement of a transaction, an end of it, or nothing at all.
LEMMA NextCases ==
  ASSUME [Next]_vars
  PROVE  \/ \E r \in Requests :
              \/ Admit(r) \/ StartBootstrap(r) \/ LockUser(r) \/ ReadProfile(r)
              \/ LockOwner(r) \/ CountOwners(r) \/ Write(r) \/ Commit(r)
              \/ (pc[r] \in InTransaction /\ \E o \in Outcomes \ {"changed"} : Rollback(r, o))
         \/ UNCHANGED vars
<1>1. ASSUME NEW r \in Requests, BreakDeadlock(r)
      PROVE  pc[r] \in InTransaction /\ Rollback(r, "aborted")
  <2>1. PICK C \in SUBSET Requests : r \in C /\ WaitCycle(C)
    BY <1>1 DEF BreakDeadlock
  <2>2. WaitsFor(r) # {}
    BY <2>1 DEF WaitCycle, Stuck
  <2>3. pc[r] \in {"lockUser", "readProfile", "lockOwner", "write"}
    BY <2>2 DEF WaitsFor
  <2> QED
    BY <1>1, <2>3 DEF BreakDeadlock, InTransaction
<1>2. ASSUME NEW r \in Requests,
             RefuseInactiveIdentity(r) \/ RefuseCommand(r) \/ FindAlreadyOwner(r)
               \/ RefuseLastOwner(r) \/ Abort(r)
      PROVE  pc[r] \in InTransaction /\ \E o \in Outcomes \ {"changed"} : Rollback(r, o)
  BY <1>2 DEF RefuseInactiveIdentity, RefuseCommand, FindAlreadyOwner,
     RefuseLastOwner, Abort, ProfileReadable, InTransaction, Outcomes
<1> QED
  BY <1>1, <1>2 DEF Next, Statement, Finished, Outcomes

\* The initial states have the types.
LEMMA TypeInit == Init => TypeOK
BY CatalogueAssumption, IdentityAssumption
   DEF Init, TypeOK, NothingSeen, Statuses, Outcomes, Steps, AuditEvents,
       InTransaction

\* Ending a transaction keeps the types of all that is not a row.
LEMMA EndTyped ==
  ASSUME TypeOK, NEW r \in Requests, NEW o \in Outcomes, End(r, o)
  PROVE  /\ pc' \in [Requests -> Steps]
         /\ req' \in [Requests -> Commands \cup {NoCommand}]
         /\ \A s \in Requests : pc'[s] \in InTransaction => req'[s] \in Commands
         /\ seen' \in [Requests -> [status : Statuses, roles : SUBSET Roles]]
         /\ outcome' \in [Requests -> Outcomes]
         /\ userLock' \in [Users -> Requests \cup {NoOne}]
         /\ keyShare' \in [Users -> SUBSET Requests]
         /\ profileLock' \in [Users -> Requests \cup {NoOne}]
         /\ ownerLock' \in Requests \cup {NoOne}
BY DEF TypeOK, End, ReleaseAll, Steps, InTransaction, NothingSeen, Statuses

\* Every step keeps the types.
LEMMA TypeStep == TypeOK /\ [Next]_vars => TypeOK'
<1> SUFFICES ASSUME TypeOK, [Next]_vars
             PROVE  TypeOK'
  OBVIOUS
<1> USE DEF rows, locks, Goto, Steps, InTransaction
<1>1. CASE UNCHANGED vars
  BY <1>1 DEF TypeOK, vars
<1>2. ASSUME NEW r \in Requests, Admit(r)
      PROVE  TypeOK'
  BY <1>2, AdmittedTyped DEF TypeOK, Admit
<1>3. ASSUME NEW r \in Requests, StartBootstrap(r)
      PROVE  TypeOK'
  BY <1>3, BootstrapsTyped DEF TypeOK, StartBootstrap
<1>4. ASSUME NEW r \in Requests, LockUser(r)
      PROVE  TypeOK'
  BY <1>4 DEF TypeOK, LockUser
<1>5. ASSUME NEW r \in Requests, ReadProfile(r)
      PROVE  TypeOK'
  <2>1. Target(r) \in Users
    BY <1>5 DEF TypeOK, ReadProfile, ProfileReadable, Target, Commands
  <2> QED
    BY <1>5, <2>1 DEF TypeOK, ReadProfile, ProfileReadable
<1>6. ASSUME NEW r \in Requests, LockOwner(r)
      PROVE  TypeOK'
  BY <1>6 DEF TypeOK, LockOwner
<1>7. ASSUME NEW r \in Requests, CountOwners(r)
      PROVE  TypeOK'
  BY <1>7 DEF TypeOK, CountOwners
<1>8. ASSUME NEW r \in Requests, Write(r)
      PROVE  TypeOK'
  BY <1>8 DEF TypeOK, Write
<1>9. ASSUME NEW r \in Requests, Commit(r)
      PROVE  TypeOK'
  <2>1. req[r] \in Commands /\ Target(r) \in Users /\ seen[r].roles \in SUBSET Roles
    BY <1>9 DEF TypeOK, Commit, Target, Commands
  <2>2. End(r, "changed") /\ "changed" \in Outcomes
    BY <1>9 DEF Commit, Outcomes
  <2>5. AuditEvent(r, req[r], seen[r].roles) \in AuditEvents
    BY <2>1, WritesTyped
  <2>3. status' \in [Users -> Statuses] /\ roles' \in [Users -> SUBSET Roles]
    BY <1>9, <2>1, WritesTyped DEF TypeOK, Commit, Target
  <2>4. authVersion' \in [Users -> Nat] /\ audit' \subseteq AuditEvents
    BY <1>9, <2>1, <2>5 DEF TypeOK, Commit, Target, IncrementVersion, WriteAudit
  <2> QED
    BY <2>2, <2>3, <2>4, EndTyped DEF TypeOK
<1>10. ASSUME NEW r \in Requests, NEW o \in Outcomes, Rollback(r, o)
       PROVE  TypeOK'
  BY <1>10, EndTyped DEF TypeOK, Rollback
<1> QED
  BY <1>1, <1>2, <1>3, <1>4, <1>5, <1>6, <1>7, <1>8, <1>9, <1>10, NextCases

\* StaffLifecycle.TypeOK, for every instance.
THEOREM TypeCorrect == Spec => []TypeOK
BY TypeInit, TypeStep, PTL DEF Spec
-----------------------------------------------------------------------------
(* Locks *)

\* A command that removes an owner is one that takes the owner lock.
LEMMA RemovalChangesOwners ==
  ASSUME NEW q, NEW rs, RemovesOwner(q, rs)
  PROVE  ChangesOwners(q, rs)
BY DEF RemovesOwner, ChangesOwners, OwnerChanged

\* At the start nobody holds or needs a lock.
LEMMA LocksInit == Init => LocksMatchSteps
BY IdentityAssumption
   DEF Init, LocksMatchSteps, HoldsUser, HoldsProfile, HasDecided, HoldsOwner,
       InTransaction

\* Ending r's transaction leaves every other transaction's locks alone.
LEMMA EndLocks ==
  ASSUME TypeOK, LocksMatchSteps, NEW r \in Requests, NEW o \in Outcomes, End(r, o)
  PROVE  LocksMatchSteps'
BY IdentityAssumption
   DEF TypeOK, LocksMatchSteps, End, ReleaseAll, HoldsUser, HoldsProfile,
       HasDecided, HoldsOwner, Target, InTransaction

\* Each statement takes the lock it stands for, and no other.
LEMMA LocksStep ==
  TypeOK /\ LocksMatchSteps /\ [Next]_vars => LocksMatchSteps'
<1> SUFFICES ASSUME TypeOK, LocksMatchSteps, [Next]_vars
             PROVE  LocksMatchSteps'
  OBVIOUS
<1> USE IdentityAssumption
    DEF LocksMatchSteps, HoldsUser, HoldsProfile, HasDecided, HoldsOwner, Target,
        rows, locks, Goto, InTransaction
<1>1. CASE UNCHANGED vars
  BY <1>1 DEF vars
<1>2. ASSUME NEW r \in Requests, Admit(r)
      PROVE  LocksMatchSteps'
  BY <1>2 DEF TypeOK, Admit, Admitted, StaffKinds
<1>3. ASSUME NEW r \in Requests, StartBootstrap(r)
      PROVE  LocksMatchSteps'
  BY <1>3 DEF TypeOK, StartBootstrap, Bootstraps
<1>4. ASSUME NEW r \in Requests, LockUser(r)
      PROVE  LocksMatchSteps'
  BY <1>4 DEF TypeOK, LockUser, UserRowFree, Commands
<1>5. ASSUME NEW r \in Requests, ReadProfile(r)
      PROVE  LocksMatchSteps'
  <2> DEFINE t == Target(r)
  <2>1. /\ pc[r] = "readProfile" /\ req[r] \in Commands /\ t \in Users
        /\ userLock[t] = r
    BY <1>5 DEF TypeOK, ReadProfile, ProfileReadable, Commands
  <2>2. /\ req[r].kind = "create" => status[t] = "none"
        /\ req[r].kind = "bootstrap" => ~ ChangesOwners(req[r], roles[t])
    BY <1>5 DEF ReadProfile, Refused, ChangesOwners
  <2>3. /\ pc' = [pc EXCEPT ![r] = IF ChangesOwners(req[r], roles[t])
                                   THEN "lockOwner" ELSE "write"]
        /\ seen' = [seen EXCEPT ![r] = [status |-> status[t], roles |-> roles[t]]]
        /\ UNCHANGED <<req, userLock, ownerLock>>
    BY <1>5 DEF ReadProfile
  <2>4. profileLock' = IF status[t] = "none" THEN profileLock
                       ELSE [profileLock EXCEPT ![t] = r]
    BY <1>5, <2>2 DEF ReadProfile
  <2>5. status[t] # "none" => profileLock[t] \in {NoOne, r}
    BY <1>5, <2>2 DEF ReadProfile, ProfileReadable
  <2>6. ASSUME NEW s \in Requests, s # r
        PROVE  /\ pc'[s] = pc[s] /\ seen'[s] = seen[s] /\ req'[s] = req[s]
               /\ \A u \in Users : profileLock'[u] = s <=> profileLock[u] = s
    BY <2>1, <2>3, <2>4, <2>5, <2>6 DEF TypeOK
  <2>7. /\ pc'[r] = IF ChangesOwners(req[r], roles[t]) THEN "lockOwner" ELSE "write"
        /\ seen'[r].roles = roles[t] /\ seen'[r].status = status[t]
        /\ req'[r] = req[r]
    BY <2>3 DEF TypeOK
  <2>8. \A u \in Users :
          /\ userLock'[u] = r <=> u = t
          /\ profileLock'[u] = r <=> status[t] # "none" /\ u = t
    <3>1. \A u \in Users : userLock[u] = r <=> u = t
      BY <2>1
    <3>2. \A u \in Users : profileLock[u] # r
      BY <2>1
    <3>3. profileLock \in [Users -> Requests \cup {NoOne}]
      BY DEF TypeOK
    <3> HIDE DEF LocksMatchSteps, t
    <3> QED
      BY <2>1, <2>3, <2>4, <3>1, <3>2, <3>3
  <2>9. ownerLock' = r <=> req[r].kind = "bootstrap"
    BY <2>1, <2>3
  <2> QED
    BY <2>1, <2>2, <2>3, <2>6, <2>7, <2>8, <2>9
<1>6. ASSUME NEW r \in Requests, LockOwner(r)
      PROVE  LocksMatchSteps'
  BY <1>6, RemovalChangesOwners DEF TypeOK, LockOwner, Commands
<1>7. ASSUME NEW r \in Requests, CountOwners(r)
      PROVE  LocksMatchSteps'
  BY <1>7, RemovalChangesOwners DEF TypeOK, CountOwners
<1>8. ASSUME NEW r \in Requests, Write(r)
      PROVE  LocksMatchSteps'
  BY <1>8 DEF TypeOK, Write
<1>9. ASSUME NEW r \in Requests, Commit(r)
      PROVE  LocksMatchSteps'
  BY <1>9, EndLocks DEF Commit, Outcomes
<1>10. ASSUME NEW r \in Requests, NEW o \in Outcomes, Rollback(r, o)
       PROVE  LocksMatchSteps'
  BY <1>10, EndLocks DEF Rollback
<1> QED
  BY <1>1, <1>2, <1>3, <1>4, <1>5, <1>6, <1>7, <1>8, <1>9, <1>10, NextCases

\* StaffLifecycle.LocksMatchSteps, for every instance.
THEOREM LocksCorrect == Spec => []LocksMatchSteps
BY TypeCorrect, LocksInit, LocksStep, PTL DEF Spec

\* A transaction at the profile already has the users row of its target, and
\* so has every holder of the profile: they are the same transaction.
LEMMA LocksUncontend == TypeOK /\ LocksMatchSteps => ProfileRowUncontended
<1> SUFFICES ASSUME TypeOK, LocksMatchSteps, NEW r \in Requests,
                    pc[r] = "readProfile", profileLock[Target(r)] # NoOne
             PROVE  profileLock[Target(r)] = r
  BY DEF ProfileRowUncontended
<1> DEFINE t == Target(r)
<1>1. t \in Users
  BY DEF TypeOK, InTransaction, Commands, Target
<1>2. PICK s \in Requests : profileLock[t] = s
  BY <1>1 DEF TypeOK
<1>3. userLock[t] = s
  BY <1>1, <1>2 DEF LocksMatchSteps, HoldsProfile, HasDecided, HoldsUser
<1>4. userLock[t] = r
  BY <1>1 DEF LocksMatchSteps, HoldsUser
<1> QED
  BY <1>2, <1>3, <1>4

\* No transaction waits for a staff profile row.
THEOREM ProfileRowsUncontended == Spec => []ProfileRowUncontended
BY TypeCorrect, LocksCorrect, LocksUncontend, PTL
-----------------------------------------------------------------------------
(* Decisions *)

\* Two transactions past the users row have different targets.
LEMMA TargetsDiffer ==
  ASSUME TypeOK, LocksMatchSteps, NEW r \in Requests, NEW s \in Requests,
         HoldsUser(r), HoldsUser(s), Target(r) = Target(s)
  PROVE  r = s
<1>1. Target(r) \in Users
  BY DEF TypeOK, HoldsUser, Target, InTransaction, Commands
<1> QED
  BY <1>1 DEF LocksMatchSteps

\* What Commit writes is what the command does to the rows of that moment:
\* the transaction still holds what it decided from.
LEMMA CommitWrites ==
  ASSUME TypeOK, DecisionHolds, NEW r \in Requests, Commit(r)
  PROVE  LET q == req[r]
             t == Target(r)
         IN  /\ q \in Commands /\ t \in Users
             /\ t \notin Disabled
             /\ ~ Refused(q, status[t], roles[t])
             /\ ~ AlreadyOwner(q, status[t], roles[t])
             /\ seen[r].roles = roles[t]
             /\ status' = [status EXCEPT ![t] = WrittenStatus(q, status[t])]
             /\ roles' = [roles EXCEPT ![t] = WrittenRoles(q, roles[t])]
             /\ authVersion' = [authVersion EXCEPT ![t] = authVersion[t] + 1]
             /\ audit' = audit \cup {AuditEvent(r, q, roles[t])}
<1> DEFINE q == req[r]
           t == Target(r)
<1>1. /\ q \in Commands /\ t \in Users
      /\ pc[r] = "commit"
  BY DEF TypeOK, Commit, InTransaction, Commands, Target
<1>2. /\ seen[r] = [status |-> status[t], roles |-> roles[t]]
      /\ t \notin Disabled
      /\ ~ Refused(q, status[t], roles[t])
      /\ ~ AlreadyOwner(q, status[t], roles[t])
  BY <1>1 DEF DecisionHolds, HasDecided, HoldsUser
<1>3. seen[r].roles = roles[t]
  BY <1>2
<1>4. status' = [status EXCEPT ![t] = WrittenStatus(q, status[t])]
  BY <1>1 DEF TypeOK, Commit, WrittenStatus, Target
<1>5. roles' = [roles EXCEPT ![t] = WrittenRoles(q, roles[t])]
  BY <1>1, <1>3 DEF TypeOK, Commit, WrittenRoles, Target
<1>6. /\ authVersion' = [authVersion EXCEPT ![t] = authVersion[t] + 1]
      /\ audit' = audit \cup {AuditEvent(r, q, roles[t])}
  BY <1>3 DEF Commit, Target, IncrementVersion, WriteAudit
<1> QED
  BY <1>1, <1>2, <1>3, <1>4, <1>5, <1>6

\* At the start nobody has decided anything.
LEMMA DecisionInit == Init => DecisionHolds
BY DEF Init, DecisionHolds, HasDecided, HoldsUser

\* A step that leaves the target's rows and the transaction alone leaves its
\* decision alone.
LEMMA DecisionFrame ==
  ASSUME DecisionHolds, NEW r \in Requests, HasDecided(r)',
         pc'[r] = pc[r], req'[r] = req[r], seen'[r] = seen[r],
         status'[Target(r)] = status[Target(r)],
         roles'[Target(r)] = roles[Target(r)]
  PROVE  LET t == Target(r)
         IN  /\ seen'[r] = [status |-> status'[t], roles |-> roles'[t]]
             /\ ~ Refused(req'[r], status'[t], roles'[t])
             /\ ~ AlreadyOwner(req'[r], status'[t], roles'[t])
BY DEF DecisionHolds, HasDecided

\* No step changes the rows another transaction decided on: Commit writes only
\* its target, whose users row it has locked.
LEMMA DecisionStep ==
  TypeOK /\ LocksMatchSteps /\ DecisionHolds /\ [Next]_vars => DecisionHolds'
<1> SUFFICES ASSUME TypeOK, LocksMatchSteps, DecisionHolds, [Next]_vars
             PROVE  DecisionHolds'
  OBVIOUS
<1> USE DEF rows, locks, Goto
<1>1. CASE UNCHANGED vars
  BY <1>1 DEF vars, DecisionHolds, HasDecided, HoldsUser, Target
<1>2. ASSUME NEW r \in Requests, Admit(r) \/ StartBootstrap(r) \/ LockUser(r)
      PROVE  DecisionHolds'
  <2>1. /\ pc'[r] \in {"lockUser", "lockOwner", "readProfile"}
        /\ pc'[r] = "lockOwner" => req'[r].kind = "bootstrap"
        /\ pc'[r] = "readProfile" => req'[r].target \notin Disabled
    BY <1>2 DEF TypeOK, Admit, StartBootstrap, LockUser, Bootstraps, Target
  <2>2. UNCHANGED <<status, roles, seen>>
    BY <1>2 DEF Admit, StartBootstrap, LockUser
  <2>3. \A s \in Requests \ {r} : pc'[s] = pc[s] /\ req'[s] = req[s]
    BY <1>2 DEF TypeOK, Admit, StartBootstrap, LockUser
  <2> QED
    BY <2>1, <2>2, <2>3 DEF DecisionHolds, HasDecided, HoldsUser, Target
<1>3. ASSUME NEW r \in Requests, ReadProfile(r)
      PROVE  DecisionHolds'
  <2> DEFINE t == Target(r)
  <2>1. UNCHANGED <<status, roles, req>>
    BY <1>3 DEF ReadProfile
  <2>2. \A s \in Requests \ {r} : pc'[s] = pc[s] /\ seen'[s] = seen[s]
    BY <1>3 DEF TypeOK, ReadProfile
  <2>3. /\ t \in Users
        /\ userLock[t] = r
        /\ seen'[r] = [status |-> status[t], roles |-> roles[t]]
        /\ ~ Refused(req[r], status[t], roles[t])
        /\ ~ AlreadyOwner(req[r], status[t], roles[t])
    BY <1>3 DEF TypeOK, ReadProfile, ProfileReadable, LocksMatchSteps, HoldsUser,
                Target, InTransaction, Commands
  <2>4. t \notin Disabled
    BY <1>3 DEF ReadProfile, ProfileReadable, DecisionHolds, HoldsUser
  <2> QED
    BY <2>1, <2>2, <2>3, <2>4 DEF DecisionHolds, HasDecided, HoldsUser, Target
<1>4. ASSUME NEW r \in Requests, LockOwner(r) \/ CountOwners(r) \/ Write(r)
      PROVE  DecisionHolds'
  <2>1. UNCHANGED <<status, roles, req, seen>>
    BY <1>4 DEF LockOwner, CountOwners, Write
  <2>2. \A s \in Requests \ {r} : pc'[s] = pc[s]
    BY <1>4 DEF TypeOK, LockOwner, CountOwners, Write
  <2>3. /\ HasDecided(r)' => HasDecided(r)
        /\ HoldsUser(r)' => HoldsUser(r)
    BY <1>4 DEF TypeOK, LockOwner, CountOwners, Write, HasDecided, HoldsUser
  <2> QED
    BY <2>1, <2>2, <2>3 DEF DecisionHolds, HasDecided, HoldsUser, Target
<1>5. ASSUME NEW r \in Requests, Commit(r)
      PROVE  DecisionHolds'
  <2>2. End(r, "changed") /\ pc[r] = "commit"
    BY <1>5 DEF Commit
  <2>9. \A s \in Requests : HoldsUser(s)' => Target(s)' \notin Disabled
    BY <2>2 DEF TypeOK, End, HoldsUser, DecisionHolds, Target
  <2>1. SUFFICES ASSUME NEW s \in Requests, HasDecided(s)'
                 PROVE  LET t == Target(s)'
                        IN  /\ seen'[s] = [status |-> status'[t], roles |-> roles'[t]]
                            /\ ~ Refused(req'[s], status'[t], roles'[t])
                            /\ ~ AlreadyOwner(req'[s], status'[t], roles'[t])
    BY <2>9 DEF DecisionHolds
  <2>3. s # r
    BY <2>1, <2>2 DEF TypeOK, End, HasDecided
  <2>4. pc'[s] = pc[s] /\ req'[s] = req[s] /\ seen'[s] = seen[s]
    BY <2>2, <2>3 DEF TypeOK, End
  <2>5. HasDecided(s)
    BY <2>1, <2>4 DEF HasDecided
  <2>6. Target(s) # Target(r)
    BY <2>2, <2>3, <2>5, TargetsDiffer DEF HoldsUser, HasDecided
  <2>7. Target(s) \in Users
    BY <2>5 DEF TypeOK, HasDecided, InTransaction, Commands, Target
  <2>8. status'[Target(s)] = status[Target(s)] /\ roles'[Target(s)] = roles[Target(s)]
    BY <1>5, <2>6, <2>7, CommitWrites DEF TypeOK
  <2> QED
    BY <2>1, <2>4, <2>8, DecisionFrame DEF Target
<1>6. ASSUME NEW r \in Requests, NEW o \in Outcomes, Rollback(r, o)
      PROVE  DecisionHolds'
  <2>1. UNCHANGED <<status, roles>> /\ pc'[r] = "done"
    BY <1>6 DEF TypeOK, Rollback, End
  <2>2. \A s \in Requests \ {r} :
          pc'[s] = pc[s] /\ req'[s] = req[s] /\ seen'[s] = seen[s]
    BY <1>6 DEF TypeOK, Rollback, End
  <2> QED
    BY <2>1, <2>2 DEF DecisionHolds, HasDecided, HoldsUser, Target
<1> QED
  BY <1>1, <1>2, <1>3, <1>4, <1>5, <1>6, NextCases

\* StaffLifecycle.DecisionHolds, for every instance.
THEOREM DecisionsHold == Spec => []DecisionHolds
BY TypeCorrect, LocksCorrect, DecisionInit, DecisionStep, PTL DEF Spec
-----------------------------------------------------------------------------
(* The last active owner *)

\* A commit that does not remove an owner keeps every active owner; one that
\* does keeps every active owner but its target.
LEMMA CommitKeepsOthers ==
  ASSUME TypeOK, DecisionHolds, NEW r \in Requests, Commit(r),
         NEW u \in ActiveOwners(status, roles),
         u # Target(r) \/ ~ RemovesOwner(req[r], seen[r].roles)
  PROVE  u \in ActiveOwners(status', roles')
<1> DEFINE q == req[r]
           t == Target(r)
<1>1. /\ q \in Commands /\ t \in Users
      /\ ~ Refused(q, status[t], roles[t])
      /\ seen[r].roles = roles[t]
      /\ status' = [status EXCEPT ![t] = WrittenStatus(q, status[t])]
      /\ roles' = [roles EXCEPT ![t] = WrittenRoles(q, roles[t])]
  BY CommitWrites
<1>2. u \in Users \ Disabled /\ status[u] = "active" /\ Owner \in roles[u]
  BY DEF ActiveOwners
<1>3. CASE u # t
  BY <1>1, <1>2, <1>3 DEF ActiveOwners, TypeOK
<1>4. CASE u = t
  <2>1. q.kind # "create" /\ q.kind # "suspend"
    BY <1>1, <1>2, <1>4 DEF Refused, RemovesOwner
  <2>2. WrittenStatus(q, status[t]) = "active"
    BY <1>2, <1>4, <2>1 DEF WrittenStatus, NextStatus
  <2>3. Owner \in WrittenRoles(q, roles[t])
    BY <1>1, <1>2, <1>4, <2>1 DEF WrittenRoles, RemovesOwner
  <2> QED
    BY <1>1, <1>2, <1>4, <2>2, <2>3 DEF ActiveOwners, TypeOK
<1> QED
  BY <1>3, <1>4

\* At the start nobody removes an owner.
LEMMA GuardInit == Init => LastOwnerGuarded
BY DEF Init, LastOwnerGuarded

\* Whoever is behind the count holds the owner lock, so no other transaction
\* commits the removal of an owner before it does.
LEMMA GuardStep ==
  TypeOK /\ LocksMatchSteps /\ DecisionHolds /\ LastOwnerGuarded /\ [Next]_vars
    => LastOwnerGuarded'
<1> SUFFICES ASSUME TypeOK, LocksMatchSteps, DecisionHolds, LastOwnerGuarded,
                    [Next]_vars,
                    NEW s \in Requests, pc'[s] \in {"write", "commit"},
                    RemovesOwner(req'[s], seen'[s].roles)
             PROVE  ActiveOwners(status', roles') \ {Target(s)'} # {}
  BY DEF LastOwnerGuarded
<1> USE DEF rows, locks, Goto
<1>1. CASE UNCHANGED vars
  BY <1>1 DEF vars, LastOwnerGuarded, Target
<1>2. ASSUME NEW r \in Requests,
             \/ Admit(r) \/ StartBootstrap(r) \/ LockUser(r)
             \/ LockOwner(r) \/ ReadProfile(r) \/ Write(r)
      PROVE  ActiveOwners(status', roles') \ {Target(s)'} # {}
  <2>1. UNCHANGED <<status, roles>>
    BY <1>2 DEF Admit, StartBootstrap, LockUser, LockOwner, ReadProfile, Write
  <2>2. CASE s # r
    BY <1>2, <2>1, <2>2 DEF TypeOK, LastOwnerGuarded, Admit, StartBootstrap,
       LockUser, LockOwner, ReadProfile, Write, Target
  <2>3. CASE s = r
    <3>1. Write(r)
      BY <1>2, <2>3, RemovalChangesOwners
         DEF TypeOK, Admit, StartBootstrap, LockUser, LockOwner, ReadProfile
    <3> QED
      BY <2>1, <2>3, <3>1 DEF LastOwnerGuarded, Write, Target
  <2> QED
    BY <2>2, <2>3
<1>3. ASSUME NEW r \in Requests, CountOwners(r)
      PROVE  ActiveOwners(status', roles') \ {Target(s)'} # {}
  <2>1. UNCHANGED <<status, roles, req, seen>> /\ SeveralActiveOwners
    BY <1>3 DEF CountOwners
  <2>2. CASE s = r
    BY <2>1, <2>2 DEF SeveralActiveOwners, Target
  <2>3. CASE s # r
    BY <1>3, <2>1, <2>3 DEF TypeOK, LastOwnerGuarded, CountOwners, Target
  <2> QED
    BY <2>2, <2>3
<1>4. ASSUME NEW r \in Requests, Commit(r)
      PROVE  ActiveOwners(status', roles') \ {Target(s)'} # {}
  <2>1. End(r, "changed") /\ pc[r] = "commit"
    BY <1>4 DEF Commit
  <2>2. s # r
    BY <2>1 DEF TypeOK, End
  <2>3. pc'[s] = pc[s] /\ req'[s] = req[s] /\ seen'[s] = seen[s]
    BY <2>1, <2>2 DEF TypeOK, End
  <2>4. PICK u \in ActiveOwners(status, roles) : u # Target(s)
    BY <2>3 DEF LastOwnerGuarded
  <2>5. ownerLock = s
    BY <2>3, RemovalChangesOwners DEF LocksMatchSteps, HoldsOwner
  <2>6. ~ RemovesOwner(req[r], seen[r].roles)
    BY <2>1, <2>2, <2>5, RemovalChangesOwners DEF LocksMatchSteps, HoldsOwner
  <2>7. u \in ActiveOwners(status', roles')
    BY <1>4, <2>4, <2>6, CommitKeepsOthers
  <2> QED
    BY <2>3, <2>4, <2>7 DEF Target
<1>5. ASSUME NEW r \in Requests, NEW o \in Outcomes, Rollback(r, o)
      PROVE  ActiveOwners(status', roles') \ {Target(s)'} # {}
  <2>1. UNCHANGED <<status, roles>> /\ End(r, o)
    BY <1>5 DEF Rollback
  <2>2. s # r
    BY <2>1 DEF TypeOK, End
  <2> QED
    BY <2>1, <2>2 DEF TypeOK, End, LastOwnerGuarded, Target
<1> QED
  BY <1>1, <1>2, <1>3, <1>4, <1>5, NextCases

\* StaffLifecycle.LastOwnerGuarded, for every instance.
THEOREM LastOwnerSafe == Spec => []LastOwnerGuarded
BY TypeCorrect, LocksCorrect, DecisionsHold, GuardInit, GuardStep, PTL DEF Spec

\* Every step keeps an active owner if there is one.
LEMMA RetainStep ==
  TypeOK /\ DecisionHolds /\ LastOwnerGuarded /\ [Next]_vars
    => [ActiveOwners(status, roles) # {} => ActiveOwners(status', roles') # {}]_rows
<1> SUFFICES ASSUME TypeOK, DecisionHolds, LastOwnerGuarded, [Next]_vars,
                    ActiveOwners(status, roles) # {}
             PROVE  UNCHANGED rows \/ ActiveOwners(status', roles') # {}
  OBVIOUS
<1>1. ASSUME NEW r \in Requests, Commit(r)
      PROVE  ActiveOwners(status', roles') # {}
  <2>1. CASE RemovesOwner(req[r], seen[r].roles)
    <3>1. PICK u \in ActiveOwners(status, roles) : u # Target(r)
      BY <1>1, <2>1 DEF LastOwnerGuarded, Commit
    <3> QED
      BY <1>1, <3>1, CommitKeepsOthers
  <2>2. CASE ~ RemovesOwner(req[r], seen[r].roles)
    BY <1>1, <2>2, CommitKeepsOthers
  <2> QED
    BY <2>1, <2>2
<1>2. ASSUME NEW r \in Requests,
             \/ Admit(r) \/ StartBootstrap(r) \/ LockUser(r) \/ ReadProfile(r)
             \/ LockOwner(r) \/ CountOwners(r) \/ Write(r)
             \/ \E o \in Outcomes : Rollback(r, o)
      PROVE  UNCHANGED rows
  BY <1>2 DEF Admit, StartBootstrap, LockUser, ReadProfile, LockOwner,
     CountOwners, Write, Rollback
<1>3. CASE UNCHANGED vars
  BY <1>3 DEF vars
<1> QED
  BY <1>1, <1>2, <1>3, NextCases

\* Whatever staff commands and bootstrap runs do at the same time, an
\* installation that has an active owner keeps one.
THEOREM OwnerAlwaysRetained == Spec => OwnerRetained
BY TypeCorrect, DecisionsHold, LastOwnerSafe, RetainStep, PTL
   DEF Spec, OwnerRetained
-----------------------------------------------------------------------------
(* The transactions implement the one-step commands *)

\* The instance has the rules of this module: they mention constants only.
LEMMA SameRules ==
  /\ Register!Statuses = Statuses /\ Register!NoCommand = NoCommand
  /\ \A st, rs : Register!Admitted(st, rs) = Admitted(st, rs)
  /\ Register!Bootstraps = Bootstraps
  /\ \A st, rs : Register!ActiveOwners(st, rs) = ActiveOwners(st, rs)
  /\ \A q, st, rs : Register!Refused(q, st, rs) = Refused(q, st, rs)
  /\ \A q, st, rs : Register!AlreadyOwner(q, st, rs) = AlreadyOwner(q, st, rs)
  /\ \A q, st : Register!WrittenStatus(q, st) = WrittenStatus(q, st)
  /\ \A q, rs : Register!WrittenRoles(q, rs) = WrittenRoles(q, rs)
  /\ \A r, q, rs : Register!AuditEvent(r, q, rs) = AuditEvent(r, q, rs)
<1>1. /\ Register!Statuses = Statuses /\ Register!NoCommand = NoCommand
      /\ Register!Bootstraps = Bootstraps
  BY DEF Register!Statuses, Statuses, Register!NoCommand, NoCommand,
     Register!Bootstraps, Bootstraps, Register!Owner, Owner
<1>2. \A rs : Register!PermissionsOf(rs) = PermissionsOf(rs)
  BY DEF Register!PermissionsOf, PermissionsOf
<1>3. \A st, rs : Register!ActiveOwners(st, rs) = ActiveOwners(st, rs)
  BY DEF Register!ActiveOwners, ActiveOwners, Register!Owner, Owner
<1>4. \A st, rs, u : Register!EffectivePermissions(st, rs, u)
                       = EffectivePermissions(st, rs, u)
  BY <1>2 DEF Register!EffectivePermissions, EffectivePermissions
<1>5. \A k : Register!RequiredPermissions(k) = RequiredPermissions(k)
  BY DEF Register!RequiredPermissions, RequiredPermissions, Register!AdminAccess,
     AdminAccess, Register!CreateStaff, CreateStaff, Register!AssignRoles,
     AssignRoles, Register!SuspendStaff, SuspendStaff
<1>6. \A st, rs : Register!Admitted(st, rs) = Admitted(st, rs)
  BY <1>4, <1>5 DEF Register!Admitted, Admitted, Register!StaffKinds, StaffKinds
<1>7. \A q, st, rs : Register!Refused(q, st, rs) = Refused(q, st, rs)
  BY <1>2 DEF Register!Refused, Refused, Register!MayAssign, MayAssign,
     Register!OwnerChanged, OwnerChanged, Register!NextStatus, NextStatus,
     Register!AssignOwner, AssignOwner, Register!Owner, Owner
<1>8. \A q, st, rs : Register!AlreadyOwner(q, st, rs) = AlreadyOwner(q, st, rs)
  BY DEF Register!AlreadyOwner, AlreadyOwner, Register!Owner, Owner
<1>9. /\ \A q, st : Register!WrittenStatus(q, st) = WrittenStatus(q, st)
      /\ \A q, rs : Register!WrittenRoles(q, rs) = WrittenRoles(q, rs)
  BY DEF Register!WrittenStatus, WrittenStatus, Register!NextStatus, NextStatus,
     Register!WrittenRoles, WrittenRoles
<1>10. \A r, q, rs : Register!AuditEvent(r, q, rs) = AuditEvent(r, q, rs)
  BY DEF Register!AuditEvent, AuditEvent, Register!AuditAction, AuditAction,
     Register!OwnerChanged, OwnerChanged, Register!Owner, Owner
<1> QED
  BY <1>1, <1>3, <1>6, <1>7, <1>8, <1>9, <1>10

\* The initial states are initial states of the register.
LEMMA RegisterInit == Init => Register!Init
BY CatalogueAssumption, SameRules DEF Init, Register!Init, Phase

\* The phase of the request that moves, and of the others.
LEMMA PhaseMoves ==
  ASSUME TypeOK, NEW r \in Requests, NEW s \in Steps, pc' = [pc EXCEPT ![r] = s]
  PROVE  [x \in Requests |-> Phase(x)]' =
           [[x \in Requests |-> Phase(x)] EXCEPT ![r] =
              IF s = "idle" THEN "idle" ELSE IF s = "done" THEN "done" ELSE "open"]
BY DEF TypeOK, Phase, Steps, InTransaction

\* Admission opens the command, Commit applies it, every rollback closes it,
\* and all statements between are stutters.
LEMMA RegisterStep ==
  ASSUME TypeOK, TypeOK', DecisionHolds, LastOwnerGuarded, [Next]_vars
  PROVE  [Register!Next]_(Register!vars)
<1> DEFINE phase == [x \in Requests |-> Phase(x)]
<1> USE DEF rows, locks, Goto, InTransaction
<1>1. ASSUME NEW r \in Requests, Admit(r) \/ StartBootstrap(r)
      PROVE  Register!Open(r)
  <2>1. phase[r] = "idle"
    BY <1>1 DEF Admit, StartBootstrap, Phase
  <2>2. phase' = [phase EXCEPT ![r] = "open"]
    <3>1. PICK s \in InTransaction : pc' = [pc EXCEPT ![r] = s]
      BY <1>1 DEF Admit, StartBootstrap
    <3> QED
      BY <3>1, PhaseMoves DEF Steps
  <2>3. \E q \in Admitted(status, roles) \cup Bootstraps : req' = [req EXCEPT ![r] = q]
    BY <1>1 DEF Admit, StartBootstrap
  <2>4. UNCHANGED <<status, roles, authVersion, audit>>
    BY <1>1 DEF Admit, StartBootstrap
  <2> QED
    BY <2>1, <2>2, <2>3, <2>4, SameRules DEF Register!Open
<1>2. ASSUME NEW r \in Requests,
             \/ LockUser(r) \/ ReadProfile(r) \/ LockOwner(r)
             \/ CountOwners(r) \/ Write(r)
      PROVE  UNCHANGED Register!vars
  <2>1. phase[r] = "open"
    BY <1>2 DEF LockUser, ReadProfile, ProfileReadable, LockOwner, CountOwners,
       Write, Phase
  <2>2. phase' = [phase EXCEPT ![r] = "open"]
    <3>1. PICK s \in InTransaction : pc' = [pc EXCEPT ![r] = s]
      BY <1>2 DEF LockUser, ReadProfile, LockOwner, CountOwners, Write
    <3> QED
      BY <3>1, PhaseMoves DEF Steps
  <2>3. phase' = phase
    BY <2>1, <2>2
  <2>4. UNCHANGED <<status, roles, authVersion, audit, req>>
    BY <1>2 DEF LockUser, ReadProfile, LockOwner, CountOwners, Write
  <2> QED
    BY <2>3, <2>4 DEF Register!vars
<1>3. ASSUME NEW r \in Requests, Commit(r)
      PROVE  Register!Apply(r)
  <2>1. End(r, "changed") /\ pc[r] = "commit"
    BY <1>3 DEF Commit
  <2>2. phase[r] = "open" /\ phase' = [phase EXCEPT ![r] = "done"]
    BY <2>1, PhaseMoves DEF End, Phase, Steps
  <2>3. ActiveOwners(status, roles) # {} => ActiveOwners(status', roles') # {}
    BY RetainStep
  <2>4. req' = [req EXCEPT ![r] = NoCommand]
    BY <2>1 DEF End
  <2> QED
    BY <1>3, <2>2, <2>3, <2>4, CommitWrites, SameRules DEF Register!Apply, Target
<1>4. ASSUME NEW r \in Requests, NEW o \in Outcomes, pc[r] \in InTransaction,
             Rollback(r, o)
      PROVE  Register!Close(r)
  <2>1. phase[r] = "open"
    BY <1>4 DEF Phase, InTransaction
  <2>2. phase' = [phase EXCEPT ![r] = "done"]
    BY <1>4, PhaseMoves DEF Rollback, End, Steps
  <2> QED
    BY <1>4, <2>1, <2>2, SameRules DEF Register!Close, Rollback, End
<1>5. CASE UNCHANGED vars
  BY <1>5 DEF vars, Register!vars, Phase
<1> QED
  BY <1>1, <1>2, <1>3, <1>4, <1>5, NextCases DEF Register!Next

\* Every behaviour of the concurrent transactions is one in which the commands
\* that succeed ran one at a time, each on the rows it found.
THEOREM Atomicity == Spec => ActsAtomically
<1>1. TypeOK /\ TypeOK' /\ DecisionHolds /\ LastOwnerGuarded /\ [Next]_vars
        => [Register!Next]_(Register!vars)
  BY RegisterStep
<1> QED
  BY <1>1, RegisterInit, TypeCorrect, DecisionsHold, LastOwnerSafe, PTL
     DEF Spec, ActsAtomically, Register!Spec
-----------------------------------------------------------------------------
(* Audit events and authority *)

\* The strengthening of AuditedOnce: only requests that ended have an outcome.
AuditInv ==
  /\ IsFiniteSet(audit)
  /\ AuditedOnce
  /\ \A r \in Requests : pc[r] # "done" => outcome[r] = "none"

\* Adding a new element to a finite set adds it to the part that has P only if
\* it has P.
LEMMA OneMore ==
  ASSUME NEW S, IsFiniteSet(S), NEW e, e \notin S, NEW T, NEW Part,
         Part \subseteq S, T = Part \cup {e}
  PROVE  Cardinality(T) = Cardinality(Part) + 1
<1>1. IsFiniteSet(Part)
  BY FS_Subset
<1> QED
  BY <1>1, FS_AddElement

\* At the start nothing has been audited and nothing incremented.
LEMMA AuditInit == Init => AuditInv
BY FS_EmptySet DEF Init, AuditInv, AuditedOnce

\* Commit writes the one event of its request, and no other step writes one.
LEMMA AuditStep == TypeOK /\ DecisionHolds /\ AuditInv /\ [Next]_vars => AuditInv'
<1> SUFFICES ASSUME TypeOK, DecisionHolds, AuditInv, [Next]_vars
             PROVE  AuditInv'
  OBVIOUS
<1> USE DEF rows, locks, Goto
<1>1. ASSUME NEW r \in Requests,
             \/ Admit(r) \/ StartBootstrap(r) \/ LockUser(r) \/ ReadProfile(r)
             \/ LockOwner(r) \/ CountOwners(r) \/ Write(r)
      PROVE  AuditInv'
  <2>1. UNCHANGED <<authVersion, audit, outcome>>
    BY <1>1 DEF Admit, StartBootstrap, LockUser, ReadProfile, LockOwner,
       CountOwners, Write
  <2>2. pc[r] # "done" /\ \A s \in Requests \ {r} : pc'[s] = pc[s]
    BY <1>1 DEF TypeOK, Admit, StartBootstrap, LockUser, ReadProfile,
       ProfileReadable, LockOwner, CountOwners, Write
  <2> QED
    BY <2>1, <2>2 DEF AuditInv, AuditedOnce
<1>2. ASSUME NEW r \in Requests, Commit(r)
      PROVE  AuditInv'
  <2> DEFINE e == AuditEvent(r, req[r], roles[Target(r)])
             t == Target(r)
  <2>1. End(r, "changed") /\ pc[r] = "commit"
    BY <1>2 DEF Commit
  <2>2. /\ t \in Users /\ e.request = r /\ e.target = t
        /\ audit' = audit \cup {e}
        /\ authVersion' = [authVersion EXCEPT ![t] = authVersion[t] + 1]
    BY <1>2, CommitWrites DEF AuditEvent, Target
  <2>3. /\ outcome[r] = "none"
        /\ outcome' = [outcome EXCEPT ![r] = "changed"]
        /\ pc' = [pc EXCEPT ![r] = "done"]
    BY <2>1 DEF AuditInv, End
  <2>4. e \notin audit
    <3>1. Cardinality({x \in audit : x.request = r}) = 0
      BY <2>3 DEF AuditInv, AuditedOnce
    <3>2. IsFiniteSet({x \in audit : x.request = r})
      BY FS_Subset DEF AuditInv
    <3>3. {x \in audit : x.request = r} = {}
      BY <3>1, <3>2, FS_EmptySet
    <3> QED
      BY <2>2, <3>3
  <2>5. IsFiniteSet(audit')
    BY <2>2, FS_AddElement DEF AuditInv
  <2>6. ASSUME NEW s \in Requests
        PROVE  Cardinality({x \in audit' : x.request = s}) =
                 IF outcome'[s] = "changed" THEN 1 ELSE 0
    <3> DEFINE Part == {x \in audit : x.request = s}
    <3>1. CASE s = r
      <4>1. {x \in audit' : x.request = s} = Part \cup {e}
        BY <2>2, <3>1
      <4>2. Cardinality(Part) = 0
        BY <2>3, <3>1 DEF AuditInv, AuditedOnce
      <4>3. Cardinality({x \in audit' : x.request = s}) = Cardinality(Part) + 1
        BY <2>4, <4>1, OneMore DEF AuditInv
      <4> QED
        BY <2>3, <3>1, <4>2, <4>3 DEF TypeOK
    <3>2. CASE s # r
      <4>1. {x \in audit' : x.request = s} = Part
        BY <2>2, <3>2
      <4> QED
        BY <2>3, <3>2, <4>1 DEF TypeOK, AuditInv, AuditedOnce
    <3> QED
      BY <3>1, <3>2
  <2>7. ASSUME NEW u \in Users
        PROVE  authVersion'[u] = Cardinality({x \in audit' : x.target = u})
    <3> DEFINE Part == {x \in audit : x.target = u}
    <3>0. authVersion[u] = Cardinality(Part)
      BY DEF AuditInv, AuditedOnce
    <3>1. CASE u = t
      <4>1. {x \in audit' : x.target = u} = Part \cup {e}
        BY <2>2, <3>1
      <4>2. Cardinality({x \in audit' : x.target = u}) = Cardinality(Part) + 1
        BY <2>4, <4>1, OneMore DEF AuditInv
      <4> QED
        BY <2>2, <3>0, <3>1, <4>2 DEF TypeOK
    <3>2. CASE u # t
      <4>1. {x \in audit' : x.target = u} = Part
        BY <2>2, <3>2
      <4> QED
        BY <2>2, <3>0, <3>2, <4>1 DEF TypeOK
    <3> QED
      BY <3>1, <3>2
  <2>8. \A s \in Requests : pc'[s] # "done" => outcome'[s] = "none"
    BY <2>3 DEF TypeOK, AuditInv
  <2> QED
    BY <2>5, <2>6, <2>7, <2>8 DEF AuditInv, AuditedOnce
<1>3. ASSUME NEW r \in Requests, NEW o \in Outcomes \ {"changed"},
             pc[r] \in InTransaction, Rollback(r, o)
      PROVE  AuditInv'
  <2>1. UNCHANGED <<authVersion, audit>> /\ pc[r] # "done"
    BY <1>3 DEF Rollback, InTransaction
  <2>2. /\ outcome' = [outcome EXCEPT ![r] = o]
        /\ pc' = [pc EXCEPT ![r] = "done"]
    BY <1>3 DEF Rollback, End
  <2> QED
    BY <2>1, <2>2 DEF TypeOK, AuditInv, AuditedOnce
<1>4. CASE UNCHANGED vars
  BY <1>4 DEF vars, AuditInv, AuditedOnce
<1> QED
  BY <1>1, <1>2, <1>3, <1>4, NextCases

\* Every successful staff mutation has exactly one audit event, every other
\* request none, and the events of a user are its authVersion increments.
THEOREM EveryChangeAudited == Spec => []AuditedOnce
<1>1. AuditInv => AuditedOnce
  BY DEF AuditInv
<1> QED
  BY <1>1, TypeCorrect, DecisionsHold, AuditInit, AuditStep, PTL DEF Spec

\* What a staff command may do to its target, given that the service did not
\* refuse it on the rows it changes.
LEMMA NotRefused ==
  ASSUME NEW q \in Commands, q.kind \in StaffKinds,
         NEW st \in Statuses, NEW rs \in SUBSET Roles, ~ Refused(q, st, rs),
         st = "none" => rs = {}
  PROVE  LET gained == WrittenRoles(q, rs) \ rs
             lost   == rs \ WrittenRoles(q, rs)
         IN  /\ \A k \in gained : Grants[k] \subseteq q.authority
             /\ (Owner \in gained \cup lost
                   \/ (Owner \in rs /\ WrittenStatus(q, st) # st))
                  => AssignOwner \in q.authority
<1>1. CASE q.kind = "create"
  BY <1>1 DEF Refused, MayAssign, PermissionsOf, WrittenRoles, WrittenStatus
<1>2. CASE q.kind = "replace"
  BY <1>2 DEF Refused, MayAssign, PermissionsOf, WrittenRoles, WrittenStatus,
              OwnerChanged
<1>3. CASE q.kind \in {"suspend", "activate"}
  BY <1>3 DEF Refused, WrittenRoles, WrittenStatus
<1> QED
  BY <1>1, <1>2, <1>3 DEF StaffKinds

\* Role assignments hang on a profile.
RolesNeedProfile == \A u \in Users : status[u] = "none" => roles[u] = {}

\* No command leaves roles without a profile.
LEMMA ProfileStep ==
  TypeOK /\ DecisionHolds /\ RolesNeedProfile /\ [Next]_vars => RolesNeedProfile'
<1> SUFFICES ASSUME TypeOK, DecisionHolds, RolesNeedProfile, [Next]_vars
             PROVE  RolesNeedProfile'
  OBVIOUS
<1>1. ASSUME NEW r \in Requests, Commit(r)
      PROVE  RolesNeedProfile'
  <2> DEFINE t == Target(r)
  <2>1. /\ t \in Users
        /\ status' = [status EXCEPT ![t] = WrittenStatus(req[r], status[t])]
        /\ roles' = [roles EXCEPT ![t] = WrittenRoles(req[r], roles[t])]
        /\ ~ Refused(req[r], status[t], roles[t])
    BY <1>1, CommitWrites
  <2>2. WrittenStatus(req[r], status[t]) # "none"
    BY <2>1 DEF Refused, WrittenStatus, NextStatus
  <2> QED
    BY <2>1, <2>2 DEF TypeOK, RolesNeedProfile
<1>2. CASE UNCHANGED <<status, roles>>
  BY <1>2 DEF RolesNeedProfile
<1> QED
  BY <1>1, <1>2, NextCases
     DEF Admit, StartBootstrap, LockUser, ReadProfile, LockOwner, CountOwners,
         Write, Rollback, rows, vars

\* A step in which a request succeeds is its Commit, and what that writes was
\* checked against its authority.
LEMMA EscalationStep ==
  ASSUME TypeOK, DecisionHolds, AuditInv, RolesNeedProfile, [Next]_vars,
         NEW r \in Requests, Succeeds(r), req[r].kind \in StaffKinds
  PROVE  LET t == Target(r)
             gained == roles'[t] \ roles[t]
             lost   == roles[t] \ roles'[t]
         IN  /\ \A k \in gained : Grants[k] \subseteq req[r].authority
             /\ Owner \in gained \cup lost \/ (Owner \in roles[t] /\ status'[t] # status[t])
                  => AssignOwner \in req[r].authority
<1>1. pc[r] = "commit" /\ outcome[r] = "none" /\ outcome'[r] = "changed"
  BY DEF Succeeds, AuditInv
<1>2. ASSUME NEW s \in Requests, s # r, Commit(s) \/ \E o \in Outcomes : Rollback(s, o)
      PROVE  FALSE
  <2>1. \E o \in Outcomes : End(s, o)
    BY <1>2 DEF Commit, Rollback, Outcomes
  <2>2. outcome'[r] = outcome[r]
    BY <1>2, <2>1 DEF TypeOK, End
  <2> QED
    BY <1>1, <2>2
<1>3. ASSUME NEW s \in Requests, NEW o \in Outcomes \ {"changed"}, Rollback(s, o)
      PROVE  FALSE
  <2>1. outcome'[r] \in {outcome[r], o}
    BY <1>3 DEF TypeOK, Rollback, End
  <2> QED
    BY <1>1, <2>1
<1>4. CASE outcome' = outcome
  BY <1>1, <1>4
<1>5. Commit(r)
  BY <1>1, <1>2, <1>3, <1>4, NextCases
     DEF Admit, StartBootstrap, LockUser, ReadProfile, LockOwner, CountOwners,
         Write, vars
<1> DEFINE q == req[r]
           t == Target(r)
<1>6. /\ q \in Commands /\ t \in Users
      /\ ~ Refused(q, status[t], roles[t])
      /\ status'[t] = WrittenStatus(q, status[t])
      /\ roles'[t] = WrittenRoles(q, roles[t])
  BY <1>5, CommitWrites DEF TypeOK
<1>7. /\ status[t] \in Statuses /\ roles[t] \in SUBSET Roles
      /\ status[t] = "none" => roles[t] = {}
  BY <1>6 DEF TypeOK, RolesNeedProfile
<1> QED
  BY <1>6, <1>7, NotRefused

\* No staff command escalates beyond the authority it was admitted with.
THEOREM NothingEscalates == Spec => NoEscalation
<1>1. Init => RolesNeedProfile
  BY DEF Init, RolesNeedProfile
<1>2. TypeOK /\ DecisionHolds /\ AuditInv /\ RolesNeedProfile /\ [Next]_vars
        => [\A r \in Requests : Succeeds(r) /\ req[r].kind \in StaffKinds =>
              LET t == Target(r)
                  gained == roles'[t] \ roles[t]
                  lost   == roles[t] \ roles'[t]
              IN  /\ \A k \in gained : Grants[k] \subseteq req[r].authority
                  /\ Owner \in gained \cup lost \/ (Owner \in roles[t] /\ status'[t] # status[t])
                       => AssignOwner \in req[r].authority]_vars
  BY EscalationStep
<1> QED
  BY <1>1, <1>2, TypeCorrect, DecisionsHold, AuditInit, AuditStep, ProfileStep, PTL
     DEF Spec, NoEscalation
=============================================================================
