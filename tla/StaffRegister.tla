--------------------------- MODULE StaffRegister ----------------------------
(***************************************************************************)
(* What staff administration promises: every command that succeeds acts    *)
(* as if it had run alone and at once, on the rows as they are at that     *)
(* moment, and no command may take away the last active owner.  A command  *)
(* may also end without any effect.                                        *)
(***************************************************************************)
EXTENDS StaffRules, Naturals

VARIABLES
  status,       \* status[u]: the staff profile of u
  roles,        \* roles[u]: the roles assigned to u
  authVersion,  \* authVersion[u]: increments of users.auth_version by staff commands
  audit,        \* authorization_audit_events
  req,          \* req[r]: the command request r carries
  phase         \* phase[r]: "idle", "open" or "done"

vars == <<status, roles, authVersion, audit, req, phase>>

Init ==
  /\ status \in [Users -> Statuses]
  /\ roles \in [Users -> SUBSET Roles]
  /\ authVersion = [u \in Users |-> 0]
  /\ audit = {}
  /\ req = [r \in Requests |-> NoCommand]
  /\ phase = [r \in Requests |-> "idle"]

\* A command enters with the authority its actor has at this moment.
Open(r) ==
  /\ phase[r] = "idle"
  /\ \E q \in Admitted(status, roles) \cup Bootstraps :
       req' = [req EXCEPT ![r] = q]
  /\ phase' = [phase EXCEPT ![r] = "open"]
  /\ UNCHANGED <<status, roles, authVersion, audit>>

\* The command is checked and applied against the current rows in one step.
Apply(r) ==
  LET q == req[r]
      t == q.target
  IN  /\ phase[r] = "open"
      /\ t \notin Disabled
      /\ ~ Refused(q, status[t], roles[t])
      /\ ~ AlreadyOwner(q, status[t], roles[t])
      /\ status' = [status EXCEPT ![t] = WrittenStatus(q, status[t])]
      /\ roles' = [roles EXCEPT ![t] = WrittenRoles(q, roles[t])]
      /\ authVersion' = [authVersion EXCEPT ![t] = authVersion[t] + 1]
      /\ audit' = audit \cup {AuditEvent(r, q, roles[t])}
      /\ ActiveOwners(status, roles) # {} => ActiveOwners(status', roles') # {}
      /\ phase' = [phase EXCEPT ![r] = "done"]
      /\ req' = [req EXCEPT ![r] = NoCommand]

\* Refused, failed or without effect.
Close(r) ==
  /\ phase[r] = "open"
  /\ phase' = [phase EXCEPT ![r] = "done"]
  /\ req' = [req EXCEPT ![r] = NoCommand]
  /\ UNCHANGED <<status, roles, authVersion, audit>>

Next == \E r \in Requests : Open(r) \/ Apply(r) \/ Close(r)

Spec == Init /\ [][Next]_vars
=============================================================================
