------------------------------ MODULE MCStaff -------------------------------
(***************************************************************************)
(* Small instances of StaffLifecycle, with the roles and permissions the   *)
(* code has.  Requests assign those that differ in staff authority.        *)
(***************************************************************************)
EXTENDS StaffLifecycle, RoleCatalogue, TLC

\* Every command, every pair of roles that differ in staff authority.
AnyRole == {{}, {"owner"}, {"administrator"}}

\* Owners and nobody else: the races about the last owner.
OwnerOrNot == {{}, {"owner"}}

Interchangeable == Permutations(Requests) \cup Permutations(Users \ Disabled)
=============================================================================
