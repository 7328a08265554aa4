----------------------------- MODULE MCIdentity -----------------------------
(***************************************************************************)
(* Small instances of Identity.  Requests, browsers and passwords are      *)
(* interchangeable; a run names the endpoints its requests go to, by the   *)
(* setting of the installation.                                            *)
(***************************************************************************)
EXTENDS Identity, TLC

\* Sign-ins and sign-outs in one installation, verification in the other.
AllTraffic ==
  [v \in BOOLEAN |->
     IF v THEN {"register", "requestMail", "confirm"}
     ELSE {"login", "change", "logoutAll", "logout", "me", "register", "csrf"}]

LogoutTraffic  == [v \in {FALSE} |-> {"csrf", "logout"}]
ConfirmTraffic == [v \in {TRUE} |-> {"logoutAll", "confirm"}]

Interchangeable ==
  Permutations(Requests) \cup Permutations(Browsers) \cup Permutations(Passwords)
=============================================================================
