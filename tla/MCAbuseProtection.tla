-------------------------- MODULE MCAbuseProtection --------------------------
(***************************************************************************)
(* A small instance of AbuseProtection: two clients who share an account   *)
(* and may share an address, limits of one and two, windows of one and two *)
(* seconds, and ticks of half a second, so that a remaining time need not  *)
(* be a whole number of seconds.                                           *)
(***************************************************************************)
EXTENDS AbuseProtection
=============================================================================
