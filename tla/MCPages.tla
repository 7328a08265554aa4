------------------------------ MODULE MCPages -------------------------------
(* Small instances of Pages. *)
EXTENDS Pages

MCIds == 1 .. 3
=============================================================================
