----------------------------- MODULE MCProjects -----------------------------
(***************************************************************************)
(* A small instance of Projects: two ambiguous changes and a clear one.    *)
(* Six stamps are as many as are remembered at a time, and one more.       *)
(***************************************************************************)
EXTENDS Projects, TLC

CONSTANTS i1, i2, u
=============================================================================
