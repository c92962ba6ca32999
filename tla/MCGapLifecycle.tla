--------------------------- MODULE MCGapLifecycle ---------------------------
(***************************************************************************)
(* Small instances of GapLifecycle: calls one after the other, calls of    *)
(* two processes that overlap and die, and a database of an earlier phase, *)
(* whose questions have states but no events.                              *)
(***************************************************************************)
EXTENDS GapLifecycle, TLC

CONSTANTS p1, p2, q1, q2

MCCalls == [m \in Modes |-> IF m = "alone" THEN 4 ELSE 2]
MCSymmetry == Permutations(Procs) \cup Permutations(Questions)
=============================================================================
